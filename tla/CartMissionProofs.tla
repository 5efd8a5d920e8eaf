-------------------------- MODULE CartMissionProofs --------------------------
(* Theorems about CartMission, for any number of moves, goals, requests,   *)
(* messages under way, outages and restarts.                               *)
EXTENDS CartMission, GoalForwarderProofs

-----------------------------------------------------------------------------
(* The forwarder and Nav2 in the composition do what GoalForwarder says. *)

LEMMA RelayStep ==
    ASSUME \/ FrontendRequest \/ BackendReceives \/ BackendRestarts \/ BackendReconciles
           \/ ConnectionBreaks \/ BridgeStep
    PROVE  UNCHANGED vars
BY DEF FrontendRequest, BackendReceives, BackendRestarts, BackendReconciles, ConnectionBreaks,
       BridgeStep, vars

LEMMA MissionStep == [MissionNext]_missionVars => [Step]_vars
<1> SUFFICES ASSUME [MissionNext]_missionVars PROVE [Step]_vars
  OBVIOUS
<1>1. CASE Delivery
  BY <1>1 DEF Delivery, PoseDelivered, CancelDelivered, FollowModeDelivered, Step, Subscriptions
<1>2. CASE ForwarderStep
  <2>1. (\E moved \in BOOLEAN : TargetPoint(moved)) \/ Callbacks \/ IntervalPasses
    BY <1>2 DEF ForwarderStep, Callbacks
  <2> QED BY <2>1 DEF Step, Subscriptions
<1>3. CASE Nav2Moves
  BY <1>3 DEF Nav2Moves, Step
<1>4. CASE UNCHANGED missionVars
  BY <1>4 DEF missionVars, vars
<1> QED BY <1>1, <1>2, <1>3, <1>4, RelayStep DEF MissionNext

\* The backend, the bridge and MQTT leave the forwarder and Nav2 alone but for the commands
\* they deliver: in the composition the node does what goal_forwarder.py says, whatever is
\* delivered in whatever order, and so the goal the cart drives to is the one it holds and
\* reports there too.
THEOREM ForwarderInMission == MissionSpec => Init /\ [][Step]_vars /\ []DrivingIsReported
<1>1. MissionInit => Init
  BY DEF MissionInit
<1>2. DriveInv => DrivingIsReported
  BY DEF DriveInv, Reported, Held, LastResponse, DrivingIsReported, Waiting
<1> QED BY <1>1, <1>2, MissionStep, DriveInit, DriveStep, PTL DEF MissionSpec

-----------------------------------------------------------------------------
(* Types. *)

LEMMA StatusesRelayed == Statuses = NavStatus /\ "NONE" \notin NavStatus
BY DEF Statuses, NavStatus, Outcomes

LEMMA CommandTypes ==
    /\ \A n \in Navigations : MoveCommand(n) \in Command /\ CancelCommand(n) \in Command
    /\ \A a \in FollowActions : FollowCommand(a) \in Command
    /\ \A c \in Command : c.requestId \in Navigations \cup {NoNavigation}
BY DEF MoveCommand, CancelCommand, FollowCommand, Command

LEMMA NavigationNumbers ==
    /\ MaxMoves \in Nat /\ NoNavigation = 0
    /\ Navigations \subseteq Nat \ {0} /\ NoNavigation \notin Navigations
BY MoveAssumption DEF Navigations, NoNavigation

\* The backend and the bridge speak of the same commands.
LEMMA SameCommands ==
    /\ Bridge!Command = Command /\ Bridge!NavStatus = NavStatus
    /\ Bridge!FollowActions = FollowActions
    /\ Service!Navigations = Navigations /\ Service!NoNavigation = NoNavigation
    /\ \A n : Service!MoveCommand(n) = MoveCommand(n) /\ Service!CancelCommand(n) = CancelCommand(n)
    /\ \A a : Service!FollowCommand(a) = FollowCommand(a)
<1> USE DEF Navigations, NoNavigation, NavStatus, FollowActions, MoveCommand, CancelCommand,
            FollowCommand, Service!Navigations, Service!NoNavigation, Service!MoveCommand,
            Service!CancelCommand, Service!FollowCommand, Bridge!NavStatus, Bridge!FollowActions,
            Bridge!Navigations, Bridge!NoNavigation
<1>1. Bridge!Command = Command
  BY DEF Command, Bridge!Command
<1> QED BY <1>1

\* What the parts say of their types, in those names.
ServiceTypes ==
    /\ session \in Navigations \cup {NoNavigation}
    /\ navigations \in 0 .. MaxMoves
    /\ follow \in {"NONE", "ACTIVE", "PAUSED"}
    /\ op_status \in {"IDLE", "NAVIGATING", "FOLLOWING"}

RelayTypes ==
    /\ cmd_topic \in Seq(Command) /\ cmd_queue \in Seq(Command)
    /\ result_topic \in Seq(NavStatus)
    /\ last_nav_status \in NavStatus \cup {"NONE"}
    /\ pending_nav_status \in NavStatus \cup {"NONE"}
    /\ target_poses \in Seq(Command) /\ cancels \in Nat
    /\ follow_mode \in FollowActions \cup {"NONE"}

Tags == Navigations \cup {NoNavigation}

HistoryTypes ==
    /\ cancelled \subseteq Navigations /\ overtaken \subseteq Navigations
    /\ forgotten \subseteq Navigations /\ misled \subseteq Navigations
    /\ asked_by \in [Goals -> Tags]

TagTypes ==
    /\ about \in Tags /\ held \in Tags /\ told \in Seq(Tags)
    /\ Len(told) = Len(result_topic)

Flags == /\ reconciled \in BOOLEAN /\ listening \in BOOLEAN /\ nav_status_new \in BOOLEAN
         /\ overheld \in BOOLEAN

LEMMA MissionTyped ==
    /\ MissionTypeOK <=> TypeOK /\ ServiceTypes /\ RelayTypes /\ HistoryTypes /\ TagTypes /\ Flags
    /\ MissionTypeOK' <=>
         TypeOK' /\ ServiceTypes' /\ RelayTypes' /\ HistoryTypes' /\ TagTypes' /\ Flags'
<1>1. \A a, b, c, d, S : {a, b, c, d} \subseteq SUBSET S <=>
        a \subseteq S /\ b \subseteq S /\ c \subseteq S /\ d \subseteq S
  OBVIOUS
<1>2. \A a, b, S : {a, b} \subseteq S <=> a \in S /\ b \in S
  OBVIOUS
<1>3. Service!ServiceTypeOK <=> ServiceTypes /\ reconciled \in BOOLEAN
  BY SameCommands DEF ServiceTypes, Service!ServiceTypeOK, Service!FollowStates
<1>4. Bridge!BridgeTypeOK <=> RelayTypes /\ listening \in BOOLEAN /\ nav_status_new \in BOOLEAN
  BY SameCommands DEF RelayTypes, Bridge!BridgeTypeOK
<1>5. Service!ServiceTypeOK' <=> ServiceTypes' /\ reconciled' \in BOOLEAN
  BY SameCommands DEF ServiceTypes, Service!ServiceTypeOK, Service!FollowStates
<1>6. Bridge!BridgeTypeOK' <=> RelayTypes' /\ listening' \in BOOLEAN /\ nav_status_new' \in BOOLEAN
  BY SameCommands DEF RelayTypes, Bridge!BridgeTypeOK
<1> QED BY <1>1, <1>2, <1>3, <1>4, <1>5, <1>6 DEF MissionTypeOK, HistoryTypes, TagTypes, Flags, Tags

LEMMA RequestTypes ==
    ASSUME ServiceTypes, cmd_topic \in Seq(Command), Service!Request
    PROVE  ServiceTypes' /\ cmd_topic' \in Seq(Command)
<1> USE SameCommands DEF ServiceTypes
<1>1. CASE Service!StartMove
  <2>1. navigations + 1 \in Navigations /\ navigations + 1 \in 0 .. MaxMoves
    BY <1>1, NavigationNumbers DEF Service!StartMove, Navigations
  <2>2. MoveCommand(session') \in Command
    BY <1>1, <2>1, CommandTypes DEF Service!StartMove
  <2> QED BY <1>1, <2>1, <2>2 DEF Service!StartMove, Service!Publish
<1>2. CASE Service!CancelMove
  <2>1. CancelCommand(session) \in Command
    BY <1>2, CommandTypes DEF Service!CancelMove
  <2> QED BY <1>2, <2>1 DEF Service!CancelMove, Service!Publish
<1>3. CASE Service!StartFollow \/ Service!PauseFollow \/ Service!StopFollow
  <2>1. \A a \in FollowActions : FollowCommand(a) \in Command
    BY CommandTypes
  <2> QED BY <1>3, <2>1 DEF Service!StartFollow, Service!PauseFollow, Service!StopFollow,
                            Service!Publish, FollowActions
<1>4. CASE Service!CancelOrphan \/ Service!StopOrphan
  BY <1>4 DEF Service!CancelOrphan, Service!StopOrphan
<1> QED BY <1>1, <1>2, <1>3, <1>4 DEF Service!Request

LEMMA FlushTypes ==
    ASSUME RelayTypes, NEW s \in NavStatus \cup {"NONE"}, Bridge!Flush(s)
    PROVE  /\ result_topic' \in Seq(NavStatus)
           /\ last_nav_status' \in NavStatus \cup {"NONE"}
           /\ pending_nav_status' \in NavStatus \cup {"NONE"}
<1>1. CASE s # "NONE" /\ listening
  <2>1. /\ result_topic' = Append(result_topic, s) /\ last_nav_status' = s
        /\ pending_nav_status' = "NONE"
    BY <1>1 DEF Bridge!Flush
  <2> QED BY <1>1, <2>1 DEF RelayTypes
<1>2. CASE ~(s # "NONE" /\ listening)
  <2>1. pending_nav_status' = s /\ UNCHANGED <<result_topic, last_nav_status>>
    BY <1>2 DEF Bridge!Flush
  <2> QED BY <2>1 DEF RelayTypes
<1> QED BY <1>1, <1>2

LEMMA BridgeTypes ==
    ASSUME RelayTypes, status \in NavStatus, BridgeStep
    PROVE  RelayTypes'
<1> USE SameCommands DEF RelayTypes
<1>1. CASE Bridge!Connect
  BY <1>1 DEF Bridge!Connect, Bridge!relayVars, Bridge!topicVars
<1>2. CASE Bridge!OnMqttMessage
  BY <1>2 DEF Bridge!OnMqttMessage, Bridge!relayVars, Bridge!topicVars
<1>3. CASE NavStatusTaken
  <2>1. Bridge!OnNavStatus
    BY <1>3 DEF NavStatusTaken
  <2> QED BY <2>1, FlushTypes DEF Bridge!OnNavStatus, Bridge!topicVars
<1>4. CASE QueueDrained
  <2>0. Bridge!DrainCmdQueue
    BY <1>4 DEF QueueDrained
  <2>1. /\ result_topic' \in Seq(NavStatus)
        /\ last_nav_status' \in NavStatus \cup {"NONE"}
        /\ pending_nav_status' \in NavStatus \cup {"NONE"}
    BY <2>0, FlushTypes DEF Bridge!DrainCmdQueue
  <2>2. CASE cmd_queue # << >>
    <3>1. /\ Head(cmd_queue) \in Command /\ Bridge!Forwarded(Head(cmd_queue))
          /\ cmd_queue' = Tail(cmd_queue)
      BY <2>0, <2>2 DEF Bridge!DrainCmdQueue
    <3>2. /\ target_poses' \in Seq(Command) /\ cancels' \in Nat
          /\ follow_mode' \in FollowActions \cup {"NONE"}
      BY <3>1 DEF Bridge!Forwarded
    <3>3. UNCHANGED cmd_topic
      BY <2>0 DEF Bridge!DrainCmdQueue
    <3> QED BY <2>1, <2>2, <3>1, <3>2, <3>3
  <2>3. CASE cmd_queue = << >>
    <3>1. UNCHANGED <<cmd_topic, cmd_queue, target_poses, cancels, follow_mode>>
      BY <2>0, <2>3 DEF Bridge!DrainCmdQueue, Bridge!topicVars
    <3> QED BY <2>1, <3>1
  <2> QED BY <2>2, <2>3
<1> QED BY <1>1, <1>2, <1>3, <1>4 DEF BridgeStep

\* A status is published with its tag, and held with it.
LEMMA TagsFlushed ==
    ASSUME RelayTypes, TagTypes, NEW s, Bridge!Flush(s), NEW n \in Tags, HandedOn(n)
    PROVE  held' \in Tags /\ told' \in Seq(Tags) /\ Len(told') = Len(result_topic')
<1>1. NoNavigation \in Tags
  BY DEF Tags
<1>2. held' \in Tags
  BY <1>1 DEF HandedOn
<1>3. CASE result_topic' = result_topic
  BY <1>2, <1>3 DEF HandedOn, TagTypes
<1>4. CASE result_topic' # result_topic
  <2>1. result_topic' = Append(result_topic, s) /\ told' = Append(told, n)
    BY <1>4 DEF HandedOn, Bridge!Flush
  <2>2. Len(result_topic') = Len(result_topic) + 1
    BY <2>1 DEF RelayTypes
  <2>3. told' \in Seq(Tags) /\ Len(told') = Len(told) + 1
    BY <2>1 DEF TagTypes
  <2> QED BY <1>2, <2>2, <2>3 DEF TagTypes
<1> QED BY <1>2, <1>3, <1>4

LEMMA BridgeTags ==
    ASSUME RelayTypes, TagTypes, BridgeStep
    PROVE  TagTypes'
<1> USE DEF TagTypes
<1>1. UNCHANGED about
  BY DEF BridgeStep
<1>2. CASE (Bridge!Connect \/ Bridge!OnMqttMessage) /\ UNCHANGED <<told, held, overheld>>
  BY <1>1, <1>2 DEF Bridge!Connect, Bridge!OnMqttMessage
<1>3. CASE NavStatusTaken
  <2>1. CASE status = last_nav_status
    BY <1>1, <1>3, <2>1 DEF NavStatusTaken, Bridge!OnNavStatus
  <2>2. CASE status # last_nav_status
    <3>1. Bridge!Flush(status) /\ HandedOn(about)
      BY <1>3, <2>2 DEF NavStatusTaken, Bridge!OnNavStatus
    <3> QED BY <1>1, <3>1, TagsFlushed
  <2> QED BY <2>1, <2>2
<1>4. CASE QueueDrained
  <2>1. Bridge!Flush(pending_nav_status) /\ HandedOn(held)
    BY <1>4 DEF QueueDrained, Bridge!DrainCmdQueue
  <2> QED BY <1>1, <2>1, TagsFlushed
<1> QED BY <1>2, <1>3, <1>4 DEF BridgeStep

LEMMA FlagsStep == MissionTypeOK /\ [MissionNext]_missionVars => Flags'
<1> SUFFICES ASSUME Flags, [MissionNext]_missionVars PROVE Flags'
  BY MissionTyped
<1> USE DEF Flags
<1>1. CASE FrontendRequest
  BY <1>1 DEF FrontendRequest, topicVars, tagVars, Service!Request, Service!StartMove, Service!CancelMove,
              Service!CancelOrphan, Service!StartFollow, Service!PauseFollow,
              Service!StopFollow, Service!StopOrphan, Service!Publish
<1>2. CASE BackendReceives \/ BackendRestarts \/ BackendReconciles
  BY <1>2 DEF BackendReceives, BackendRestarts, BackendReconciles, topicVars, tagVars, historyVars,
              Service!ApplyNavResult, Service!Restart, Service!Reconcile
<1>3. CASE ConnectionBreaks
  BY <1>3 DEF ConnectionBreaks, Bridge!Disconnect, Bridge!relayVars, serviceVars, tagVars
<1>4. CASE BridgeStep
  BY <1>4 DEF BridgeStep, NavStatusTaken, QueueDrained, Bridge!Connect, Bridge!OnMqttMessage,
              Bridge!OnNavStatus, Bridge!DrainCmdQueue, Bridge!relayVars, serviceVars
<1>5. CASE Delivery \/ ForwarderStep
  BY <1>5 DEF Delivery, PoseDelivered, CancelDelivered, FollowModeDelivered, ForwarderStep,
              Others, StatusPublished, serviceVars, relayVars
<1>6. CASE Nav2Moves \/ UNCHANGED missionVars
  BY <1>6 DEF Nav2Moves, missionVars, serviceVars, relayVars, topicVars, historyVars, tagVars
<1> QED BY <1>1, <1>2, <1>3, <1>4, <1>5, <1>6 DEF MissionNext

LEMMA MissionTypeStep == MissionTypeOK /\ [MissionNext]_missionVars => MissionTypeOK'
<1> SUFFICES ASSUME MissionTypeOK, [MissionNext]_missionVars PROVE MissionTypeOK'
  OBVIOUS
<1>1. TypeOK' /\ Flags'
  BY MissionStep, TypeStep, FlagsStep DEF MissionTypeOK
<1>2. ServiceTypes /\ RelayTypes /\ HistoryTypes /\ TagTypes /\ status \in NavStatus /\ TypeOK
  BY StatusesRelayed, MissionTyped DEF TypeOK
<1> SUFFICES ServiceTypes' /\ RelayTypes' /\ HistoryTypes' /\ TagTypes'
  BY <1>1, MissionTyped
<1> USE SameCommands DEF topicVars, courseVars, tagVars, historyVars
<1>3. CASE FrontendRequest
  <2>1. ServiceTypes' /\ cmd_topic' \in Seq(Command)
    BY <1>2, <1>3, RequestTypes DEF FrontendRequest, RelayTypes
  <2>2. UNCHANGED result_topic
    BY <1>3 DEF FrontendRequest, Service!Request, Service!StartMove, Service!CancelMove,
                Service!CancelOrphan, Service!StartFollow, Service!PauseFollow,
                Service!StopFollow, Service!StopOrphan, Service!Publish
  <2>3. HistoryTypes'
    BY <1>2, <1>3 DEF FrontendRequest, ServiceTypes, HistoryTypes
  <2>4. TagTypes'
    BY <1>2, <1>3, <2>2 DEF FrontendRequest, TagTypes
  <2> QED BY <1>2, <1>3, <2>1, <2>2, <2>3, <2>4 DEF FrontendRequest, RelayTypes
<1>4. CASE BackendReceives
  <2>1. ServiceTypes' /\ RelayTypes'
    BY <1>2, <1>4 DEF BackendReceives, Service!ApplyNavResult, ServiceTypes, RelayTypes
  <2>2. session' # session => session \in Navigations
    BY <1>2, <1>4 DEF BackendReceives, Service!ApplyNavResult, ServiceTypes
  <2>3. HistoryTypes'
    BY <1>2, <1>4, <2>2 DEF BackendReceives, HistoryTypes
  <2>4. TagTypes'
    <3>1. /\ result_topic # << >> /\ result_topic' = Tail(result_topic) /\ told' = Tail(told)
          /\ UNCHANGED <<about, held>>
      BY <1>4 DEF BackendReceives, Service!ApplyNavResult
    <3>2. Len(result_topic) # 0 /\ Len(told) = Len(result_topic)
      BY <1>2, <3>1 DEF RelayTypes, TagTypes
    <3>3. Len(result_topic') = Len(result_topic) - 1
      BY <1>2, <3>1, <3>2 DEF RelayTypes
    <3>4. told' \in Seq(Tags) /\ Len(told') = Len(told) - 1
      BY <1>2, <3>1, <3>2 DEF TagTypes
    <3> QED BY <1>2, <3>1, <3>2, <3>3, <3>4 DEF TagTypes
  <2> QED BY <2>1, <2>3, <2>4
<1>5. CASE BackendRestarts
  BY <1>2, <1>5 DEF BackendRestarts, Service!Restart, ServiceTypes, RelayTypes, HistoryTypes,
                    TagTypes
<1>6. CASE BackendReconciles
  BY <1>2, <1>6 DEF BackendReconciles, Service!Reconcile, ServiceTypes, RelayTypes, HistoryTypes,
                    TagTypes
<1>7. CASE ConnectionBreaks
  BY <1>2, <1>7 DEF ConnectionBreaks, Bridge!Disconnect, Bridge!relayVars, Bridge!topicVars,
                    serviceVars, ServiceTypes, RelayTypes, HistoryTypes, TagTypes
<1>8. CASE BridgeStep
  BY <1>2, <1>8, BridgeTypes, BridgeTags DEF BridgeStep, serviceVars, ServiceTypes, HistoryTypes
<1>9. CASE Delivery \/ ForwarderStep
  <2>1. UNCHANGED <<serviceVars, relayVars, mqttVars, courseVars, held, told>>
    BY <1>9 DEF Delivery, PoseDelivered, CancelDelivered, FollowModeDelivered, ForwarderStep,
                Others
  <2>2. ServiceTypes'
    BY <1>2, <2>1 DEF serviceVars, ServiceTypes
  <2>3. /\ target_poses' \in Seq(Command) /\ cancels' \in Nat
        /\ follow_mode' \in FollowActions \cup {"NONE"}
        /\ asked_by' \in [Goals -> Tags] /\ about' \in Tags
    <3>0. ASSUME NEW n \in Tags, StatusPublished(n) PROVE about' \in Tags
      BY <1>2, <3>0 DEF StatusPublished, TagTypes
    <3>1. CASE PoseDelivered
      <4>1. Head(target_poses) \in Command
        BY <1>2, <3>1 DEF PoseDelivered, RelayTypes
      <4>2. Head(target_poses).requestId \in Tags
        BY <4>1, CommandTypes DEF Tags
      <4>3. asked_by' \in [Goals -> Tags]
        BY <1>2, <3>1, <4>2 DEF PoseDelivered, HistoryTypes
      <4>4. StatusPublished(Head(target_poses).requestId)
        BY <3>1 DEF PoseDelivered
      <4> QED BY <1>2, <3>0, <3>1, <4>2, <4>3, <4>4 DEF PoseDelivered, RelayTypes
    <3>2. CASE CancelDelivered \/ FollowModeDelivered \/ ForwarderStep
      <4>1. NoNavigation \in Tags /\ \A g : NavigationOf(g) \in Tags
        BY <1>2 DEF Tags, NavigationOf, HistoryTypes
      <4>2. \E n \in Tags : StatusPublished(n)
        BY <3>2, <4>1 DEF CancelDelivered, FollowModeDelivered, ForwarderStep
      <4> QED BY <1>2, <3>0, <3>2, <4>2 DEF CancelDelivered, FollowModeDelivered, ForwarderStep,
                                           RelayTypes, HistoryTypes
    <3> QED BY <1>9, <3>1, <3>2 DEF Delivery
  <2>4. overtaken' \subseteq Navigations
    <3>1. CASE CancelDelivered
      <4>1. overtaken' \subseteq overtaken \cup cancelled
        BY <3>1 DEF CancelDelivered
      <4> QED BY <1>2, <4>1 DEF HistoryTypes
    <3>2. CASE PoseDelivered \/ FollowModeDelivered \/ ForwarderStep
      BY <1>2, <3>2 DEF PoseDelivered, FollowModeDelivered, ForwarderStep, HistoryTypes
    <3> QED BY <1>9, <3>1, <3>2 DEF Delivery
  <2>5. RelayTypes'
    BY <1>2, <2>1, <2>3 DEF relayVars, mqttVars, RelayTypes
  <2>6. HistoryTypes' /\ TagTypes'
    BY <1>2, <2>1, <2>3, <2>4 DEF HistoryTypes, TagTypes, mqttVars
  <2> QED BY <2>2, <2>5, <2>6
<1>10. CASE Nav2Moves \/ UNCHANGED missionVars
  BY <1>2, <1>10 DEF Nav2Moves, missionVars, serviceVars, relayVars, mqttVars, ServiceTypes,
                     RelayTypes, HistoryTypes, TagTypes
<1> QED BY <1>3, <1>4, <1>5, <1>6, <1>7, <1>8, <1>9, <1>10 DEF MissionNext

LEMMA MissionTypeInit == MissionInit => MissionTypeOK
<1>1. 0 \in 0 .. MaxMoves /\ << >> \in Seq(Command) /\ << >> \in Seq(NavStatus)
  BY NavigationNumbers
<1>2. MissionInit => ServiceTypes /\ RelayTypes
  BY <1>1, SameCommands DEF MissionInit, ServiceTypes, RelayTypes, Service!ServiceInit,
                            Bridge!BridgeInit
<1>3. MissionInit => HistoryTypes /\ Flags
  BY DEF MissionInit, HistoryTypes, Flags, Service!ServiceInit, Bridge!BridgeInit, Tags
<1>4. MissionInit => TagTypes
  <2>1. << >> \in Seq(Tags) /\ NoNavigation \in Tags
    BY DEF Tags
  <2> QED BY <2>1 DEF MissionInit, TagTypes, Bridge!BridgeInit
<1> QED BY <1>2, <1>3, <1>4, TypeInit, MissionTyped DEF MissionInit

\* Every part keeps its types in the composition: no status but those of the node is held
\* or published, no command reaches a topic that is not for it, and goals are asked for
\* by navigations that were started (NavigationService, mqtt_bridge.py, goal_forwarder.py).
THEOREM MissionTypeCorrect == MissionSpec => []MissionTypeOK
BY MissionTypeInit, MissionTypeStep, PTL DEF MissionSpec

-----------------------------------------------------------------------------
(* The status of the database. *)

NumbersInv == navigations \in Nat /\ StatusHasSession

LEMMA NumbersStep == NumbersInv /\ [MissionNext]_missionVars => NumbersInv'
<1> SUFFICES ASSUME NumbersInv, [MissionNext]_missionVars PROVE NumbersInv'
  OBVIOUS
<1> USE SameCommands, NavigationNumbers DEF NumbersInv, StatusHasSession
<1>1. CASE FrontendRequest
  <2>1. CASE Service!StartMove
    BY <2>1 DEF Service!StartMove
  <2>2. CASE Service!CancelMove \/ Service!CancelOrphan
    BY <2>2 DEF Service!CancelMove, Service!CancelOrphan
  <2>3. CASE Service!StartFollow \/ Service!PauseFollow \/ Service!StopFollow
    BY <2>3 DEF Service!StartFollow, Service!PauseFollow, Service!StopFollow
  <2>4. CASE Service!StopOrphan
    BY <2>4 DEF Service!StopOrphan
  <2> QED BY <1>1, <2>1, <2>2, <2>3, <2>4 DEF FrontendRequest, Service!Request
<1>2. CASE BackendReceives
  BY <1>2 DEF BackendReceives, Service!ApplyNavResult
<1>3. CASE BackendRestarts \/ BackendReconciles
  BY <1>3 DEF BackendRestarts, BackendReconciles, Service!Restart, Service!Reconcile
<1>4. CASE ConnectionBreaks \/ BridgeStep \/ Delivery \/ ForwarderStep \/ Nav2Moves
             \/ UNCHANGED missionVars
  <2>1. UNCHANGED serviceVars
    BY <1>4 DEF ConnectionBreaks, BridgeStep, Delivery, PoseDelivered, CancelDelivered,
                FollowModeDelivered, ForwarderStep, Others, Nav2Moves, missionVars
  <2> QED BY <2>1 DEF serviceVars
<1> QED BY <1>1, <1>2, <1>3, <1>4 DEF MissionNext

\* Once CartOperationStatusReconciler has run, a cart is NAVIGATING or FOLLOWING in the
\* database only with a session for it, in whatever order requests of both services,
\* results and restarts come.
THEOREM StatusOfSession == MissionSpec => []StatusHasSession
<1>1. MissionInit => NumbersInv
  BY DEF MissionInit, NumbersInv, StatusHasSession, Service!ServiceInit
<1>2. NumbersInv => StatusHasSession
  BY DEF NumbersInv
<1> QED BY <1>1, <1>2, NumbersStep, PTL DEF MissionSpec

-----------------------------------------------------------------------------
(* The status that the backend was told last. *)

\* A status the bridge has taken is held or was published last; but while one is held, the
\* cart can have returned to the one published last.
Relayed ==
    ~nav_status_new /\ ~overheld =>
        status = IF pending_nav_status # "NONE" THEN pending_nav_status ELSE last_nav_status

RelayInv == /\ nav_status_new \in BOOLEAN /\ listening \in BOOLEAN /\ overheld \in BOOLEAN
            /\ status \in NavStatus /\ Relayed
            /\ pending_nav_status \in NavStatus \cup {"NONE"}

LEMMA FlushRelays ==
    ASSUME NEW s \in NavStatus \cup {"NONE"}, Bridge!Flush(s), UNCHANGED listening
    PROVE  /\ pending_nav_status' = IF listening THEN "NONE" ELSE s
           /\ last_nav_status' = IF listening /\ s # "NONE" THEN s ELSE last_nav_status
<1>1. CASE s # "NONE" /\ listening
  BY <1>1 DEF Bridge!Flush
<1>2. CASE ~(s # "NONE" /\ listening)
  BY <1>2 DEF Bridge!Flush
<1> QED BY <1>1, <1>2

LEMMA RelayInductive == RelayInv /\ TypeOK' /\ Flags' /\ [MissionNext]_missionVars => RelayInv'
<1> SUFFICES ASSUME RelayInv, TypeOK', Flags', [MissionNext]_missionVars PROVE RelayInv'
  OBVIOUS
<1>0. /\ status' \in NavStatus /\ "NONE" \notin NavStatus
      /\ nav_status_new \in BOOLEAN /\ listening \in BOOLEAN /\ status \in NavStatus
      /\ overheld \in BOOLEAN /\ overheld' \in BOOLEAN
      /\ pending_nav_status \in NavStatus \cup {"NONE"}
  BY StatusesRelayed DEF RelayInv, TypeOK, Flags
<1>1. CASE \/ FrontendRequest \/ BackendReceives \/ BackendRestarts \/ BackendReconciles
           \/ ConnectionBreaks \/ Nav2Moves \/ UNCHANGED missionVars
  <2>1. /\ UNCHANGED <<nav_status_new, overheld, last_nav_status, pending_nav_status>>
        /\ listening' \in BOOLEAN
    BY <1>0, <1>1 DEF FrontendRequest, BackendReceives, BackendRestarts, BackendReconciles,
                ConnectionBreaks, Nav2Moves,
                Service!Request, Service!StartMove, Service!CancelMove, Service!CancelOrphan,
                Service!StartFollow, Service!PauseFollow, Service!StopFollow,
                Service!StopOrphan, Service!Publish, Service!ApplyNavResult, Service!Restart,
                Service!Reconcile, Bridge!Disconnect, Bridge!relayVars, missionVars, relayVars,
                topicVars, tagVars, historyVars
  <2>2. UNCHANGED status
    BY <1>1 DEF FrontendRequest, BackendReceives, BackendRestarts, BackendReconciles,
                ConnectionBreaks, Nav2Moves, missionVars, clientVars, handleVars
  <2> QED BY <1>0, <2>1, <2>2 DEF RelayInv, Relayed
<1>2. CASE BridgeStep
  <2>1. UNCHANGED status
    BY <1>2 DEF BridgeStep, clientVars, handleVars
  <2>2. CASE (Bridge!Connect \/ Bridge!OnMqttMessage) /\ UNCHANGED <<told, held, overheld>>
    <3>1. /\ UNCHANGED <<nav_status_new, overheld, last_nav_status, pending_nav_status>>
          /\ listening' \in BOOLEAN
      BY <1>0, <2>2 DEF Bridge!Connect, Bridge!OnMqttMessage, Bridge!relayVars
    <3> QED BY <1>0, <2>1, <3>1 DEF RelayInv, Relayed
  <2>3. CASE NavStatusTaken
    <3>1. nav_status_new' = FALSE /\ UNCHANGED listening
      BY <2>3 DEF NavStatusTaken, Bridge!OnNavStatus
    <3>2. CASE status = last_nav_status
      <4>1. UNCHANGED <<last_nav_status, pending_nav_status>>
        BY <2>3, <3>2 DEF NavStatusTaken, Bridge!OnNavStatus
      <4>2. overheld' = (pending_nav_status # "NONE")
        BY <2>3, <3>2 DEF NavStatusTaken
      <4> QED BY <1>0, <2>1, <3>1, <3>2, <4>1, <4>2 DEF RelayInv, Relayed
    <3>3. CASE status # last_nav_status
      <4>1. Bridge!Flush(status)
        BY <2>3, <3>3 DEF NavStatusTaken, Bridge!OnNavStatus
      <4>2. /\ pending_nav_status' = IF listening THEN "NONE" ELSE status
            /\ last_nav_status' = IF listening THEN status ELSE last_nav_status
        BY <1>0, <3>1, <4>1, FlushRelays
      <4> QED BY <1>0, <2>1, <3>1, <4>2 DEF RelayInv, Relayed
    <3> QED BY <3>2, <3>3
  <2>4. CASE QueueDrained
    <3>1. /\ UNCHANGED <<nav_status_new, listening, overheld>>
          /\ Bridge!Flush(pending_nav_status)
      BY <2>4 DEF QueueDrained, Bridge!DrainCmdQueue
    <3>2. /\ pending_nav_status' = IF listening THEN "NONE" ELSE pending_nav_status
          /\ last_nav_status' = IF listening /\ pending_nav_status # "NONE"
                                THEN pending_nav_status ELSE last_nav_status
      BY <1>0, <3>1, FlushRelays
    <3> QED BY <1>0, <2>1, <3>1, <3>2 DEF RelayInv, Relayed
  <2> QED BY <1>2, <2>2, <2>3, <2>4 DEF BridgeStep
<1>3. CASE Delivery \/ ForwarderStep
  <2>1. /\ UNCHANGED <<overheld, listening, last_nav_status, pending_nav_status>>
        /\ nav_status_new' = (nav_status_new \/ status' # status)
    BY <1>3 DEF Delivery, PoseDelivered, CancelDelivered, FollowModeDelivered, ForwarderStep,
                Others, StatusPublished, relayVars
  <2>2. nav_status_new' \in BOOLEAN /\ (~nav_status_new' => ~nav_status_new /\ status' = status)
    BY <1>0, <2>1
  <2> QED BY <1>0, <2>1, <2>2 DEF RelayInv, Relayed
<1> QED BY <1>1, <1>2, <1>3 DEF MissionNext

\* Once nothing is under way, the backend was told last what the status of the cart is,
\* however often the connection breaks: comparing with what was published last and holding
\* one status until there is a connection loses none, unless the cart returned meanwhile to
\* the status published last (mqtt_bridge.py, _on_nav_status, _flush_pending_nav_status).
THEOREM StatusRelayed == MissionSpec => []StatusReachesBackend
<1>1. MissionInit => MissionTypeOK /\ RelayInv
  <2> SUFFICES ASSUME MissionInit PROVE RelayInv
    BY MissionTypeInit
  <2>1. status = "IDLE" /\ pending_nav_status = "NONE" /\ overheld = FALSE
    BY DEF MissionInit, Init, Bridge!BridgeInit
  <2>2. nav_status_new /\ nav_status_new \in BOOLEAN /\ listening \in BOOLEAN
    BY DEF MissionInit, Bridge!BridgeInit
  <2> QED BY <2>1, <2>2 DEF RelayInv, Relayed, NavStatus
<1>2. MissionTypeOK /\ RelayInv /\ [MissionNext]_missionVars => (MissionTypeOK /\ RelayInv)'
  BY RelayInductive, MissionTypeStep, MissionTyped
<1>3. RelayInv => StatusReachesBackend
  BY DEF RelayInv, Relayed, StatusReachesBackend, Settled
<1> QED BY <1>1, <1>2, <1>3, PTL DEF MissionSpec

-----------------------------------------------------------------------------
(* Where a move can be: on its way to the forwarder, or a goal of Nav2. *)

Carries(s, n) == \E i \in DOMAIN s : s[i] = MoveCommand(n)

MoveUnderWay(n) ==
    Carries(cmd_topic, n) \/ Carries(cmd_queue, n) \/ Carries(target_poses, n)

\* The goal of navigation n has no response yet, or the cart drives to it.
GoalWaits(n) == \E g \in Goals : Waiting(requests, "GOAL", g) /\ asked_by[g] = n
GoalOpen(n)  == GoalWaits(n) \/ (running # None /\ asked_by[running] = n)

\* Navigation n can still drive the cart.
DriveOpen(n) == MoveUnderWay(n) \/ GoalOpen(n)

PosesAreMoves == \A i \in DOMAIN target_poses : target_poses[i].command = "MOVE"

\* What was numbered so far: sessions, and goals that were sent.
Fresh == /\ session <= navigations /\ \A n \in cancelled : n <= navigations
         /\ \A g \in Goals : /\ asked_by[g] <= navigations
                             /\ g > sent => asked_by[g] = NoNavigation

\* Every move is in one place, once, and not yet a goal.
Once(s) == \A i, j \in DOMAIN s :
    s[i] = s[j] /\ s[i].command = "MOVE" => i = j

Lined ==
    /\ Once(cmd_topic) /\ Once(cmd_queue) /\ Once(target_poses)
    /\ \A n \in Navigations :
         /\ ~(Carries(cmd_topic, n) /\ Carries(cmd_queue, n))
         /\ ~(Carries(cmd_topic, n) /\ Carries(target_poses, n))
         /\ ~(Carries(cmd_queue, n) /\ Carries(target_poses, n))
         /\ MoveUnderWay(n) => n <= navigations /\ \A g \in Goals : asked_by[g] # n

GoalsOnce == \A g, h \in Goals :
    asked_by[g] = asked_by[h] /\ asked_by[g] # NoNavigation => g = h

\* The backend knows of it, has cancelled it, lost it in a restart, or ended it because
\* of another.
Known == \A n \in Navigations :
    DriveOpen(n) => n \in {session} \cup cancelled \cup forgotten \cup misled

\* What was started and can no longer drive the cart.
Over == {n \in Navigations : n <= navigations /\ ~DriveOpen(n)}

\* A status that ends a session is about a drive that is over.
EndIsOver(s, n) == s \in Service!Terminal /\ n # NoNavigation => n \in Over

EndsOver ==
    /\ EndIsOver(status, about) /\ EndIsOver(pending_nav_status, held)
    /\ \A i \in DOMAIN result_topic : EndIsOver(result_topic[i], told[i])

\* What is answered is over, but for the goal that was accepted.
Past ==
    \A k \in DOMAIN replies : replies[k].says # "ACCEPTED" =>
        running = None \/ replies[k].goal < running

\* Without a server no goal waits for a response.
Gone == server = "GONE" => \A g \in Goals : ~Waiting(requests, "GOAL", g)

-----------------------------------------------------------------------------
(* What a step does to goals and answers. *)

\* The goal that runs afterwards ran or waited; a goal that waits waited, or was sent; an
\* answer was there, or is of a goal that waited or ran.
Traced ==
    /\ running' # None => running' = running \/ Waiting(requests, "GOAL", running')
    /\ \A g : Waiting(requests', "GOAL", g) =>
         Waiting(requests, "GOAL", g) \/ (g = sent' /\ sent' = sent + 1)
    /\ \A k \in DOMAIN replies' : \/ \E j \in DOMAIN replies : replies'[k] = replies[j]
                                  \/ Waiting(requests, "GOAL", replies'[k].goal)
                                  \/ running # None /\ replies'[k].goal = running
    /\ sent' = sent \/ sent' = sent + 1

Followed == Traced /\ Past' /\ Gone'

ForwarderInv == DriveInv /\ Past /\ Gone

LEMMA ForwardFollowed ==
    ASSUME ForwarderInv, Forward
    PROVE  Followed
<1>1. /\ UNCHANGED <<running, replies, server>> /\ TypeOK
  BY DEF Forward, DriveInv, ForwarderInv
<1>2. CASE server_is_ready
  <2>1. /\ sent' = sent + 1 /\ requests' = Append(requests, SendGoal(sent'))
        /\ SendGoal(sent').kind = "GOAL" /\ SendGoal(sent').goal = sent'
    BY <1>2 DEF Forward, SendGoal
  <2>2. SendGoal(sent') \in Request
    <3>1. sent' \in Goals
      BY <1>1, <1>2, GoalNumbers DEF Forward, Goals, TypeOK
    <3> QED BY <3>1, MessageTypes
  <2>3. /\ DOMAIN requests' = 1 .. Len(requests) + 1
        /\ \A i \in 1 .. Len(requests) : requests'[i] = requests[i]
        /\ requests'[Len(requests) + 1] = SendGoal(sent')
    BY <1>1, <2>1, <2>2, Typed, Appended
  <2>4. \A g : Waiting(requests', "GOAL", g) =>
          Waiting(requests, "GOAL", g) \/ (g = sent' /\ sent' = sent + 1)
    BY <1>1, <2>1, <2>3, Typed DEF Waiting
  <2>5. Traced
    BY <1>1, <2>1, <2>4 DEF Traced
  <2>6. server' # "GONE"
    BY <1>1, <1>2 DEF server_is_ready
  <2> QED BY <1>1, <2>5, <2>6 DEF Followed, Past, Gone, ForwarderInv
<1>3. CASE ~server_is_ready
  <2>1. UNCHANGED <<requests, sent>>
    BY <1>3 DEF Forward
  <2> QED BY <1>1, <2>1 DEF Followed, Traced, Past, Gone, ForwarderInv
<1> QED BY <1>2, <1>3

\* Requests that only lose the oldest or get a cancel, and replies that only lose the oldest.
LEMMA LessFollowed ==
    ASSUME ForwarderInv, UNCHANGED <<running, sent, server>>,
           \A g : Waiting(requests', "GOAL", g) => Waiting(requests, "GOAL", g),
           \A k \in DOMAIN replies' : \E j \in DOMAIN replies : replies'[k] = replies[j]
    PROVE  Followed
BY DEF Followed, Traced, Past, Gone, ForwarderInv

LEMMA CancelGoalIsNoGoal ==
    ASSUME TypeOK, NEW h \in Goals,
           requests' = requests \/ requests' = Append(requests, CancelGoal(h))
    PROVE  \A g : Waiting(requests', "GOAL", g) => Waiting(requests, "GOAL", g)
<1>1. CASE requests' = requests
  BY <1>1 DEF Waiting
<1>2. CASE requests' = Append(requests, CancelGoal(h))
  BY <1>2, CancelAppended DEF Waiting
<1> QED BY <1>1, <1>2

LEMMA ClientFollowed ==
    ASSUME ForwarderInv, Subscriptions \/ Callbacks \/ IntervalPasses
    PROVE  Followed
<1>1. TypeOK /\ DriveInv
  BY DEF ForwarderInv, DriveInv
<1>2. CASE Forward
  BY <1>2, ForwardFollowed
<1>3. CASE CancelDrive
  <2>1. UNCHANGED <<running, sent, server, replies>>
    BY <1>3 DEF CancelDrive
  <2>2. \A g : Waiting(requests', "GOAL", g) => Waiting(requests, "GOAL", g)
    <3>1. CASE active # None /\ status = "NAVIGATING"
      <4>1. active \in Goals /\ requests' = Append(requests, CancelGoal(active))
        BY <1>1, <1>3, <3>1 DEF TypeOK, CancelDrive
      <4> QED BY <1>1, <4>1, CancelGoalIsNoGoal
    <3>2. CASE ~(active # None /\ status = "NAVIGATING")
      <4>1. requests' = requests
        BY <1>3, <3>2 DEF CancelDrive
      <4> QED BY <4>1 DEF Waiting
    <3> QED BY <3>1, <3>2
  <2> QED BY <2>1, <2>2, LessFollowed
<1>4. CASE FollowStart \/ IntervalPasses \/ CheckServer
  <2>1. UNCHANGED <<running, sent, server, replies, requests>>
    BY <1>4 DEF FollowStart, IntervalPasses, CheckServer, nav2Vars
  <2> QED BY <2>1, LessFollowed DEF Waiting
<1>5. CASE GoalAccepted
  <2>1. /\ NextReply("RESPONSE") /\ active' = Head(replies).goal
        /\ requests' = requests \/ requests' = Append(requests, CancelGoal(active'))
    BY <1>5 DEF GoalAccepted
  <2>2. active' \in Goals
    BY <1>1, <2>1, ReplyTaken
  <2>3. \A g : Waiting(requests', "GOAL", g) => Waiting(requests, "GOAL", g)
    BY <1>1, <2>1, <2>2, CancelGoalIsNoGoal
  <2> QED BY <1>1, <2>1, <2>3, ReplyTaken, LessFollowed
<1>6. CASE GoalRejected \/ GoalResult
  <2>1. (NextReply("RESPONSE") \/ NextReply("RESULT")) /\ requests' = requests
    BY <1>6 DEF GoalRejected, GoalResult
  <2> QED BY <1>1, <2>1, ReplyTaken, LessFollowed DEF Waiting
<1>7. Subscriptions => Forward \/ CancelDrive \/ FollowStart
  BY DEF Subscriptions, TargetPose, TargetPoint, Cancel, FollowStop
<1> QED BY <1>2, <1>3, <1>4, <1>5, <1>6, <1>7 DEF Callbacks

\* A goal is taken from the requests.
LEMMA TakenWaited ==
    ASSUME DriveInv, NEW kind, Next_Request(kind)
    PROVE  /\ \A g : Waiting(requests', "GOAL", g) => Waiting(requests, "GOAL", g)
           /\ kind = "GOAL" => Waiting(requests, "GOAL", Head(requests).goal)
                                 /\ Head(requests).goal \in Goals
           /\ UNCHANGED server /\ server_is_ready
BY RequestTaken DEF Waiting

LEMMA NewerThanAnswers ==
    ASSUME DriveInv, NEW g, Waiting(requests, "GOAL", g)
    PROVE  /\ running < g /\ g <= sent /\ g \in Nat
           /\ \A k \in DOMAIN replies : replies[k].goal < g
BY Typed DEF DriveInv, Numbered, Waiting, IsGoal

\* The result of the goal that ends is the only new answer.
LEMMA EndedTraced ==
    ASSUME DriveInv, NEW out \in Outcomes, replies' = replies \o Ended(out)
    PROVE  \A k \in DOMAIN replies' : \/ \E j \in DOMAIN replies : replies'[k] = replies[j]
                                      \/ running # None /\ replies'[k].goal = running
<1>1. CASE running = None
  <2>1. replies' = replies
    BY <1>1, Typed, Appended DEF Ended, DriveInv
  <2> QED BY <2>1
<1>2. CASE running # None
  <2>1. Result(running, out) \in ReplyMsg /\ Result(running, out).goal = running
    BY <1>2, MessageTypes DEF DriveInv, TypeOK, Nav2TypeOK, Result
  <2>2. replies' = Append(replies, Result(running, out))
    BY <1>2, <2>1, Typed, Appended DEF Ended, DriveInv
  <2>3. /\ DOMAIN replies' = 1 .. Len(replies) + 1 /\ DOMAIN replies = 1 .. Len(replies)
        /\ \A k \in 1 .. Len(replies) : replies'[k] = replies[k]
        /\ replies'[Len(replies) + 1] = Result(running, out) /\ Len(replies) \in Nat
    BY <2>1, <2>2, Typed, Appended DEF DriveInv
  <2>4. \A k \in DOMAIN replies' : k \in DOMAIN replies \/ k = Len(replies) + 1
    BY <2>3
  <2> QED BY <1>2, <2>1, <2>3, <2>4
<1> QED BY <1>1, <1>2

\* The goal that ran ends, and no goal comes.
LEMMA EndFollowed ==
    ASSUME ForwarderInv, running' = None, UNCHANGED sent, NEW out \in Outcomes,
           replies' = replies \o Ended(out),
           \A g : Waiting(requests', "GOAL", g) => Waiting(requests, "GOAL", g),
           UNCHANGED server \/ server' # "GONE"
    PROVE  Followed
<1>1. Traced
  BY EndedTraced DEF Traced, ForwarderInv
<1> QED BY <1>1 DEF Followed, Past, Gone, ForwarderInv

LEMMA AcceptFollowed ==
    ASSUME ForwarderInv, Accept, UNCHANGED clientVars
    PROVE  Followed
<1> DEFINE g == Head(requests).goal
           r == Append(replies, Response(g, "ACCEPTED"))
<1>1. /\ Next_Request("GOAL") /\ running' = g /\ UNCHANGED sent /\ DriveInv /\ TypeOK
      /\ replies' = r \o Ended("ABORTED")
  BY DEF Accept, clientVars, ForwarderInv, DriveInv
<1>2. /\ \A h : Waiting(requests', "GOAL", h) => Waiting(requests, "GOAL", h)
      /\ Waiting(requests, "GOAL", g) /\ g \in Goals
      /\ UNCHANGED server /\ server_is_ready
  BY <1>1, TakenWaited
<1>3. /\ Response(g, "ACCEPTED") \in ReplyMsg /\ Response(g, "ACCEPTED").goal = g
      /\ Response(g, "ACCEPTED").says = "ACCEPTED"
  BY <1>2, MessageTypes DEF Answers, Response
<1>4. /\ r \in Seq(ReplyMsg) /\ DOMAIN r = 1 .. Len(replies) + 1 /\ Len(r) = Len(replies) + 1
      /\ DOMAIN replies = 1 .. Len(replies) /\ Len(replies) \in Nat
      /\ \A k \in 1 .. Len(replies) : r[k] = replies[k]
      /\ r[Len(replies) + 1] = Response(g, "ACCEPTED")
  BY <1>1, <1>3, Typed, Appended
<1> HIDE DEF r
<1>5. \A k \in DOMAIN r : (k \in DOMAIN replies /\ r[k] = replies[k])
                              \/ r[k] = Response(g, "ACCEPTED")
  BY <1>4
<1>6. \A k \in DOMAIN replies' : (k \in DOMAIN r /\ replies'[k] = r[k])
                                   \/ (running # None /\ replies'[k].goal = running)
  <2>1. CASE running = None
    <3>1. replies' = r
      BY <1>1, <1>3, <1>4, <2>1, Appended DEF Ended
    <3> QED BY <3>1
  <2>2. CASE running # None
    <3>1. Result(running, "ABORTED") \in ReplyMsg /\ Result(running, "ABORTED").goal = running
      BY <1>1, <2>2, MessageTypes DEF TypeOK, Nav2TypeOK, Result, Outcomes
    <3>2. replies' = Append(r, Result(running, "ABORTED"))
      BY <1>1, <1>4, <2>2, <3>1, Appended DEF Ended
    <3>3. /\ DOMAIN replies' = 1 .. Len(r) + 1 /\ DOMAIN r = 1 .. Len(r) /\ Len(r) \in Nat
          /\ \A k \in 1 .. Len(r) : replies'[k] = r[k]
          /\ replies'[Len(r) + 1] = Result(running, "ABORTED")
      BY <1>4, <3>1, <3>2, Appended
    <3>4. \A k \in DOMAIN replies' : k \in DOMAIN r \/ k = Len(r) + 1
      BY <3>3
    <3> QED BY <2>2, <3>1, <3>3, <3>4
  <2> QED BY <2>1, <2>2
<1>7. \A k \in DOMAIN replies' : \/ k \in DOMAIN replies /\ replies'[k] = replies[k]
                                 \/ replies'[k] = Response(g, "ACCEPTED")
                                 \/ running # None /\ replies'[k].goal = running
  BY <1>5, <1>6
<1>8. Traced
  BY <1>1, <1>2, <1>3, <1>7 DEF Traced
<1>9. Past'
  <2>1. \A k \in DOMAIN replies : replies[k].goal < g
    BY <1>1, <1>2, NewerThanAnswers
  <2>2. running < g
    BY <1>1, <1>2, NewerThanAnswers
  <2> QED BY <1>1, <1>3, <1>7, <2>1, <2>2 DEF Past
<1>10. Gone'
  BY <1>2 DEF Gone, server_is_ready
<1> QED BY <1>8, <1>9, <1>10 DEF Followed

LEMMA RejectFollowed ==
    ASSUME ForwarderInv, Reject, UNCHANGED clientVars
    PROVE  Followed
<1> DEFINE g == Head(requests).goal
<1>1. /\ Next_Request("GOAL") /\ running = None /\ running' = None /\ UNCHANGED sent /\ DriveInv
      /\ TypeOK /\ replies' = Append(replies, Response(g, "REJECTED"))
  BY DEF Reject, clientVars, ForwarderInv, DriveInv, Reported
<1>2. /\ \A h : Waiting(requests', "GOAL", h) => Waiting(requests, "GOAL", h)
      /\ Waiting(requests, "GOAL", g) /\ g \in Goals
      /\ UNCHANGED server /\ server_is_ready
  BY <1>1, TakenWaited
<1>3. /\ Response(g, "REJECTED") \in ReplyMsg /\ Response(g, "REJECTED").goal = g
  BY <1>2, MessageTypes DEF Answers, Response
<1>4. /\ DOMAIN replies' = 1 .. Len(replies) + 1 /\ DOMAIN replies = 1 .. Len(replies)
      /\ \A k \in 1 .. Len(replies) : replies'[k] = replies[k]
      /\ replies'[Len(replies) + 1] = Response(g, "REJECTED") /\ Len(replies) \in Nat
  BY <1>1, <1>3, Typed, Appended
<1>5. \A k \in DOMAIN replies' : k \in DOMAIN replies \/ k = Len(replies) + 1
  BY <1>4
<1>6. Traced
  BY <1>1, <1>2, <1>3, <1>4, <1>5 DEF Traced
<1>7. Past' /\ Gone'
  BY <1>1, <1>2 DEF Past, Gone, server_is_ready
<1> QED BY <1>6, <1>7 DEF Followed

LEMMA Nav2Followed ==
    ASSUME ForwarderInv, Nav2Step, UNCHANGED clientVars
    PROVE  Followed
<1>1. DriveInv /\ UNCHANGED sent
  BY DEF ForwarderInv, clientVars
<1>2. CASE Accept \/ Reject
  BY <1>2, AcceptFollowed, RejectFollowed
<1>3. CASE HandleCancel
  <2>1. /\ \A g : Waiting(requests', "GOAL", g) => Waiting(requests, "GOAL", g)
        /\ UNCHANGED server
    BY <1>1, <1>3, TakenWaited DEF HandleCancel
  <2>2. CASE running' = None /\ replies' = replies \o Ended("CANCELED")
    BY <1>1, <2>1, <2>2, EndFollowed DEF Outcomes
  <2>3. CASE UNCHANGED <<running, replies>>
    BY <1>1, <2>1, <2>3, LessFollowed
  <2> QED BY <1>3, <2>2, <2>3 DEF HandleCancel
<1>4. ASSUME NEW out \in {"SUCCEEDED", "ABORTED"}, Finish(out) PROVE Followed
  <2>1. /\ running' = None /\ replies' = replies \o Ended(out) /\ UNCHANGED <<server, requests>>
        /\ out \in Outcomes
    BY <1>4 DEF Finish, Outcomes
  <2>2. \A g : Waiting(requests', "GOAL", g) => Waiting(requests, "GOAL", g)
    BY <2>1
  <2> QED BY <1>1, <2>1, <2>2, EndFollowed
<1>5. CASE Deactivate
  <2>1. /\ running' = None /\ replies' = replies \o Ended("ABORTED") /\ UNCHANGED requests
        /\ server' # "GONE" /\ "ABORTED" \in Outcomes
    BY <1>5 DEF Deactivate, Outcomes
  <2>2. \A g : Waiting(requests', "GOAL", g) => Waiting(requests, "GOAL", g)
    BY <2>1
  <2> QED BY <1>1, <2>1, <2>2, EndFollowed
<1>6. CASE Activate \/ Start
  <2>1. UNCHANGED <<running, requests, replies>> /\ server' # "GONE"
    BY <1>6 DEF Activate, Start
  <2> QED BY <1>1, <2>1 DEF Followed, Traced, Past, Gone, ForwarderInv
<1>7. CASE Crash
  <2>1. running' = None /\ requests' = << >> /\ replies' = << >>
    BY <1>7 DEF Crash
  <2>2. \A g : ~Waiting(requests', "GOAL", g)
    BY <2>1 DEF Waiting
  <2>3. DOMAIN replies' = {}
    BY <2>1
  <2> QED BY <1>1, <2>1, <2>2, <2>3 DEF Followed, Traced, Past, Gone
<1> QED BY <1>2, <1>3, <1>4, <1>5, <1>6, <1>7 DEF Nav2Step, Answer, Lifecycle

LEMMA StepFollowed == ForwarderInv /\ [Step]_vars => Followed /\ ForwarderInv'
<1> SUFFICES ASSUME ForwarderInv, [Step]_vars PROVE Followed /\ ForwarderInv'
  OBVIOUS
<1>1. DriveInv'
  BY DriveStep DEF ForwarderInv
<1>2. CASE UNCHANGED vars
  <2>1. UNCHANGED <<running, sent, server, replies, requests>>
    BY <1>2 DEF vars, nav2Vars, clientVars
  <2>2. Followed
    BY <2>1, LessFollowed DEF Waiting
  <2> QED BY <1>1, <2>2 DEF Followed, ForwarderInv
<1>3. CASE Step
  <2>1. Followed
    BY <1>3, ClientFollowed, Nav2Followed DEF Step
  <2> QED BY <1>1, <2>1 DEF Followed, ForwarderInv
<1> QED BY <1>2, <1>3

-----------------------------------------------------------------------------
(* How commands travel. *)

CourseInv ==
    MissionTypeOK /\ ForwarderInv /\ Fresh /\ PosesAreMoves /\ Lined /\ GoalsOnce

LEMMA CommandKinds ==
    /\ \A n : MoveCommand(n).command = "MOVE" /\ CancelCommand(n).command = "CANCEL"
                /\ MoveCommand(n).requestId = n
    /\ \A a \in FollowActions : FollowCommand(a).command \notin {"MOVE", "CANCEL"}
    /\ \A c \in Command : c.command = "MOVE" =>
         c.requestId \in Navigations /\ c = MoveCommand(c.requestId)
    /\ \A c \in Command : c.command \in FollowActions => c.command \notin {"MOVE", "CANCEL"}
    /\ \A c \in Command : c.command \in {"MOVE", "CANCEL"} \cup FollowActions
BY DEF MoveCommand, CancelCommand, FollowCommand, Command, FollowActions

LEMMA CourseTyped ==
    ASSUME MissionTypeOK
    PROVE  /\ TypeOK /\ ServiceTypes /\ RelayTypes /\ HistoryTypes /\ TagTypes /\ Flags
           /\ sent \in Nat /\ running \in Goals \cup {None} /\ Goals \subseteq Nat \ {0}
           /\ Navigations \subseteq Nat \ {0} /\ NoNavigation = 0 /\ None = 0
           /\ session \in Nat /\ navigations \in Nat /\ cancelled \subseteq Nat
           /\ \A g \in Goals : asked_by[g] \in Nat
<1>1. TypeOK /\ ServiceTypes /\ RelayTypes /\ HistoryTypes /\ TagTypes /\ Flags
  BY MissionTyped
<1>2. sent \in Nat /\ running \in Goals \cup {None} /\ Goals \subseteq Nat \ {0} /\ None = 0
  BY <1>1, Typed, GoalNumbers DEF TypeOK, Nav2TypeOK
<1>3. Navigations \subseteq Nat \ {0} /\ NoNavigation = 0
  BY NavigationNumbers
<1>4. session \in Nat /\ navigations \in Nat /\ cancelled \subseteq Nat
  <2>1. session \in Nat /\ navigations \in Nat
    BY <1>1, <1>3, NavigationNumbers DEF ServiceTypes
  <2>2. cancelled \subseteq Navigations
    BY <1>1 DEF HistoryTypes
  <2> QED BY <1>3, <2>1, <2>2
<1>5. \A g \in Goals : asked_by[g] \in Nat
  <2> SUFFICES ASSUME NEW g \in Goals PROVE asked_by[g] \in Nat
    OBVIOUS
  <2>1. asked_by[g] \in Tags
    BY <1>1 DEF HistoryTypes
  <2>2. \A n \in Navigations \cup {NoNavigation} : n \in Nat
    <3>1. \A n \in Navigations : n \in Nat
      BY <1>3
    <3>2. NoNavigation \in Nat
      BY <1>3
    <3> QED BY <3>1, <3>2
  <2> QED BY <2>1, <2>2 DEF Tags
<1> QED BY <1>1, <1>2, <1>3, <1>4, <1>5

\* A sequence of commands that gets one more, and one that loses the first.
LEMMA Added ==
    ASSUME NEW s \in Seq(Command), NEW c \in Command, NEW t, t = Append(s, c)
    PROVE  /\ t \in Seq(Command) /\ Len(s) \in Nat
           /\ DOMAIN s = 1 .. Len(s) /\ DOMAIN t = 1 .. Len(s) + 1
           /\ \A i \in 1 .. Len(s) : t[i] = s[i]
           /\ t[Len(s) + 1] = c
           /\ \A i \in DOMAIN t : i \in DOMAIN s \/ i = Len(s) + 1
OBVIOUS

LEMMA Taken ==
    ASSUME NEW s \in Seq(Command), s # << >>
    PROVE  /\ Tail(s) \in Seq(Command) /\ Len(s) \in Nat \ {0}
           /\ DOMAIN s = 1 .. Len(s) /\ DOMAIN Tail(s) = 1 .. Len(s) - 1
           /\ \A i \in 1 .. Len(s) - 1 : Tail(s)[i] = s[i + 1]
           /\ 1 \in DOMAIN s /\ Head(s) = s[1] /\ Head(s) \in Command
<1>1. Len(s) \in Nat \ {0}
  OBVIOUS
<1>2. Tail(s) \in Seq(Command) /\ Len(Tail(s)) = Len(s) - 1
  OBVIOUS
<1> QED BY <1>1, <1>2

LEMMA MoveAdded ==
    ASSUME NEW s \in Seq(Command), NEW c \in Command, NEW t, t = Append(s, c)
    PROVE  /\ \A n : Carries(t, n) <=> Carries(s, n) \/ c = MoveCommand(n)
           /\ Once(s) /\ (\A n \in Navigations : c = MoveCommand(n) => ~Carries(s, n)) => Once(t)
<1>1. ASSUME NEW n PROVE Carries(t, n) <=> Carries(s, n) \/ c = MoveCommand(n)
  BY Added DEF Carries
<1>2. ASSUME Once(s), \A n \in Navigations : c = MoveCommand(n) => ~Carries(s, n)
      PROVE  Once(t)
  <2>1. ASSUME c.command = "MOVE" PROVE \A i \in DOMAIN s : s[i] # c
    <3>1. c.requestId \in Navigations /\ c = MoveCommand(c.requestId)
      BY <2>1, CommandKinds
    <3> QED BY <1>2, <3>1 DEF Carries
  <2> SUFFICES ASSUME NEW i \in DOMAIN t, NEW j \in DOMAIN t, t[i] = t[j], t[i].command = "MOVE"
               PROVE  i = j
    BY DEF Once
  <2>2. CASE i \in DOMAIN s /\ j \in DOMAIN s
    BY <1>2, <2>2, Added DEF Once
  <2>3. CASE i = Len(s) + 1 /\ j = Len(s) + 1
    BY <2>3
  <2>4. CASE i \in DOMAIN s /\ j = Len(s) + 1
    BY <2>1, <2>4, Added
  <2>5. CASE j \in DOMAIN s /\ i = Len(s) + 1
    BY <2>1, <2>5, Added
  <2> QED BY <2>2, <2>3, <2>4, <2>5, Added
<1> QED BY <1>1, <1>2

LEMMA MoveTaken ==
    ASSUME NEW s \in Seq(Command), s # << >>
    PROVE  /\ \A n : Carries(Tail(s), n) => Carries(s, n)
           /\ \A n : Head(s) = MoveCommand(n) => Carries(s, n)
           /\ Once(s) => Once(Tail(s)) /\ \A n : Head(s) = MoveCommand(n) => ~Carries(Tail(s), n)
<1>1. \A i \in DOMAIN Tail(s) : i + 1 \in DOMAIN s /\ Tail(s)[i] = s[i + 1] /\ i \in Nat \ {0}
  BY Taken
<1>2. \A n : Carries(Tail(s), n) => Carries(s, n)
  BY <1>1 DEF Carries
<1>3. \A n : Head(s) = MoveCommand(n) => Carries(s, n)
  BY Taken DEF Carries
<1>4. ASSUME Once(s) PROVE Once(Tail(s))
  <2> SUFFICES ASSUME NEW i \in DOMAIN Tail(s), NEW j \in DOMAIN Tail(s),
                      Tail(s)[i] = Tail(s)[j], Tail(s)[i].command = "MOVE"
               PROVE  i = j
    BY DEF Once
  <2>1. i + 1 = j + 1
    BY <1>1, <1>4 DEF Once
  <2> QED BY <1>1, <2>1
<1>5. ASSUME Once(s), NEW n, Head(s) = MoveCommand(n), Carries(Tail(s), n) PROVE FALSE
  <2>1. PICK i \in DOMAIN Tail(s) : Tail(s)[i] = MoveCommand(n)
    BY <1>5 DEF Carries
  <2>2. s[i + 1] = s[1] /\ s[1].command = "MOVE"
    BY <1>1, <1>5, <2>1, Taken, CommandKinds
  <2>3. i + 1 = 1
    BY <1>1, <1>5, <2>2, Taken DEF Once
  <2> QED BY <1>1, <2>3
<1> QED BY <1>2, <1>3, <1>4, <1>5

\* A command of the queue goes to its topic.
PassedOn == /\ cmd_queue # << >> /\ cmd_queue' = Tail(cmd_queue) /\ UNCHANGED cmd_topic
            /\ Bridge!Forwarded(Head(cmd_queue))

\* A request publishes a command, or has none to publish.
Requested(c) == /\ c \in Command /\ UNCHANGED <<cmd_queue, target_poses, cancels>>
                /\ cmd_topic' = IF listening THEN Append(cmd_topic, c) ELSE cmd_topic

LEMMA OtherSteps ==
    ASSUME [MissionNext]_missionVars, ~FrontendRequest, ~ConnectionBreaks, ~Bridge!OnMqttMessage,
           ~PassedOn, ~PoseDelivered, ~CancelDelivered
    PROVE  UNCHANGED <<cmd_topic, cmd_queue, target_poses, cancels>>
<1>1. CASE BackendReceives \/ BackendRestarts \/ BackendReconciles
  BY <1>1 DEF BackendReceives, BackendRestarts, BackendReconciles, Service!ApplyNavResult,
              Service!Restart, Service!Reconcile, topicVars
<1>2. CASE BridgeStep
  <2>1. CASE Bridge!Connect \/ Bridge!OnNavStatus
    BY <2>1 DEF Bridge!Connect, Bridge!OnNavStatus, Bridge!topicVars
  <2>2. CASE Bridge!DrainCmdQueue
    BY <2>2 DEF Bridge!DrainCmdQueue, Bridge!topicVars, PassedOn
  <2> QED BY <1>2, <2>1, <2>2 DEF BridgeStep, NavStatusTaken, QueueDrained
<1>3. CASE FollowModeDelivered \/ ForwarderStep
  BY <1>3 DEF FollowModeDelivered, ForwarderStep, Others, relayVars, mqttVars
<1>4. CASE Nav2Moves \/ UNCHANGED missionVars
  BY <1>4 DEF Nav2Moves, missionVars, relayVars, mqttVars, topicVars
<1> QED BY <1>1, <1>2, <1>3, <1>4 DEF MissionNext, Delivery

\* What a request does.
LEMMA RequestMade ==
    ASSUME FrontendRequest, ServiceTypes
    PROVE  /\ UNCHANGED <<cmd_queue, target_poses, cancels, forgotten, misled, asked_by, overtaken>>
           /\ UNCHANGED <<vars, pending_nav_status, result_topic, told, held, about>>
           /\ lost' = (lost \/ ~listening)
           /\ \/ /\ session = NoNavigation /\ session' = navigations + 1 /\ UNCHANGED cancelled
                 /\ navigations' = navigations + 1 /\ session' \in Navigations
                 /\ Requested(MoveCommand(session'))
              \/ /\ session \in Navigations /\ session' = NoNavigation
                 /\ cancelled' = cancelled \cup {session} /\ UNCHANGED navigations
                 /\ Requested(CancelCommand(session))
              \/ /\ UNCHANGED <<session, cancelled, navigations>>
                 /\ \/ UNCHANGED cmd_topic
                    \/ \E a \in FollowActions : Requested(FollowCommand(a))
<1> USE SameCommands
<1>1. /\ UNCHANGED <<cmd_queue, target_poses, cancels, forgotten, misled, asked_by, overtaken>>
      /\ UNCHANGED <<vars, pending_nav_status, told, held, about>>
      /\ lost' = (lost \/ ~listening) /\ Service!Request
      /\ cancelled' = cancelled \cup IF session' = NoNavigation THEN {session} \ {NoNavigation}
                                     ELSE {}
  BY DEF FrontendRequest, topicVars, tagVars, vars
<1>2. NoNavigation \notin Navigations
  BY NavigationNumbers
<1>3. CASE Service!StartMove
  <2>1. /\ session = NoNavigation /\ session' = navigations + 1 /\ navigations' = navigations + 1
        /\ UNCHANGED result_topic /\ navigations < MaxMoves
    BY <1>3 DEF Service!StartMove, Service!Publish
  <2>2. session' \in Navigations
    BY <2>1, NavigationNumbers DEF ServiceTypes, Navigations
  <2>3. UNCHANGED cancelled
    BY <1>1, <1>2, <2>1, <2>2
  <2>4. Requested(MoveCommand(session'))
    BY <1>1, <1>3, <2>2, CommandTypes DEF Service!StartMove, Service!Publish, Requested
  <2> QED BY <1>1, <2>1, <2>2, <2>3, <2>4
<1>4. CASE Service!CancelMove
  <2>1. /\ session \in Navigations /\ session' = NoNavigation /\ UNCHANGED <<navigations, result_topic>>
    BY <1>4 DEF Service!CancelMove, Service!Publish, ServiceTypes
  <2>2. cancelled' = cancelled \cup {session}
    BY <1>1, <1>2, <2>1
  <2>3. Requested(CancelCommand(session))
    BY <1>1, <1>4, <2>1, CommandTypes DEF Service!CancelMove, Service!Publish, Requested
  <2> QED BY <1>1, <2>1, <2>2, <2>3
<1>5. CASE Service!CancelOrphan \/ Service!StopOrphan
  <2>1. UNCHANGED <<session, navigations, result_topic, cmd_topic>>
    BY <1>5 DEF Service!CancelOrphan, Service!StopOrphan
  <2>2. UNCHANGED cancelled
    BY <1>1, <2>1
  <2> QED BY <1>1, <2>1, <2>2
<1>6. CASE Service!StartFollow \/ Service!PauseFollow \/ Service!StopFollow
  <2>1. /\ UNCHANGED <<session, navigations, result_topic>>
        /\ \E a \in FollowActions : Service!Publish(FollowCommand(a))
    BY <1>6 DEF Service!StartFollow, Service!PauseFollow, Service!StopFollow, Service!Publish,
                FollowActions
  <2>2. UNCHANGED cancelled
    BY <1>1, <2>1
  <2>3. \E a \in FollowActions : Requested(FollowCommand(a))
    BY <1>1, <2>1, CommandTypes DEF Service!Publish, Requested
  <2> QED BY <1>1, <2>1, <2>2, <2>3
<1> QED BY <1>1, <1>3, <1>4, <1>5, <1>6 DEF Service!Request

LEMMA PosesStep == CourseInv /\ [MissionNext]_missionVars => PosesAreMoves'
<1> SUFFICES ASSUME CourseInv, [MissionNext]_missionVars PROVE PosesAreMoves'
  OBVIOUS
<1>1. RelayTypes /\ ServiceTypes /\ PosesAreMoves
  BY CourseTyped DEF CourseInv
<1>2. CASE UNCHANGED target_poses
  BY <1>1, <1>2 DEF PosesAreMoves
<1>3. CASE PassedOn
  <2>1. Head(cmd_queue) \in Command
    BY <1>1, <1>3, Taken DEF PassedOn, RelayTypes
  <2>2. CASE Head(cmd_queue).command # "MOVE"
    <3>1. target_poses' = target_poses
      BY <1>3, <2>2 DEF PassedOn, Bridge!Forwarded
    <3> QED BY <1>2, <3>1
  <2>3. CASE Head(cmd_queue).command = "MOVE"
    <3>1. target_poses' = Append(target_poses, Head(cmd_queue))
      BY <1>3, <2>3 DEF PassedOn, Bridge!Forwarded
    <3> QED BY <1>1, <2>1, <2>3, <3>1, Added DEF PosesAreMoves, RelayTypes
  <2> QED BY <2>2, <2>3
<1>4. CASE PoseDelivered
  <2>1. target_poses # << >> /\ target_poses' = Tail(target_poses)
    BY <1>4 DEF PoseDelivered
  <2>2. \A i \in DOMAIN Tail(target_poses) : /\ i + 1 \in DOMAIN target_poses
                                             /\ Tail(target_poses)[i] = target_poses[i + 1]
    BY <1>1, <2>1, Taken DEF RelayTypes
  <2> QED BY <1>1, <2>1, <2>2 DEF PosesAreMoves
<1>5. CASE FrontendRequest
  BY <1>1, <1>2, <1>5, RequestMade
<1>6. CASE ConnectionBreaks \/ Bridge!OnMqttMessage
  BY <1>2, <1>6 DEF ConnectionBreaks, Bridge!Disconnect, Bridge!OnMqttMessage, Bridge!topicVars
<1>7. CASE CancelDelivered
  BY <1>2, <1>7 DEF CancelDelivered
<1> QED BY <1>2, <1>3, <1>4, <1>5, <1>6, <1>7, OtherSteps

\* What a delivered move asks for.
LEMMA PoseTaken ==
    ASSUME CourseInv, PoseDelivered
    PROVE  \E n \in Navigations :
             /\ Head(target_poses) = MoveCommand(n) /\ Head(target_poses).requestId = n
             /\ MoveUnderWay(n) /\ target_poses # << >> /\ target_poses' = Tail(target_poses)
             /\ \/ sent' = sent /\ UNCHANGED asked_by
                \/ /\ sent' = sent + 1 /\ sent' \in Goals
                   /\ asked_by' = [asked_by EXCEPT ![sent'] = n]
<1>1. RelayTypes /\ PosesAreMoves /\ TypeOK /\ sent \in Nat
  BY CourseTyped DEF CourseInv
<1>2. target_poses # << >> /\ target_poses' = Tail(target_poses) /\ Forward
  BY DEF PoseDelivered, TargetPose
<1>3. Head(target_poses) \in Command /\ Head(target_poses).command = "MOVE"
  BY <1>1, <1>2, Taken DEF RelayTypes, PosesAreMoves
<1>4. PICK n \in Navigations : Head(target_poses) = MoveCommand(n)
  BY <1>3, CommandKinds
<1>5. Head(target_poses).requestId = n
  BY <1>4, CommandKinds
<1>6. MoveUnderWay(n)
  BY <1>1, <1>2, <1>4, MoveTaken DEF MoveUnderWay, RelayTypes
<1>7. CASE sent' = sent
  BY <1>2, <1>4, <1>5, <1>6, <1>7 DEF PoseDelivered
<1>8. CASE sent' # sent
  <2>1. sent' = sent + 1 /\ sent < MaxGoals
    BY <1>2, <1>8 DEF Forward
  <2>2. sent' \in Goals
    BY <1>1, <2>1, GoalNumbers DEF Goals
  <2>3. asked_by' = [asked_by EXCEPT ![sent'] = n]
    BY <1>5, <1>8 DEF PoseDelivered
  <2> QED BY <1>2, <1>4, <1>5, <1>6, <2>1, <2>2, <2>3
<1> QED BY <1>7, <1>8

LEMMA CancelsMoveNothing ==
    ASSUME CancelDelivered
    PROVE  UNCHANGED <<cmd_topic, cmd_queue, target_poses>>
BY DEF CancelDelivered, Others, mqttVars, relayVars

LEMMA AskedOnce ==
    ASSUME [MissionNext]_missionVars, ~PoseDelivered
    PROVE  UNCHANGED asked_by
BY DEF MissionNext, FrontendRequest, BackendReceives, BackendRestarts, BackendReconciles,
       ConnectionBreaks, BridgeStep, Delivery, CancelDelivered, FollowModeDelivered,
       ForwarderStep, Nav2Moves, missionVars, historyVars

\* What ends a session, but for the frontend.
LEMMA SessionStep ==
    ASSUME MissionTypeOK, [MissionNext]_missionVars, ~FrontendRequest
    PROVE  /\ UNCHANGED <<navigations, cancelled>>
           /\ \/ UNCHANGED <<session, forgotten, misled>>
              \/ /\ session' = NoNavigation /\ UNCHANGED forgotten
                 /\ 1 \in DOMAIN result_topic /\ result_topic[1] \in Service!Terminal
                 /\ told[1] = session \/ session = NoNavigation \/ session \in misled'
                 /\ misled \subseteq misled'
              \/ /\ session' = NoNavigation /\ UNCHANGED misled
                 /\ forgotten' = forgotten \cup ({session} \ {NoNavigation})
<1>1. CASE BackendReceives
  <2>1. /\ UNCHANGED <<navigations, cancelled, forgotten>> /\ result_topic # << >>
        /\ \/ UNCHANGED session
           \/ session' = NoNavigation /\ Head(result_topic) \in Service!Terminal
        /\ misled' = misled \cup IF session' = session THEN {} ELSE {session} \ {Head(told)}
    BY <1>1, SameCommands DEF BackendReceives, Service!ApplyNavResult
  <2>2. RelayTypes /\ TagTypes
    BY CourseTyped
  <2>3. 1 \in DOMAIN result_topic /\ result_topic[1] = Head(result_topic)
    BY <2>1, <2>2 DEF RelayTypes
  <2>4. told[1] = Head(told)
    OBVIOUS
  <2> QED BY <2>1, <2>3, <2>4
<1>2. CASE BackendRestarts
  BY <1>2, SameCommands DEF BackendRestarts, Service!Restart
<1>3. CASE BackendReconciles \/ ConnectionBreaks \/ BridgeStep \/ Delivery \/ ForwarderStep
             \/ Nav2Moves \/ UNCHANGED missionVars
  BY <1>3 DEF BackendReconciles, Service!Reconcile, ConnectionBreaks, BridgeStep, Delivery,
              PoseDelivered, CancelDelivered, FollowModeDelivered, ForwarderStep, Nav2Moves,
              Others, missionVars, historyVars, courseVars, serviceVars
<1> QED BY <1>1, <1>2, <1>3 DEF MissionNext

LEMMA FreshStep == CourseInv /\ [MissionNext]_missionVars => Fresh'
<1> SUFFICES ASSUME CourseInv, [MissionNext]_missionVars PROVE Fresh'
  OBVIOUS
<1>1. /\ ServiceTypes /\ Fresh /\ HistoryTypes
      /\ session \in Nat /\ navigations \in Nat /\ sent \in Nat /\ Goals \subseteq Nat
      /\ NoNavigation = 0 /\ \A g \in Goals : asked_by[g] \in Nat
      /\ MissionTypeOK /\ cancelled \subseteq Nat
  BY CourseTyped DEF CourseInv
<1>2. CASE FrontendRequest
  <2>1. UNCHANGED <<asked_by, sent>>
    BY <1>1, <1>2, RequestMade DEF vars, clientVars
  <2>2. CASE /\ session = NoNavigation /\ session' = navigations + 1 /\ UNCHANGED cancelled
             /\ navigations' = navigations + 1
    <3>1. session' <= navigations' /\ \A k \in Nat : k <= navigations => k <= navigations'
      BY <1>1, <2>2
    <3>2. \A n \in cancelled' : n <= navigations'
      BY <1>1, <2>2, <3>1 DEF Fresh
    <3> QED BY <1>1, <2>1, <3>1, <3>2 DEF Fresh
  <2>3. CASE /\ session' = NoNavigation /\ cancelled' = cancelled \cup {session}
             /\ UNCHANGED navigations
    BY <1>1, <2>1, <2>3 DEF Fresh
  <2>4. CASE UNCHANGED <<session, cancelled, navigations>>
    BY <1>1, <2>1, <2>4 DEF Fresh
  <2> QED BY <1>1, <1>2, <2>2, <2>3, <2>4, RequestMade
<1>3. CASE ~FrontendRequest
  <2>1. UNCHANGED <<navigations, cancelled>> /\ (session' = session \/ session' = NoNavigation)
    BY <1>1, <1>3, SessionStep
  <2>2. session' <= navigations' /\ \A n \in cancelled' : n <= navigations'
    BY <1>1, <2>1 DEF Fresh
  <2>3. (sent' = sent \/ sent' = sent + 1) /\ sent' \in Nat
    BY <1>1, MissionStep, StepFollowed DEF CourseInv, Followed, Traced
  <2>4. \A g \in Goals : g > sent' => g > sent
    BY <1>1, <2>3
  <2>5. CASE UNCHANGED asked_by
    BY <1>1, <2>1, <2>2, <2>4, <2>5 DEF Fresh
  <2>6. CASE PoseDelivered /\ ~UNCHANGED asked_by
    <3>1. PICK n \in Navigations : /\ sent' \in Goals /\ n <= navigations
                                   /\ asked_by' = [asked_by EXCEPT ![sent'] = n]
      BY <2>6, PoseTaken DEF CourseInv, Lined
    <3>2. \A g \in Goals : asked_by'[g] = IF g = sent' THEN n ELSE asked_by[g]
      BY <1>1, <3>1 DEF HistoryTypes
    <3>3. \A g \in Goals : asked_by'[g] <= navigations'
      BY <1>1, <2>1, <3>1, <3>2 DEF Fresh
    <3>4. \A g \in Goals : g > sent' => g # sent'
      BY <1>1, <2>3
    <3>5. \A g \in Goals : g > sent' => asked_by'[g] = NoNavigation
      BY <1>1, <2>4, <3>2, <3>4 DEF Fresh
    <3> QED BY <2>2, <3>3, <3>5 DEF Fresh
  <2> QED BY <2>5, <2>6, AskedOnce
<1> QED BY <1>2, <1>3

\* The first of s goes to the end of t, and is nowhere else.
HandedOver(s, t) ==
    LET r == Append(t, Head(s)) IN
    /\ Once(Tail(s)) /\ Once(r)
    /\ \A n \in Navigations : ~(Carries(Tail(s), n) /\ Carries(r, n))
    /\ \A n \in Navigations : Carries(Tail(s), n) \/ Carries(r, n)
                               => Carries(s, n) \/ Carries(t, n)

LEMMA MoveHanded ==
    ASSUME NEW s \in Seq(Command), NEW t \in Seq(Command), s # << >>, Once(s), Once(t),
           \A n \in Navigations : ~(Carries(s, n) /\ Carries(t, n))
    PROVE  HandedOver(s, t)
<1> DEFINE r == Append(t, Head(s))
<1>1. Head(s) \in Command
  BY Taken
<1>2. /\ \A n : Carries(Tail(s), n) => Carries(s, n)
      /\ \A n : Head(s) = MoveCommand(n) => Carries(s, n) /\ ~Carries(Tail(s), n)
      /\ Once(Tail(s))
  BY MoveTaken
<1>3. /\ \A n : Carries(r, n) <=> Carries(t, n) \/ Head(s) = MoveCommand(n)
      /\ (\A n \in Navigations : Head(s) = MoveCommand(n) => ~Carries(t, n)) => Once(r)
  BY <1>1, MoveAdded
<1> HIDE DEF r
<1>4. /\ Once(Tail(s)) /\ Once(r)
      /\ \A n \in Navigations : ~(Carries(Tail(s), n) /\ Carries(r, n))
      /\ \A n \in Navigations : Carries(Tail(s), n) \/ Carries(r, n)
                                 => Carries(s, n) \/ Carries(t, n)
  BY <1>2, <1>3
<1> QED BY <1>4 DEF HandedOver, r

\* A move that is under way was before, or is new.
Travels == \A n \in Navigations :
    MoveUnderWay(n)' => \/ MoveUnderWay(n)
                        \/ n = session' /\ n = navigations' /\ n = navigations + 1

\* Moves that are under way were, or are new; and those that became goals are not.
LEMMA StillLined ==
    ASSUME MissionTypeOK, Lined, navigations' = navigations \/ navigations' = navigations + 1,
           Once(cmd_topic'), Once(cmd_queue'), Once(target_poses'),
           \A n \in Navigations : /\ ~(Carries(cmd_topic', n) /\ Carries(cmd_queue', n))
                                  /\ ~(Carries(cmd_topic', n) /\ Carries(target_poses', n))
                                  /\ ~(Carries(cmd_queue', n) /\ Carries(target_poses', n)),
           \A n \in Navigations : MoveUnderWay(n)' =>
              \/ MoveUnderWay(n) /\ UNCHANGED asked_by
              \/ n = session' /\ n = navigations' /\ n = navigations + 1 /\ UNCHANGED asked_by /\ Fresh
    PROVE  Lined' /\ Travels
<1>0. Travels
  BY DEF Travels
<1> SUFFICES ASSUME NEW n \in Navigations, MoveUnderWay(n)'
             PROVE  n <= navigations' /\ \A g \in Goals : asked_by'[g] # n
  BY <1>0 DEF Lined
<1>1. /\ navigations \in Nat /\ n \in Nat /\ \A g \in Goals : asked_by[g] \in Nat
  BY CourseTyped
<1>2. CASE MoveUnderWay(n) /\ UNCHANGED asked_by
  <2>1. n <= navigations
    BY <1>2 DEF Lined
  <2>2. n <= navigations'
    BY <1>1, <2>1
  <2> QED BY <1>2, <2>2 DEF Lined
<1>3. CASE n = session' /\ n = navigations' /\ n = navigations + 1 /\ UNCHANGED asked_by /\ Fresh
  <2>1. \A g \in Goals : asked_by[g] <= navigations
    BY <1>3 DEF Fresh
  <2> QED BY <1>1, <1>3, <2>1
<1> QED BY <1>2, <1>3

LEMMA LinedStep == CourseInv /\ [MissionNext]_missionVars => Lined' /\ Travels
<1> SUFFICES ASSUME CourseInv, [MissionNext]_missionVars PROVE Lined' /\ Travels
  OBVIOUS
<1>1. /\ RelayTypes /\ ServiceTypes /\ Lined /\ MissionTypeOK /\ Fresh /\ navigations \in Nat
      /\ \A g \in Goals : asked_by[g] \in Nat
  BY CourseTyped DEF CourseInv
<1>2. ~FrontendRequest => UNCHANGED navigations
  BY <1>1, SessionStep
<1>3. CASE UNCHANGED <<cmd_topic, cmd_queue, target_poses, asked_by>> /\ ~FrontendRequest
  <2>1. \A n : MoveUnderWay(n)' <=> MoveUnderWay(n)
    BY <1>3 DEF MoveUnderWay, Carries
  <2>2. Travels
    BY <2>1 DEF Travels
  <2> QED BY <1>1, <1>2, <1>3, <2>1, <2>2 DEF Lined, Once, Carries
<1>4. CASE FrontendRequest
  <2>1. UNCHANGED <<cmd_queue, target_poses, asked_by>>
    BY <1>1, <1>4, RequestMade
  <2>2. CASE UNCHANGED <<cmd_topic, navigations>>
    <3>1. \A n : MoveUnderWay(n)' <=> MoveUnderWay(n)
      BY <2>1, <2>2 DEF MoveUnderWay, Carries
    <3>2. Travels
      BY <3>1 DEF Travels
    <3> QED BY <1>1, <2>1, <2>2, <3>1, <3>2 DEF Lined, Once, Carries
  <2>3. ASSUME NEW c \in Command, cmd_topic' = Append(cmd_topic, c),
               navigations' = navigations \/ navigations' = navigations + 1,
               \A n \in Navigations : c = MoveCommand(n) => n = session' /\ n = navigations' /\ n = navigations + 1
        PROVE  Lined' /\ Travels
    <3>1. \A n \in Navigations : n = navigations + 1 => ~MoveUnderWay(n)
      <4> SUFFICES ASSUME NEW n \in Navigations, n = navigations + 1, MoveUnderWay(n) PROVE FALSE
        OBVIOUS
      <4>1. n <= navigations
        BY <1>1 DEF Lined
      <4> QED BY <1>1, <4>1
    <3>2. \A n : Carries(cmd_topic', n) <=> Carries(cmd_topic, n) \/ c = MoveCommand(n)
      BY <1>1, <2>3, MoveAdded DEF RelayTypes
    <3>3. \A n \in Navigations : c = MoveCommand(n) => ~MoveUnderWay(n)
      BY <2>3, <3>1
    <3>4. Once(cmd_topic')
      BY <1>1, <2>3, <3>3, MoveAdded DEF RelayTypes, MoveUnderWay, Lined
    <3>5. \A n : MoveUnderWay(n)' <=> MoveUnderWay(n) \/ c = MoveCommand(n)
      BY <2>1, <3>2 DEF MoveUnderWay, Carries
    <3>6. \A n : /\ Carries(cmd_queue', n) <=> Carries(cmd_queue, n)
                 /\ Carries(target_poses', n) <=> Carries(target_poses, n)
      BY <2>1
    <3>7. Once(cmd_queue') /\ Once(target_poses')
      BY <1>1, <2>1 DEF Lined
    <3>8. \A n \in Navigations : /\ ~(Carries(cmd_topic', n) /\ Carries(cmd_queue', n))
                                 /\ ~(Carries(cmd_topic', n) /\ Carries(target_poses', n))
                                 /\ ~(Carries(cmd_queue', n) /\ Carries(target_poses', n))
      BY <1>1, <3>2, <3>3, <3>6 DEF Lined, MoveUnderWay
    <3>9. \A n \in Navigations : MoveUnderWay(n)' =>
              \/ MoveUnderWay(n) /\ UNCHANGED asked_by
              \/ n = session' /\ n = navigations' /\ n = navigations + 1 /\ UNCHANGED asked_by /\ Fresh
      BY <1>1, <2>1, <2>3, <3>5
    <3> QED BY <1>1, <2>3, <3>4, <3>7, <3>8, <3>9, StillLined
  <2>4. ASSUME NEW c \in Command, Requested(c),
               navigations' = navigations \/ navigations' = navigations + 1,
               \A n \in Navigations : c = MoveCommand(n) => n = session' /\ n = navigations' /\ n = navigations + 1
        PROVE  Lined' /\ Travels
    <3>1. CASE listening
      BY <2>3, <2>4, <3>1 DEF Requested
    <3>2. CASE ~listening
      <4>1. UNCHANGED cmd_topic
        BY <2>4, <3>2 DEF Requested
      <4>2. \A n : MoveUnderWay(n)' <=> MoveUnderWay(n)
        BY <2>1, <4>1 DEF MoveUnderWay, Carries
      <4>3. \A n \in Navigations : MoveUnderWay(n)' => MoveUnderWay(n) /\ UNCHANGED asked_by
        BY <2>1, <4>2
      <4>4. /\ Once(cmd_topic') /\ Once(cmd_queue') /\ Once(target_poses')
            /\ \A n \in Navigations : /\ ~(Carries(cmd_topic', n) /\ Carries(cmd_queue', n))
                                      /\ ~(Carries(cmd_topic', n) /\ Carries(target_poses', n))
                                      /\ ~(Carries(cmd_queue', n) /\ Carries(target_poses', n))
        BY <1>1, <2>1, <4>1 DEF Lined
      <4> QED BY <1>1, <2>4, <4>3, <4>4, StillLined
    <3> QED BY <3>1, <3>2
  <2>5. CASE /\ session' = navigations + 1 /\ navigations' = navigations + 1
             /\ session' \in Navigations /\ Requested(MoveCommand(session'))
    <3>1. MoveCommand(session') \in Command
      BY <2>5, CommandTypes
    <3>2. \A n : MoveCommand(session') = MoveCommand(n) => n = session'
      BY CommandKinds
    <3>3. \A n \in Navigations : MoveCommand(session') = MoveCommand(n)
                                     => n = session' /\ n = navigations' /\ n = navigations + 1
      BY <2>5, <3>2
    <3> QED BY <2>4, <2>5, <3>1, <3>3
  <2>6. CASE /\ session \in Navigations /\ UNCHANGED navigations /\ Requested(CancelCommand(session))
    <3>1. /\ CancelCommand(session) \in Command
          /\ \A n : CancelCommand(session) # MoveCommand(n)
      BY <2>6, CommandTypes, CommandKinds
    <3> QED BY <2>4, <2>6, <3>1
  <2>7. ASSUME NEW a \in FollowActions, Requested(FollowCommand(a)), UNCHANGED navigations
        PROVE  Lined' /\ Travels
    <3>1. FollowCommand(a) \in Command /\ \A n : FollowCommand(a) # MoveCommand(n)
      BY CommandTypes, CommandKinds
    <3> QED BY <2>4, <2>7, <3>1
  <2> QED BY <1>1, <1>4, <2>2, <2>5, <2>6, <2>7, RequestMade
<1>5. CASE ConnectionBreaks
  <2>1. cmd_topic' = << >> /\ UNCHANGED <<cmd_queue, target_poses, asked_by, navigations>>
    BY <1>5 DEF ConnectionBreaks, Bridge!Disconnect, Bridge!topicVars, serviceVars
  <2>2. Once(cmd_topic') /\ \A n : ~Carries(cmd_topic', n)
    BY <2>1 DEF Once, Carries
  <2>3. /\ Once(cmd_queue') /\ Once(target_poses')
        /\ \A n : /\ Carries(cmd_queue', n) <=> Carries(cmd_queue, n)
                  /\ Carries(target_poses', n) <=> Carries(target_poses, n)
    BY <1>1, <2>1 DEF Lined
  <2>4. \A n \in Navigations : MoveUnderWay(n)' => MoveUnderWay(n) /\ UNCHANGED asked_by
    BY <2>1, <2>2, <2>3 DEF MoveUnderWay, Carries
  <2>5. \A n \in Navigations : ~(Carries(cmd_queue', n) /\ Carries(target_poses', n))
    BY <1>1, <2>3 DEF Lined
  <2> QED BY <1>1, <2>1, <2>2, <2>3, <2>4, <2>5, StillLined
<1>6. CASE Bridge!OnMqttMessage /\ ~FrontendRequest /\ ~PoseDelivered
  <2>1. /\ cmd_topic # << >> /\ cmd_topic' = Tail(cmd_topic) /\ UNCHANGED target_poses
        /\ cmd_queue' = Append(cmd_queue, Head(cmd_topic)) /\ UNCHANGED <<asked_by, navigations>>
    BY <1>2, <1>6, AskedOnce DEF Bridge!OnMqttMessage, Bridge!topicVars
  <2>2. /\ Once(Tail(cmd_topic)) /\ Once(cmd_queue')
        /\ \A n \in Navigations : ~(Carries(Tail(cmd_topic), n) /\ Carries(cmd_queue', n))
        /\ \A n \in Navigations : Carries(Tail(cmd_topic), n) \/ Carries(cmd_queue', n)
                                    => Carries(cmd_topic, n) \/ Carries(cmd_queue, n)
    <3>1. /\ Once(cmd_topic) /\ Once(cmd_queue)
          /\ \A n \in Navigations : ~(Carries(cmd_topic, n) /\ Carries(cmd_queue, n))
      BY <1>1 DEF Lined
    <3>2. cmd_topic \in Seq(Command) /\ cmd_queue \in Seq(Command)
      BY <1>1 DEF RelayTypes
    <3>3. HandedOver(cmd_topic, cmd_queue)
      BY <2>1, <3>1, <3>2, MoveHanded
    <3> QED BY <2>1, <3>3 DEF HandedOver
  <2>3. /\ Once(cmd_topic') /\ Once(target_poses')
        /\ \A n : /\ Carries(cmd_topic', n) <=> Carries(Tail(cmd_topic), n)
                  /\ Carries(target_poses', n) <=> Carries(target_poses, n)
    BY <1>1, <2>1, <2>2 DEF Lined
  <2>4. \A n \in Navigations : MoveUnderWay(n)' => MoveUnderWay(n) /\ UNCHANGED asked_by
    BY <2>1, <2>2, <2>3 DEF MoveUnderWay, Carries
  <2>5. \A n \in Navigations : /\ ~(Carries(cmd_topic', n) /\ Carries(cmd_queue', n))
                               /\ ~(Carries(cmd_topic', n) /\ Carries(target_poses', n))
                               /\ ~(Carries(cmd_queue', n) /\ Carries(target_poses', n))
    BY <1>1, <2>2, <2>3 DEF Lined
  <2> QED BY <1>1, <2>1, <2>2, <2>3, <2>4, <2>5, StillLined
<1>7. CASE PassedOn /\ ~FrontendRequest /\ ~PoseDelivered
  <2>1. /\ cmd_queue # << >> /\ cmd_queue' = Tail(cmd_queue) /\ UNCHANGED <<cmd_topic, asked_by>>
        /\ UNCHANGED navigations /\ Head(cmd_queue) \in Command
    BY <1>1, <1>2, <1>7, AskedOnce, Taken DEF PassedOn, RelayTypes
  <2>2. CASE Head(cmd_queue).command = "MOVE"
    <3>1. target_poses' = Append(target_poses, Head(cmd_queue))
      BY <1>7, <2>2 DEF PassedOn, Bridge!Forwarded
    <3>2. /\ Once(Tail(cmd_queue)) /\ Once(target_poses')
          /\ \A n \in Navigations : ~(Carries(Tail(cmd_queue), n) /\ Carries(target_poses', n))
          /\ \A n \in Navigations : Carries(Tail(cmd_queue), n) \/ Carries(target_poses', n)
                                      => Carries(cmd_queue, n) \/ Carries(target_poses, n)
      <4>1. /\ Once(cmd_queue) /\ Once(target_poses)
            /\ \A n \in Navigations : ~(Carries(cmd_queue, n) /\ Carries(target_poses, n))
        BY <1>1 DEF Lined
      <4>2. cmd_queue \in Seq(Command) /\ target_poses \in Seq(Command)
        BY <1>1 DEF RelayTypes
      <4>3. HandedOver(cmd_queue, target_poses)
        BY <2>1, <4>1, <4>2, MoveHanded
      <4> QED BY <3>1, <4>3 DEF HandedOver
    <3>3. /\ Once(cmd_queue') /\ Once(cmd_topic')
          /\ \A n : /\ Carries(cmd_queue', n) <=> Carries(Tail(cmd_queue), n)
                    /\ Carries(cmd_topic', n) <=> Carries(cmd_topic, n)
      BY <1>1, <2>1, <3>2 DEF Lined
    <3>4. \A n \in Navigations : MoveUnderWay(n)' => MoveUnderWay(n) /\ UNCHANGED asked_by
      BY <2>1, <3>2, <3>3 DEF MoveUnderWay, Carries
    <3>5. \A n \in Navigations : /\ ~(Carries(cmd_topic', n) /\ Carries(cmd_queue', n))
                                 /\ ~(Carries(cmd_topic', n) /\ Carries(target_poses', n))
                                 /\ ~(Carries(cmd_queue', n) /\ Carries(target_poses', n))
      BY <1>1, <3>2, <3>3 DEF Lined
    <3> QED BY <1>1, <2>1, <3>2, <3>3, <3>4, <3>5, StillLined
  <2>3. CASE Head(cmd_queue).command # "MOVE"
    <3>1. UNCHANGED target_poses
      BY <1>7, <2>3 DEF PassedOn, Bridge!Forwarded
    <3>2. Once(Tail(cmd_queue)) /\ \A n : Carries(Tail(cmd_queue), n) => Carries(cmd_queue, n)
      BY <1>1, <2>1, MoveTaken DEF RelayTypes, Lined
    <3>3. /\ Once(cmd_queue') /\ Once(cmd_topic') /\ Once(target_poses')
          /\ \A n : /\ Carries(cmd_queue', n) => Carries(cmd_queue, n)
                    /\ Carries(cmd_topic', n) <=> Carries(cmd_topic, n)
                    /\ Carries(target_poses', n) <=> Carries(target_poses, n)
      BY <1>1, <2>1, <3>1, <3>2 DEF Lined
    <3>4. \A n \in Navigations : MoveUnderWay(n)' => MoveUnderWay(n) /\ UNCHANGED asked_by
      BY <2>1, <3>3 DEF MoveUnderWay, Carries
    <3>5. \A n \in Navigations : /\ ~(Carries(cmd_topic', n) /\ Carries(cmd_queue', n))
                                 /\ ~(Carries(cmd_topic', n) /\ Carries(target_poses', n))
                                 /\ ~(Carries(cmd_queue', n) /\ Carries(target_poses', n))
      BY <1>1, <3>3 DEF Lined
    <3> QED BY <1>1, <2>1, <3>3, <3>4, <3>5, StillLined
  <2> QED BY <2>2, <2>3
<1>8. CASE PoseDelivered
  <2>1. UNCHANGED <<cmd_topic, cmd_queue, navigations>>
    BY <1>8 DEF PoseDelivered, Others, mqttVars, relayVars, serviceVars
  <2>2. PICK n \in Navigations :
          /\ Head(target_poses) = MoveCommand(n) /\ MoveUnderWay(n)
          /\ target_poses # << >> /\ target_poses' = Tail(target_poses)
          /\ UNCHANGED asked_by \/ asked_by' = [asked_by EXCEPT ![sent'] = n]
    BY <1>8, PoseTaken
  <2>3. /\ Once(Tail(target_poses)) /\ Carries(target_poses, n) /\ ~Carries(Tail(target_poses), n)
        /\ \A m : Carries(Tail(target_poses), m) => Carries(target_poses, m)
    BY <1>1, <2>2, MoveTaken DEF RelayTypes, Lined
  <2>4. ~MoveUnderWay(n)' /\ \A m \in Navigations : MoveUnderWay(m)' => MoveUnderWay(m)
    <3>1. ~Carries(cmd_topic, n) /\ ~Carries(cmd_queue, n)
      BY <1>1, <2>3 DEF Lined
    <3> QED BY <2>1, <2>2, <2>3, <3>1 DEF MoveUnderWay, Carries
  <2>5. \A m \in Navigations : MoveUnderWay(m)' => \A g \in Goals : asked_by'[g] # m
    <3> SUFFICES ASSUME NEW m \in Navigations, MoveUnderWay(m)', NEW g \in Goals
                 PROVE  asked_by'[g] # m
      OBVIOUS
    <3>1. m # n /\ asked_by[g] # m
      BY <1>1, <2>4 DEF Lined
    <3>2. asked_by'[g] = asked_by[g] \/ asked_by'[g] = n
      <4>1. asked_by \in [Goals -> Tags]
        BY <1>1, CourseTyped DEF HistoryTypes
      <4> QED BY <2>2, <4>1
    <3> QED BY <3>1, <3>2
  <2>6. \A m \in Navigations : MoveUnderWay(m)' => m <= navigations'
    BY <1>1, <2>1, <2>4 DEF Lined
  <2>7. /\ Once(cmd_topic') /\ Once(cmd_queue') /\ Once(target_poses')
        /\ \A m : /\ Carries(cmd_topic', m) <=> Carries(cmd_topic, m)
                  /\ Carries(cmd_queue', m) <=> Carries(cmd_queue, m)
                  /\ Carries(target_poses', m) => Carries(target_poses, m)
    BY <1>1, <2>1, <2>2, <2>3 DEF Lined
  <2>8. \A m \in Navigations : /\ ~(Carries(cmd_topic', m) /\ Carries(cmd_queue', m))
                               /\ ~(Carries(cmd_topic', m) /\ Carries(target_poses', m))
                               /\ ~(Carries(cmd_queue', m) /\ Carries(target_poses', m))
    BY <1>1, <2>7 DEF Lined
  <2>9. Travels
    BY <2>4 DEF Travels
  <2> QED BY <2>5, <2>6, <2>7, <2>8, <2>9 DEF Lined
<1> QED BY <1>3, <1>4, <1>5, <1>6, <1>7, <1>8, OtherSteps, AskedOnce, CancelsMoveNothing

LEMMA GoalsOnceStep == CourseInv /\ [MissionNext]_missionVars => GoalsOnce'
<1> SUFFICES ASSUME CourseInv, [MissionNext]_missionVars PROVE GoalsOnce'
  OBVIOUS
<1>1. GoalsOnce /\ Lined /\ asked_by \in [Goals -> Tags]
  BY CourseTyped DEF CourseInv, HistoryTypes
<1>2. CASE UNCHANGED asked_by
  BY <1>1, <1>2 DEF GoalsOnce
<1>3. CASE PoseDelivered /\ ~UNCHANGED asked_by
  <2>1. PICK n \in Navigations : /\ MoveUnderWay(n) /\ sent' \in Goals
                                 /\ asked_by' = [asked_by EXCEPT ![sent'] = n]
    BY <1>3, PoseTaken
  <2>2. \A g \in Goals : asked_by[g] # n
    BY <1>1, <2>1 DEF Lined
  <2>3. \A g \in Goals : asked_by'[g] = IF g = sent' THEN n ELSE asked_by[g]
    BY <1>1, <2>1
  <2> QED BY <1>1, <2>2, <2>3 DEF GoalsOnce
<1> QED BY <1>2, <1>3, AskedOnce

LEMMA CourseStep == CourseInv /\ [MissionNext]_missionVars => CourseInv'
<1> SUFFICES ASSUME CourseInv, [MissionNext]_missionVars PROVE CourseInv'
  OBVIOUS
<1>1. MissionTypeOK' /\ ForwarderInv'
  BY MissionTypeStep, MissionStep, StepFollowed DEF CourseInv
<1> QED BY <1>1, FreshStep, PosesStep, LinedStep, GoalsOnceStep DEF CourseInv

LEMMA CourseInit == MissionInit => CourseInv
<1> SUFFICES ASSUME MissionInit PROVE CourseInv
  OBVIOUS
<1>1. /\ cmd_topic = << >> /\ cmd_queue = << >> /\ target_poses = << >>
      /\ session = NoNavigation /\ navigations = 0 /\ cancelled = {}
      /\ asked_by = [g \in Goals |-> NoNavigation] /\ NoNavigation = 0
  BY SameCommands DEF MissionInit, Service!ServiceInit, Bridge!BridgeInit, NoNavigation
<1>2. running = None /\ requests = << >> /\ replies = << >>
  BY DEF MissionInit, Init, Nav2Init
<1>3. ForwarderInv
  BY <1>2, DriveInit DEF MissionInit, ForwarderInv, Past, Gone, Waiting
<1>4. Fresh /\ GoalsOnce /\ PosesAreMoves
  BY <1>1 DEF Fresh, GoalsOnce, PosesAreMoves
<1>5. Lined
  BY <1>1 DEF Lined, Once, MoveUnderWay, Carries
<1> QED BY <1>3, <1>4, <1>5, MissionTypeInit DEF CourseInv

-----------------------------------------------------------------------------
(* The drives the backend knows of. *)

\* No drive opens but that of a new navigation.
LEMMA Opens ==
    ASSUME CourseInv, [MissionNext]_missionVars, NEW n \in Navigations, DriveOpen(n)'
    PROVE  DriveOpen(n) \/ (n = session' /\ n = navigations' /\ n = navigations + 1)
<1>1. CASE MoveUnderWay(n)'
  BY <1>1, LinedStep DEF Travels, DriveOpen
<1>2. CASE GoalOpen(n)'
  <2>1. Traced /\ TypeOK' /\ TypeOK /\ sent \in Nat /\ Fresh
    BY MissionStep, StepFollowed, CourseTyped, CourseStep DEF CourseInv, Followed, ForwarderInv, DriveInv
  <2>2. PICK g \in Goals : /\ asked_by'[g] = n
                           /\ Waiting(requests', "GOAL", g) \/ (running' = g /\ running' # None)
    BY <1>2, <2>1 DEF GoalOpen, GoalWaits, TypeOK, Nav2TypeOK
  <2>3. \/ Waiting(requests, "GOAL", g) \/ (running = g /\ running # None)
        \/ g = sent' /\ sent' = sent + 1
    BY <2>1, <2>2 DEF Traced
  <2>4. CASE asked_by[g] = n
    <3>1. n # NoNavigation
      BY NavigationNumbers
    <3>2. ~(g > sent)
      BY <2>1, <2>4, <3>1 DEF Fresh
    <3>3. g # sent + 1
      BY <2>1, <3>2
    <3> QED BY <2>3, <2>4, <3>3 DEF DriveOpen, GoalOpen, GoalWaits
  <2>5. CASE asked_by[g] # n
    <3>1. PoseDelivered
      BY <2>2, <2>5, AskedOnce
    <3>2. PICK m \in Navigations : /\ MoveUnderWay(m) /\ asked_by' = [asked_by EXCEPT ![sent'] = m]
      BY <2>2, <2>5, <3>1, PoseTaken
    <3>3. m = n
      <4>1. asked_by \in [Goals -> Tags]
        BY CourseTyped DEF HistoryTypes, CourseInv
      <4> QED BY <2>2, <2>5, <3>2, <4>1
    <3> QED BY <3>2, <3>3 DEF DriveOpen
  <2> QED BY <2>4, <2>5
<1> QED BY <1>1, <1>2 DEF DriveOpen

\* What is over stays over.
LEMMA StaysOver ==
    ASSUME CourseInv, [MissionNext]_missionVars
    PROVE  Over \subseteq Over'
<1>1. navigations' = navigations \/ navigations' = navigations + 1
  BY SessionStep, RequestMade, CourseTyped DEF CourseInv
<1>2. navigations \in Nat /\ \A m \in Navigations : m \in Nat
  BY CourseTyped DEF CourseInv
<1> SUFFICES ASSUME NEW n \in Over PROVE n \in Over'
  OBVIOUS
<1>3. n <= navigations /\ ~DriveOpen(n) /\ n \in Navigations
  BY DEF Over
<1>4. n <= navigations' /\ n # navigations + 1
  BY <1>1, <1>2, <1>3
<1>5. ~DriveOpen(n)'
  BY <1>3, <1>4, Opens
<1> QED BY <1>3, <1>4, <1>5 DEF Over

\* A move that is refused is over.
LEMMA RefusedIsOver ==
    ASSUME CourseInv, PoseDelivered, UNCHANGED <<running, requests, asked_by>>, NEW n,
           n = Head(target_poses).requestId
    PROVE  n \in Over'
<1>1. /\ RelayTypes /\ Lined /\ TypeOK
      /\ UNCHANGED <<cmd_topic, cmd_queue, navigations>>
  BY CourseTyped DEF CourseInv, PoseDelivered, Others, mqttVars, relayVars, serviceVars
<1>2. /\ n \in Navigations /\ Head(target_poses) = MoveCommand(n) /\ MoveUnderWay(n)
      /\ target_poses # << >> /\ target_poses' = Tail(target_poses)
  BY PoseTaken
<1>3. Carries(target_poses, n) /\ ~Carries(target_poses', n)
  BY <1>1, <1>2, MoveTaken DEF RelayTypes, Lined
<1>4. ~Carries(cmd_topic', n) /\ ~Carries(cmd_queue', n)
  BY <1>1, <1>2, <1>3 DEF Lined
<1>5. n <= navigations' /\ \A g \in Goals : asked_by[g] # n
  BY <1>1, <1>2 DEF Lined
<1>6. ~GoalOpen(n)'
  BY <1>1, <1>5 DEF GoalOpen, GoalWaits, TypeOK, Nav2TypeOK
<1>7. ~DriveOpen(n)'
  BY <1>3, <1>4, <1>6 DEF DriveOpen, MoveUnderWay
<1> QED BY <1>2, <1>5, <1>7 DEF Over

\* A goal that neither waits for its response nor is driven to is over.
LEMMA AnsweredIsOver ==
    ASSUME CourseInv, NEW g \in Goals, asked_by[g] # NoNavigation,
           ~Waiting(requests, "GOAL", g), running # g,
           UNCHANGED <<cmd_topic, cmd_queue, target_poses, navigations, asked_by, running, requests>>
    PROVE  asked_by[g] \in Over'
<1> DEFINE n == asked_by[g]
<1>1. /\ Lined /\ GoalsOnce /\ Fresh /\ TypeOK /\ n \in Navigations
  BY CourseTyped DEF CourseInv, HistoryTypes, Tags
<1>2. ~MoveUnderWay(n)
  BY <1>1 DEF Lined
<1>3. ~GoalOpen(n)
  BY <1>1 DEF GoalOpen, GoalWaits, GoalsOnce, TypeOK, Nav2TypeOK
<1>4. n <= navigations'
  BY <1>1 DEF Fresh
<1> HIDE DEF n
<1>5. ~DriveOpen(n)
  BY <1>2, <1>3 DEF DriveOpen
<1>6. n \in Over
  BY <1>1, <1>4, <1>5 DEF Over
<1>7. Over' = Over
  BY DEF Over, DriveOpen, MoveUnderWay, GoalOpen, GoalWaits
<1> QED BY <1>6, <1>7 DEF n

\* The node says that it drives, or it speaks of a drive that is over.
LEMMA StatusIsOver ==
    ASSUME CourseInv, [MissionNext]_missionVars, status' # status, about' # NoNavigation,
           status' # "NAVIGATING"
    PROVE  about' \in Over'
<1>1. /\ TypeOK /\ DriveInv /\ Past /\ Gone /\ HistoryTypes /\ MissionTypeOK
  BY CourseTyped DEF CourseInv, ForwarderInv
<1>2. CASE PoseDelivered
  <2>1. /\ Forward /\ StatusPublished(Head(target_poses).requestId)
        /\ asked_by' = IF sent' = sent THEN asked_by
                       ELSE [asked_by EXCEPT ![sent'] = Head(target_poses).requestId]
    BY <1>2 DEF PoseDelivered, TargetPose
  <2>2. about' = Head(target_poses).requestId
    BY <2>1 DEF StatusPublished
  <2>3. UNCHANGED <<running, requests, sent>>
    BY <2>1 DEF Forward
  <2> QED BY <1>2, <2>1, <2>2, <2>3, RefusedIsOver
<1>3. CASE CancelDelivered \/ FollowModeDelivered
  BY <1>3 DEF CancelDelivered, FollowModeDelivered, Cancel, CancelDrive, FollowStart, FollowStop,
              handleVars
<1>4. CASE ForwarderStep
  <2>0. UNCHANGED <<cmd_topic, cmd_queue, target_poses, navigations, asked_by>>
    BY <1>4 DEF ForwarderStep, Others, mqttVars, relayVars, serviceVars
  <2>1. CASE StatusPublished(NoNavigation)
    BY <2>1 DEF StatusPublished
  <2>2. ASSUME NEW g, StatusPublished(NavigationOf(g)), UNCHANGED <<running, requests>>,
               ~Waiting(requests, "GOAL", g), running = None \/ running # g
        PROVE  about' \in Over'
    <3>1. about' = NavigationOf(g)
      BY <2>2 DEF StatusPublished
    <3>2. g \in Goals /\ about' = asked_by[g]
      BY <3>1 DEF NavigationOf
    <3>3. running # g
      BY <2>2, <3>2, GoalNumbers
    <3> QED BY <2>0, <2>2, <3>2, <3>3, AnsweredIsOver
  <2>3. CASE (GoalRejected \/ GoalResult) /\ StatusPublished(NavigationOf(Head(replies).goal))
    <3>1. /\ \/ NextReply("RESPONSE") /\ Head(replies).says = "REJECTED"
             \/ NextReply("RESULT")
          /\ UNCHANGED <<running, requests>>
      BY <2>3 DEF GoalRejected, GoalResult, NextReply
    <3>2. /\ 1 \in DOMAIN replies /\ Head(replies) = replies[1] /\ replies \in Seq(ReplyMsg)
          /\ NextReply("RESULT") => replies[1].kind = "RESULT"
      BY <1>1, <3>1, ReplyTaken DEF TypeOK, Nav2TypeOK
    <3>3. replies[1].says # "ACCEPTED"
      <4>1. replies[1] \in ReplyMsg
        BY <3>2
      <4>2. replies[1].kind = "RESULT" => replies[1].says \in Outcomes
        BY <4>1, MessageTypes
      <4> QED BY <3>1, <3>2, <4>2 DEF Outcomes
    <3>4. running = None \/ running # Head(replies).goal
      <4>1. running = None \/ replies[1].goal < running
        BY <1>1, <3>2, <3>3 DEF Past
      <4>2. running \in Nat
        BY <1>1, CourseTyped, GoalNumbers DEF TypeOK, Nav2TypeOK
      <4> QED BY <3>2, <4>1, <4>2
    <3>5. ~Waiting(requests, "GOAL", Head(replies).goal)
      <4> SUFFICES ASSUME Waiting(requests, "GOAL", Head(replies).goal) PROVE FALSE
        OBVIOUS
      <4>1. /\ Head(replies).goal \in Nat
            /\ \A k \in DOMAIN replies : replies[k].goal < Head(replies).goal
        BY <1>1, NewerThanAnswers
      <4> QED BY <3>2, <4>1
    <3> QED BY <2>2, <2>3, <3>1, <3>4, <3>5
  <2>4. CASE CheckServer /\ StatusPublished(NavigationOf(active))
    <3>1. server = "GONE" /\ UNCHANGED <<running, requests>>
      BY <2>4 DEF CheckServer, server_is_ready, nav2Vars
    <3>2. running = None
      BY <1>1, <3>1 DEF DriveInv, Reported
    <3>3. active \in Goals => ~Waiting(requests, "GOAL", active)
      BY <1>1, <3>1 DEF Gone
    <3>4. active \in Goals
      BY <2>4 DEF StatusPublished, NavigationOf
    <3> QED BY <2>2, <2>4, <3>1, <3>2, <3>3, <3>4
  <2>5. CASE GoalAccepted
    BY <2>5 DEF GoalAccepted
  <2> QED BY <1>4, <2>1, <2>3, <2>4, <2>5 DEF ForwarderStep
<1>5. CASE Nav2Moves \/ UNCHANGED missionVars
  BY <1>5 DEF Nav2Moves, missionVars, clientVars, handleVars
<1> QED BY <1>2, <1>3, <1>4, <1>5, RelayStep DEF MissionNext, Delivery, vars, clientVars, handleVars

LEMMA AboutStatus ==
    ASSUME [MissionNext]_missionVars, status' = status
    PROVE  about' = about
BY DEF MissionNext, FrontendRequest, BackendReceives, BackendRestarts, BackendReconciles,
       ConnectionBreaks, BridgeStep, Delivery, PoseDelivered, CancelDelivered,
       FollowModeDelivered, ForwarderStep, StatusPublished, Nav2Moves, missionVars, historyVars,
       tagVars

KnownInv == CourseInv /\ Known /\ EndsOver

\* A status that the bridge takes or holds keeps its tag.
LEMMA FlushEnds ==
    ASSUME KnownInv, NEW s, NEW n, EndIsOver(s, n), Bridge!Flush(s), HandedOn(n),
           Over \subseteq Over'
    PROVE  /\ EndIsOver(pending_nav_status, held)'
           /\ \A i \in DOMAIN result_topic' : EndIsOver(result_topic[i], told[i])'
<1>1. RelayTypes /\ TagTypes /\ EndsOver
  BY CourseTyped DEF KnownInv, CourseInv
<1>2. EndIsOver(pending_nav_status, held)'
  <2>1. "NONE" \notin Service!Terminal
    BY StatusesRelayed, SameCommands DEF Service!Terminal, Service!NavStatus
  <2>2. pending_nav_status' = "NONE" \/ (pending_nav_status' = s /\ held' = n)
    BY DEF Bridge!Flush, HandedOn
  <2> QED BY <2>1, <2>2 DEF EndIsOver, Service!Terminal, Service!NavStatus
<1>3. CASE result_topic' = result_topic
  <2>1. told' = told
    BY <1>3 DEF HandedOn
  <2> QED BY <1>1, <1>2, <1>3, <2>1 DEF EndsOver, EndIsOver, Service!Terminal, Service!NavStatus
<1>4. CASE result_topic' # result_topic
  <2>1. result_topic' = Append(result_topic, s) /\ told' = Append(told, n)
    BY <1>4 DEF Bridge!Flush, HandedOn
  <2>2. /\ DOMAIN result_topic' = 1 .. Len(result_topic) + 1 /\ Len(result_topic) \in Nat
        /\ \A i \in 1 .. Len(result_topic) : /\ result_topic'[i] = result_topic[i]
                                             /\ i \in DOMAIN result_topic
        /\ result_topic'[Len(result_topic) + 1] = s
    BY <1>1, <2>1 DEF RelayTypes
  <2>3. /\ \A i \in 1 .. Len(result_topic) : told'[i] = told[i]
        /\ told'[Len(result_topic) + 1] = n
    BY <1>1, <2>1 DEF TagTypes
  <2> SUFFICES ASSUME NEW i \in DOMAIN result_topic' PROVE EndIsOver(result_topic[i], told[i])'
    BY <1>2
  <2>4. CASE i \in 1 .. Len(result_topic)
    <3>1. EndIsOver(result_topic[i], told[i])
      BY <1>1, <2>2, <2>4 DEF EndsOver
    <3> QED BY <2>2, <2>3, <2>4, <3>1 DEF EndIsOver, Service!Terminal, Service!NavStatus
  <2>5. CASE i = Len(result_topic) + 1
    BY <2>2, <2>3, <2>5 DEF EndIsOver, Service!Terminal, Service!NavStatus
  <2> QED BY <2>2, <2>4, <2>5
<1> QED BY <1>3, <1>4

LEMMA EndsOverStep == KnownInv /\ [MissionNext]_missionVars => EndsOver'
<1> SUFFICES ASSUME KnownInv, [MissionNext]_missionVars PROVE EndsOver'
  OBVIOUS
<1> USE DEF Service!Terminal, Service!NavStatus
<1>1. /\ RelayTypes /\ TagTypes /\ ServiceTypes /\ EndsOver /\ CourseInv /\ Over \subseteq Over'
      /\ MissionTypeOK
  BY CourseTyped, StaysOver DEF KnownInv, CourseInv
<1>2. EndIsOver(status, about)'
  <2>1. CASE status' = status
    <3>1. about' = about
      BY <2>1, AboutStatus
    <3> QED BY <1>1, <2>1, <3>1 DEF EndsOver, EndIsOver
  <2>2. CASE status' # status
    <3>1. about' # NoNavigation /\ status' # "NAVIGATING" => about' \in Over'
      BY <1>1, <2>2, StatusIsOver
    <3> QED BY <3>1 DEF EndIsOver
  <2> QED BY <2>1, <2>2
<1> SUFFICES /\ EndIsOver(pending_nav_status, held)'
             /\ \A i \in DOMAIN result_topic' : EndIsOver(result_topic[i], told[i])'
  BY <1>2 DEF EndsOver
<1>3. CASE UNCHANGED <<pending_nav_status, held, result_topic, told>>
  BY <1>1, <1>3 DEF EndsOver, EndIsOver
<1>4. CASE BackendReceives
  <2>1. /\ UNCHANGED <<pending_nav_status, held>> /\ result_topic # << >>
        /\ result_topic' = Tail(result_topic) /\ told' = Tail(told)
    BY <1>4 DEF BackendReceives, Service!ApplyNavResult
  <2>2. told # << >>
    BY <1>1, <2>1 DEF RelayTypes, TagTypes
  <2>3. \A i \in DOMAIN result_topic' : /\ i + 1 \in DOMAIN result_topic
                                        /\ result_topic'[i] = result_topic[i + 1]
                                        /\ i \in 1 .. Len(told) - 1
    BY <1>1, <2>1 DEF RelayTypes, TagTypes
  <2>4. \A i \in 1 .. Len(told) - 1 : told'[i] = told[i + 1]
    BY <1>1, <2>1, <2>2 DEF TagTypes
  <2> QED BY <1>1, <2>1, <2>3, <2>4 DEF EndsOver, EndIsOver
<1>5. CASE BackendRestarts
  <2>1. UNCHANGED <<pending_nav_status, held>> /\ result_topic' = << >>
    BY <1>5 DEF BackendRestarts, Service!Restart
  <2> QED BY <1>1, <2>1 DEF EndsOver, EndIsOver
<1>6. CASE NavStatusTaken
  <2>1. CASE status = last_nav_status
    BY <1>3, <1>6, <2>1 DEF NavStatusTaken, Bridge!OnNavStatus
  <2>2. CASE status # last_nav_status
    <3>1. Bridge!Flush(status) /\ HandedOn(about)
      BY <1>6, <2>2 DEF NavStatusTaken, Bridge!OnNavStatus
    <3>2. EndIsOver(status, about)
      BY <1>1 DEF EndsOver
    <3> QED BY <1>1, <3>1, <3>2, FlushEnds
  <2> QED BY <2>1, <2>2
<1>7. CASE QueueDrained
  <2>1. Bridge!Flush(pending_nav_status) /\ HandedOn(held) /\ EndIsOver(pending_nav_status, held)
    BY <1>1, <1>7 DEF QueueDrained, Bridge!DrainCmdQueue, EndsOver
  <2> QED BY <1>1, <2>1, FlushEnds
<1>8. CASE (Bridge!Connect \/ Bridge!OnMqttMessage) /\ UNCHANGED <<told, held, overheld>>
  BY <1>3, <1>8 DEF Bridge!Connect, Bridge!OnMqttMessage, Bridge!relayVars
<1>9. CASE FrontendRequest
  BY <1>1, <1>3, <1>9, RequestMade
<1>10. CASE BackendReconciles \/ ConnectionBreaks \/ Delivery \/ ForwarderStep \/ Nav2Moves
              \/ UNCHANGED missionVars
  <2>1. UNCHANGED <<pending_nav_status, held, result_topic, told>>
    BY <1>10 DEF BackendReconciles, Service!Reconcile, ConnectionBreaks, Bridge!Disconnect,
                 Bridge!relayVars, Delivery, PoseDelivered, CancelDelivered, FollowModeDelivered,
                 ForwarderStep, Others, Nav2Moves, missionVars, relayVars, mqttVars, historyVars,
                 tagVars
  <2> QED BY <1>3, <2>1
<1> QED BY <1>4, <1>5, <1>6, <1>7, <1>8, <1>9, <1>10 DEF MissionNext, BridgeStep

LEMMA KnownStep == KnownInv /\ [MissionNext]_missionVars => KnownInv'
<1> SUFFICES ASSUME KnownInv, [MissionNext]_missionVars PROVE KnownInv'
  OBVIOUS
<1>1. CourseInv' /\ EndsOver'
  BY CourseStep, EndsOverStep DEF KnownInv
<1>2. /\ CourseInv /\ Known /\ EndsOver /\ MissionTypeOK /\ ServiceTypes
      /\ NoNavigation \notin Navigations
  BY CourseTyped, NavigationNumbers DEF KnownInv, CourseInv
<1> SUFFICES ASSUME NEW n \in Navigations, DriveOpen(n)'
             PROVE  n \in {session'} \cup cancelled' \cup forgotten' \cup misled'
  BY <1>1 DEF KnownInv, Known
<1>3. DriveOpen(n) \/ n = session'
  BY <1>2, Opens
<1>4. CASE DriveOpen(n) /\ FrontendRequest
  BY <1>2, <1>4, RequestMade DEF Known
<1>5. CASE DriveOpen(n) /\ ~FrontendRequest
  <2>1. n \in {session} \cup cancelled \cup forgotten \cup misled
    BY <1>2, <1>5 DEF Known
  <2>2. ASSUME n = session, 1 \in DOMAIN result_topic, result_topic[1] \in Service!Terminal,
               told[1] = session
        PROVE  FALSE
    <3>1. n \in Over
      BY <1>2, <2>2 DEF EndsOver, EndIsOver
    <3> QED BY <1>5, <3>1 DEF Over
  <2> QED BY <1>2, <1>5, <2>1, <2>2, SessionStep
<1> QED BY <1>3, <1>4, <1>5

\* Over every queue, topic, hold and outage between NavigationService and goal_forwarder.py,
\* and for results that come as late as they may: the goal of a navigation that nobody has
\* cancelled is driven to only while that navigation is the session, unless a restart has
\* wiped the session out or a status about another drive has ended it.
THEOREM DriveKnown == MissionSpec => []DriveHasSession
<1>1. MissionInit => KnownInv
  <2> SUFFICES ASSUME MissionInit PROVE Known /\ EndsOver
    BY CourseInit DEF KnownInv
  <2>1. /\ cmd_topic = << >> /\ cmd_queue = << >> /\ target_poses = << >>
        /\ result_topic = << >> /\ about = NoNavigation /\ held = NoNavigation
    BY DEF MissionInit, Bridge!BridgeInit
  <2>2. running = None /\ requests = << >>
    BY DEF MissionInit, Init, Nav2Init
  <2>3. \A n : ~DriveOpen(n)
    BY <2>1, <2>2 DEF DriveOpen, MoveUnderWay, Carries, GoalOpen, GoalWaits, Waiting
  <2>4. EndsOver
    BY <2>1 DEF EndsOver, EndIsOver
  <2> QED BY <2>3, <2>4 DEF Known
<1>2. KnownInv => DriveHasSession
  <2> SUFFICES ASSUME KnownInv, running # 0, asked_by[running] # NoNavigation
               PROVE  asked_by[running] \in {session} \cup cancelled \cup forgotten \cup misled
    BY DEF DriveHasSession
  <2>1. running \in Goals /\ running # None /\ HistoryTypes
    BY CourseTyped DEF KnownInv, CourseInv, None
  <2>2. asked_by[running] \in Navigations
    BY <2>1 DEF HistoryTypes, Tags
  <2>3. DriveOpen(asked_by[running])
    BY <2>1 DEF DriveOpen, GoalOpen
  <2> QED BY <2>2, <2>3 DEF KnownInv, Known
<1> QED BY <1>1, <1>2, KnownStep, PTL DEF MissionSpec

-----------------------------------------------------------------------------
(* The cancels that the cart gets. *)

HasCancel(s) == \E i \in DOMAIN s : s[i].command = "CANCEL"

\* Behind every move of n in s there is a CANCEL.
CancelBehind(s, n) == \A i \in DOMAIN s :
    s[i] = MoveCommand(n) => \E j \in DOMAIN s : i < j /\ s[j].command = "CANCEL"

\* A cancelled move has a CANCEL behind it, wherever it is, or the forwarder has cancelled
\* its goal.
CancelComes(n) ==
    /\ CancelBehind(cmd_topic, n)
    /\ CancelBehind(cmd_queue, n) \/ HasCancel(cmd_topic)
    /\ Carries(target_poses, n) => CancelUnderWay
    /\ \A g \in Goals : asked_by[g] = n => g <= stopped_upto \/ CancelUnderWay

CancelsInv ==
    /\ CourseInv /\ CancelInv
    /\ ~lost => \A n \in cancelled \ overtaken : CancelComes(n)

LEMMA CancelUnderWayIs ==
    CancelUnderWay <=> cancels > 0 \/ HasCancel(cmd_queue) \/ HasCancel(cmd_topic)
BY DEF CancelUnderWay, HasCancel

LEMMA CancelBehindAdded ==
    ASSUME NEW s \in Seq(Command), NEW c \in Command
    PROVE  /\ HasCancel(Append(s, c)) <=> HasCancel(s) \/ c.command = "CANCEL"
           /\ \A n : c.command = "CANCEL" => CancelBehind(Append(s, c), n)
           /\ \A n : c # MoveCommand(n) /\ CancelBehind(s, n) => CancelBehind(Append(s, c), n)
<1> DEFINE t == Append(s, c)
<1>1. /\ Len(s) \in Nat
      /\ DOMAIN s = 1 .. Len(s) /\ DOMAIN t = 1 .. Len(s) + 1
      /\ \A i \in 1 .. Len(s) : t[i] = s[i]
      /\ t[Len(s) + 1] = c
      /\ \A i \in DOMAIN t : i \in DOMAIN s \/ i = Len(s) + 1
  BY Added
<1> HIDE DEF t
<1>2. HasCancel(t) <=> HasCancel(s) \/ c.command = "CANCEL"
  BY <1>1 DEF HasCancel
<1>3. ASSUME NEW n, c.command = "CANCEL" PROVE CancelBehind(t, n)
  <2>1. c # MoveCommand(n)
    BY <1>3, CommandKinds
  <2>2. \A i \in DOMAIN t : t[i] = MoveCommand(n) => i < Len(s) + 1
    BY <1>1, <2>1
  <2>3. Len(s) + 1 \in DOMAIN t
    BY <1>1
  <2> QED BY <1>1, <1>3, <2>2, <2>3 DEF CancelBehind
<1>4. ASSUME NEW n, c # MoveCommand(n), CancelBehind(s, n) PROVE CancelBehind(t, n)
  <2> SUFFICES ASSUME NEW i \in DOMAIN t, t[i] = MoveCommand(n)
               PROVE  \E j \in DOMAIN t : i < j /\ t[j].command = "CANCEL"
    BY DEF CancelBehind
  <2>1. i \in DOMAIN s /\ s[i] = MoveCommand(n)
    BY <1>1, <1>4
  <2>2. PICK j \in DOMAIN s : i < j /\ s[j].command = "CANCEL"
    BY <1>4, <2>1 DEF CancelBehind
  <2>3. j \in DOMAIN t /\ t[j] = s[j]
    BY <1>1
  <2> QED BY <2>2, <2>3
<1> QED BY <1>2, <1>3, <1>4 DEF t

LEMMA CancelBehindTaken ==
    ASSUME NEW s \in Seq(Command), s # << >>
    PROVE  /\ HasCancel(s) => HasCancel(Tail(s)) \/ Head(s).command = "CANCEL"
           /\ HasCancel(Tail(s)) => HasCancel(s)
           /\ \A n : CancelBehind(s, n) => CancelBehind(Tail(s), n)
           /\ \A n : CancelBehind(s, n) /\ Head(s) = MoveCommand(n) => HasCancel(Tail(s))
<1>1. /\ Len(s) \in Nat \ {0}
      /\ DOMAIN s = 1 .. Len(s) /\ DOMAIN Tail(s) = 1 .. Len(s) - 1
      /\ \A i \in 1 .. Len(s) - 1 : Tail(s)[i] = s[i + 1]
      /\ 1 \in DOMAIN s /\ Head(s) = s[1]
  BY Taken
<1>2. \A j \in DOMAIN s : 1 < j => j - 1 \in DOMAIN Tail(s) /\ Tail(s)[j - 1] = s[j]
  BY <1>1
<1>3. \A j \in DOMAIN s : j = 1 \/ 1 < j
  BY <1>1
<1>4. HasCancel(s) => HasCancel(Tail(s)) \/ Head(s).command = "CANCEL"
  BY <1>1, <1>2, <1>3 DEF HasCancel
<1>5. \A i \in DOMAIN Tail(s) : i + 1 \in DOMAIN s /\ Tail(s)[i] = s[i + 1] /\ i \in Nat \ {0}
  BY <1>1
<1>6. HasCancel(Tail(s)) => HasCancel(s)
  BY <1>5 DEF HasCancel
<1>7. ASSUME NEW n, CancelBehind(s, n) PROVE CancelBehind(Tail(s), n)
  <2> SUFFICES ASSUME NEW i \in DOMAIN Tail(s), Tail(s)[i] = MoveCommand(n)
               PROVE  \E j \in DOMAIN Tail(s) : i < j /\ Tail(s)[j].command = "CANCEL"
    BY DEF CancelBehind
  <2>1. PICK j \in DOMAIN s : i + 1 < j /\ s[j].command = "CANCEL"
    BY <1>5, <1>7 DEF CancelBehind
  <2>2. 1 < j /\ i < j - 1
    BY <1>1, <1>5, <2>1
  <2>3. j - 1 \in DOMAIN Tail(s) /\ Tail(s)[j - 1] = s[j]
    BY <1>2, <2>2
  <2> QED BY <2>1, <2>2, <2>3
<1>8. ASSUME NEW n, CancelBehind(s, n), Head(s) = MoveCommand(n) PROVE HasCancel(Tail(s))
  <2>1. PICK j \in DOMAIN s : 1 < j /\ s[j].command = "CANCEL"
    BY <1>1, <1>8 DEF CancelBehind
  <2> QED BY <1>2, <2>1 DEF HasCancel
<1> QED BY <1>4, <1>6, <1>7, <1>8

\* Nothing that holds a command changes, and no goal is asked for.
LEMMA ComesKept ==
    ASSUME UNCHANGED <<cmd_topic, cmd_queue, target_poses, cancels, asked_by>>,
           \A g \in Goals : g <= stopped_upto => g <= stopped_upto',
           NEW n, CancelComes(n)
    PROVE  CancelComes(n)'
<1>1. /\ CancelBehind(cmd_topic', n) <=> CancelBehind(cmd_topic, n)
      /\ CancelBehind(cmd_queue', n) <=> CancelBehind(cmd_queue, n)
      /\ HasCancel(cmd_topic') <=> HasCancel(cmd_topic)
      /\ Carries(target_poses', n) <=> Carries(target_poses, n)
      /\ CancelUnderWay' <=> CancelUnderWay
  BY DEF CancelUnderWay
<1> QED BY <1>1 DEF CancelComes

\* Goals are stopped that were, and none is new.
LEMMA StoppedStays ==
    ASSUME CourseInv, [MissionNext]_missionVars
    PROVE  \A g \in Goals : g <= stopped_upto => g <= stopped_upto'
<1>1. TypeOK /\ sent \in Nat /\ Goals \subseteq Nat
  BY CourseTyped DEF CourseInv
<1>2. stopped_upto \in Nat /\ stopped_upto <= sent
  BY <1>1 DEF TypeOK
<1>3. stopped_upto' = stopped_upto \/ stopped_upto' = sent
  <2>1. [Step]_vars
    BY MissionStep
  <2>2. CASE UNCHANGED vars \/ Callbacks \/ IntervalPasses \/ (Nav2Step /\ UNCHANGED clientVars)
    BY <2>2 DEF vars, clientVars, Callbacks, IntervalPasses, GoalAccepted, GoalRejected, GoalResult,
                NextReply, CheckServer
  <2>3. CASE Subscriptions
    BY <2>3 DEF Subscriptions, TargetPose, TargetPoint, Forward, Cancel, FollowStart, FollowStop,
                CancelDrive
  <2> QED BY <2>1, <2>2, <2>3 DEF Step
<1> QED BY <1>1, <1>2, <1>3

\* A request: a CANCEL goes behind every move, a new move is not cancelled.
LEMMA RequestComes ==
    ASSUME CancelsInv, FrontendRequest, [MissionNext]_missionVars, ~lost',
           NEW n \in cancelled' \ overtaken'
    PROVE  CancelComes(n)'
<1>1. /\ RelayTypes /\ ServiceTypes /\ HistoryTypes /\ Fresh /\ CourseInv /\ Goals \subseteq Nat
      /\ navigations \in Nat /\ cancelled \subseteq Nat
      /\ \A m \in cancelled \ overtaken : ~lost => CancelComes(m)
  BY CourseTyped DEF CancelsInv, CourseInv
<1>2. /\ UNCHANGED <<cmd_queue, target_poses, cancels, asked_by, overtaken>>
      /\ lost' = (lost \/ ~listening)
  BY <1>1, RequestMade
<1>3. ~lost /\ listening
  BY <1>2
<1>4. UNCHANGED stopped_upto
  BY <1>1, RequestMade DEF vars, clientVars
<1>5. ASSUME NEW c \in Command, Requested(c), c.command = "CANCEL" PROVE CancelComes(n)'
  <2>1. cmd_topic' = Append(cmd_topic, c) /\ cmd_topic \in Seq(Command)
    BY <1>1, <1>3, <1>5 DEF Requested, RelayTypes
  <2>2. HasCancel(cmd_topic') /\ CancelBehind(cmd_topic', n)
    BY <1>5, <2>1, CancelBehindAdded
  <2>3. CancelUnderWay'
    BY <2>2 DEF CancelUnderWay, HasCancel
  <2> QED BY <2>2, <2>3 DEF CancelComes
<1>6. ASSUME NEW c \in Command, Requested(c), c # MoveCommand(n), n \in cancelled
      PROVE  CancelComes(n)'
  <2>1. cmd_topic' = Append(cmd_topic, c) /\ cmd_topic \in Seq(Command)
    BY <1>1, <1>3, <1>6 DEF Requested, RelayTypes
  <2>2. CancelComes(n)
    BY <1>1, <1>2, <1>3, <1>6
  <2>3. CancelBehind(cmd_topic', n) /\ (HasCancel(cmd_topic) => HasCancel(cmd_topic'))
    BY <1>6, <2>1, <2>2, CancelBehindAdded DEF CancelComes
  <2>4. CancelUnderWay => CancelUnderWay'
    <3>1. UNCHANGED <<cmd_queue, cancels>> /\ (HasCancel(cmd_topic) => HasCancel(cmd_topic'))
      BY <1>2, <2>3
    <3> QED BY <3>1 DEF CancelUnderWay, HasCancel
  <2>5. /\ CancelBehind(cmd_queue', n) <=> CancelBehind(cmd_queue, n)
        /\ Carries(target_poses', n) <=> Carries(target_poses, n)
    BY <1>2
  <2> QED BY <1>2, <1>4, <2>2, <2>3, <2>4, <2>5 DEF CancelComes
<1>7. CASE /\ session' = navigations + 1 /\ UNCHANGED cancelled
           /\ session' \in Navigations /\ Requested(MoveCommand(session'))
  <2>1. n <= navigations /\ n \in Nat /\ n \in cancelled
    BY <1>1, <1>7 DEF Fresh
  <2>2. n # session'
    BY <1>1, <1>7, <2>1
  <2>3. MoveCommand(session') # MoveCommand(n) /\ MoveCommand(session') \in Command
    BY <1>7, <2>2, CommandKinds, CommandTypes
  <2> QED BY <1>6, <1>7, <2>1, <2>3
<1>8. CASE session \in Navigations /\ Requested(CancelCommand(session))
  BY <1>5, <1>8, CommandKinds, CommandTypes
<1>9. CASE UNCHANGED cancelled /\ \E a \in FollowActions : Requested(FollowCommand(a))
  <2>1. PICK a \in FollowActions : Requested(FollowCommand(a))
    BY <1>9
  <2>2. FollowCommand(a) \in Command /\ FollowCommand(a) # MoveCommand(n)
    BY CommandTypes, CommandKinds
  <2> QED BY <1>6, <1>9, <2>1, <2>2
<1>10. CASE UNCHANGED <<cancelled, cmd_topic>>
  <2>1. CancelComes(n)
    BY <1>1, <1>2, <1>3, <1>10
  <2> QED BY <1>2, <1>4, <1>10, <2>1, ComesKept
<1> QED BY <1>1, <1>7, <1>8, <1>9, <1>10, RequestMade

LEMMA HandedComes ==
    ASSUME CourseInv, [MissionNext]_missionVars, Bridge!OnMqttMessage, UNCHANGED asked_by,
           NEW n, CancelComes(n)
    PROVE  CancelComes(n)'
<1>1. RelayTypes /\ \A g \in Goals : g <= stopped_upto => g <= stopped_upto'
  BY CourseTyped, StoppedStays DEF CourseInv
<1>2. /\ cmd_topic # << >> /\ cmd_topic' = Tail(cmd_topic) /\ UNCHANGED <<target_poses, cancels>>
      /\ cmd_queue' = Append(cmd_queue, Head(cmd_topic))
      /\ cmd_topic \in Seq(Command) /\ cmd_queue \in Seq(Command) /\ Head(cmd_topic) \in Command
  BY <1>1, Taken DEF Bridge!OnMqttMessage, Bridge!topicVars, RelayTypes
<1>3. /\ HasCancel(cmd_topic) => HasCancel(cmd_topic') \/ Head(cmd_topic).command = "CANCEL"
      /\ CancelBehind(cmd_topic, n) => CancelBehind(cmd_topic', n)
      /\ CancelBehind(cmd_topic, n) /\ Head(cmd_topic) = MoveCommand(n) => HasCancel(cmd_topic')
  BY <1>2, CancelBehindTaken
<1>4. /\ HasCancel(cmd_queue') <=> HasCancel(cmd_queue) \/ Head(cmd_topic).command = "CANCEL"
      /\ Head(cmd_topic).command = "CANCEL" => CancelBehind(cmd_queue', n)
      /\ Head(cmd_topic) # MoveCommand(n) /\ CancelBehind(cmd_queue, n)
            => CancelBehind(cmd_queue', n)
  BY <1>2, CancelBehindAdded
<1>5. CancelUnderWay => CancelUnderWay'
  <2>1. CancelUnderWay' <=> cancels' > 0 \/ HasCancel(cmd_queue') \/ HasCancel(cmd_topic')
    BY DEF CancelUnderWay, HasCancel
  <2> QED BY <1>2, <1>3, <1>4, <2>1, CancelUnderWayIs
<1>6. CancelBehind(cmd_queue', n) \/ HasCancel(cmd_topic')
  BY <1>3, <1>4 DEF CancelComes
<1>7. Carries(target_poses', n) <=> Carries(target_poses, n)
  BY <1>2
<1> QED BY <1>1, <1>3, <1>5, <1>6, <1>7 DEF CancelComes

LEMMA PassedComes ==
    ASSUME CourseInv, [MissionNext]_missionVars, PassedOn, UNCHANGED asked_by,
           NEW n, CancelComes(n)
    PROVE  CancelComes(n)'
<1>1. RelayTypes /\ \A g \in Goals : g <= stopped_upto => g <= stopped_upto'
  BY CourseTyped, StoppedStays DEF CourseInv
<1>2. /\ cmd_queue # << >> /\ cmd_queue' = Tail(cmd_queue) /\ UNCHANGED cmd_topic
      /\ cmd_queue \in Seq(Command) /\ target_poses \in Seq(Command) /\ cancels \in Nat
      /\ Head(cmd_queue) \in Command
  BY <1>1, Taken DEF PassedOn, RelayTypes
<1>3. /\ HasCancel(cmd_queue) => HasCancel(cmd_queue') \/ Head(cmd_queue).command = "CANCEL"
      /\ CancelBehind(cmd_queue, n) => CancelBehind(cmd_queue', n)
      /\ CancelBehind(cmd_queue, n) /\ Head(cmd_queue) = MoveCommand(n) => HasCancel(cmd_queue')
  BY <1>2, CancelBehindTaken
<1>4. /\ cancels' = IF Head(cmd_queue).command = "CANCEL" THEN cancels + 1 ELSE cancels
      /\ target_poses' = IF Head(cmd_queue).command = "MOVE"
                         THEN Append(target_poses, Head(cmd_queue)) ELSE target_poses
  BY DEF PassedOn, Bridge!Forwarded
<1>5. Head(cmd_queue).command = "CANCEL" \/ cancels > 0 => cancels' > 0
  BY <1>2, <1>4
<1>6. CancelUnderWay' <=> cancels' > 0 \/ HasCancel(cmd_queue') \/ HasCancel(cmd_topic')
  BY DEF CancelUnderWay, HasCancel
<1>7. HasCancel(cmd_topic') <=> HasCancel(cmd_topic)
  BY <1>2
<1>8. CancelUnderWay => CancelUnderWay'
  BY <1>3, <1>5, <1>6, <1>7, CancelUnderWayIs
<1>9. Carries(target_poses', n) => Carries(target_poses, n) \/ Head(cmd_queue) = MoveCommand(n)
  BY <1>2, <1>4, MoveAdded
<1>10. Carries(target_poses', n) => CancelUnderWay'
  BY <1>3, <1>6, <1>7, <1>8, <1>9 DEF CancelComes
<1>11. CancelBehind(cmd_topic', n) <=> CancelBehind(cmd_topic, n)
  BY <1>2
<1> QED BY <1>1, <1>3, <1>7, <1>8, <1>10, <1>11 DEF CancelComes

LEMMA PoseComes ==
    ASSUME CourseInv, [MissionNext]_missionVars, PoseDelivered, NEW n, CancelComes(n)
    PROVE  CancelComes(n)'
<1>1. /\ RelayTypes /\ HistoryTypes /\ \A g \in Goals : g <= stopped_upto => g <= stopped_upto'
  BY CourseTyped, StoppedStays DEF CourseInv
<1>2. UNCHANGED <<cmd_topic, cmd_queue, cancels>>
  BY DEF PoseDelivered, Others, mqttVars, relayVars
<1>3. PICK m \in Navigations :
        /\ Head(target_poses) = MoveCommand(m)
        /\ target_poses # << >> /\ target_poses' = Tail(target_poses)
        /\ UNCHANGED asked_by \/ asked_by' = [asked_by EXCEPT ![sent'] = m]
  BY PoseTaken
<1>4. /\ Carries(target_poses', n) => Carries(target_poses, n)
      /\ Carries(target_poses, m)
  BY <1>1, <1>3, MoveTaken DEF RelayTypes
<1>5. CancelUnderWay' <=> CancelUnderWay
  BY <1>2 DEF CancelUnderWay
<1>6. \A g \in Goals : asked_by'[g] = n => asked_by[g] = n \/ m = n
  BY <1>1, <1>3 DEF HistoryTypes
<1>7. \A g \in Goals : asked_by'[g] = n => g <= stopped_upto' \/ CancelUnderWay'
  BY <1>1, <1>4, <1>5, <1>6 DEF CancelComes
<1>8. /\ CancelBehind(cmd_topic', n) <=> CancelBehind(cmd_topic, n)
      /\ CancelBehind(cmd_queue', n) <=> CancelBehind(cmd_queue, n)
      /\ HasCancel(cmd_topic') <=> HasCancel(cmd_topic)
  BY <1>2
<1> QED BY <1>4, <1>5, <1>7, <1>8 DEF CancelComes

\* The forwarder cancels what was sent; a move of the same navigation that comes later
\* has another CANCEL to come, or was overtaken.
LEMMA CancelTaken ==
    ASSUME CourseInv, CancelDelivered, NEW n \in cancelled \ overtaken', CancelComes(n)
    PROVE  CancelComes(n)'
<1>1. /\ RelayTypes /\ Fresh /\ sent \in Nat /\ Goals \subseteq Nat /\ HistoryTypes
      /\ n \in Navigations /\ n # NoNavigation
  BY CourseTyped, NavigationNumbers DEF CourseInv, HistoryTypes
<1>2. /\ UNCHANGED <<cmd_topic, cmd_queue, target_poses, asked_by>> /\ stopped_upto' = sent
      /\ overtaken' = overtaken \cup
           {k \in cancelled : /\ ~CancelUnderWay'
                              /\ \E i \in DOMAIN target_poses : target_poses[i].requestId = k}
  BY DEF CancelDelivered, Cancel, CancelDrive, Others, mqttVars, relayVars
<1>3. \A g \in Goals : asked_by'[g] = n => g <= stopped_upto'
  <2> SUFFICES ASSUME NEW g \in Goals, asked_by[g] = n PROVE g <= sent
    BY <1>2
  <2>1. ~(g > sent)
    BY <1>1 DEF Fresh
  <2> QED BY <1>1, <2>1
<1>4. Carries(target_poses', n) => CancelUnderWay'
  <2>1. Carries(target_poses', n) => \E i \in DOMAIN target_poses : target_poses[i].requestId = n
    BY <1>2, CommandKinds DEF Carries
  <2>2. ~(~CancelUnderWay' /\ \E i \in DOMAIN target_poses : target_poses[i].requestId = n)
    BY <1>2
  <2> QED BY <2>1, <2>2
<1>5. /\ CancelBehind(cmd_topic', n) <=> CancelBehind(cmd_topic, n)
      /\ CancelBehind(cmd_queue', n) <=> CancelBehind(cmd_queue, n)
      /\ HasCancel(cmd_topic') <=> HasCancel(cmd_topic)
  BY <1>2
<1> QED BY <1>3, <1>4, <1>5 DEF CancelComes

LEMMA HistoryStep ==
    ASSUME [MissionNext]_missionVars, ~FrontendRequest
    PROVE  /\ UNCHANGED lost \/ (ConnectionBreaks /\ lost' = (lost \/ cmd_topic # << >>))
           /\ overtaken \subseteq overtaken'
BY DEF MissionNext, BackendReceives, BackendRestarts, BackendReconciles, ConnectionBreaks,
       BridgeStep, Delivery, PoseDelivered, CancelDelivered, FollowModeDelivered, ForwarderStep,
       Others, Nav2Moves, missionVars, historyVars, courseVars

LEMMA CancelsStep == CancelsInv /\ [MissionNext]_missionVars => CancelsInv'
<1> SUFFICES ASSUME CancelsInv, [MissionNext]_missionVars PROVE CancelsInv'
  OBVIOUS
<1>1. CourseInv' /\ CancelInv'
  BY CourseStep, CancelStep, MissionStep DEF CancelsInv
<1>2. CourseInv /\ MissionTypeOK /\ (~lost => \A n \in cancelled \ overtaken : CancelComes(n))
  BY DEF CancelsInv, CourseInv
<1> SUFFICES ASSUME ~lost', NEW n \in cancelled' \ overtaken' PROVE CancelComes(n)'
  BY <1>1 DEF CancelsInv
<1>3. CASE FrontendRequest
  BY <1>3, RequestComes
<1>4. CASE ~FrontendRequest
  <2>1. UNCHANGED cancelled
    BY <1>2, <1>4, SessionStep
  <2>2. n \in cancelled \ overtaken /\ (~lost => CancelComes(n))
    BY <1>2, <1>4, <2>1, HistoryStep
  <2>3. CASE ConnectionBreaks
    <3>1. /\ lost' = (lost \/ cmd_topic # << >>) /\ cmd_topic' = << >>
          /\ UNCHANGED <<cmd_queue, target_poses, cancels, asked_by, stopped_upto>>
      BY <2>3 DEF ConnectionBreaks, Bridge!Disconnect, Bridge!topicVars, clientVars
    <3>2. UNCHANGED cmd_topic /\ CancelComes(n)
      BY <2>2, <3>1
    <3> QED BY <3>1, <3>2, ComesKept
  <2>4. CASE ~ConnectionBreaks
    <3>1. CancelComes(n)
      BY <1>4, <2>2, <2>4, HistoryStep
    <3>2. CASE PoseDelivered
      BY <1>2, <3>1, <3>2, PoseComes
    <3>3. CASE CancelDelivered
      BY <1>2, <2>1, <3>1, <3>3, CancelTaken
    <3>4. CASE ~PoseDelivered /\ Bridge!OnMqttMessage
      BY <1>2, <3>1, <3>4, AskedOnce, HandedComes
    <3>5. CASE ~PoseDelivered /\ PassedOn
      BY <1>2, <3>1, <3>5, AskedOnce, PassedComes
    <3>6. CASE ~PoseDelivered /\ ~CancelDelivered /\ ~Bridge!OnMqttMessage /\ ~PassedOn
      <4>1. UNCHANGED <<cmd_topic, cmd_queue, target_poses, cancels, asked_by>>
        BY <1>4, <2>4, <3>6, OtherSteps, AskedOnce
      <4> QED BY <1>2, <3>1, <4>1, StoppedStays, ComesKept
    <3> QED BY <3>2, <3>3, <3>4, <3>5, <3>6
  <2> QED BY <2>3, <2>4
<1> QED BY <1>3, <1>4

\* Through every topic and queue from NavigationService to Nav2, a CANCEL comes behind its
\* MOVE, in every interleaving with other requests, results, restarts and outages: once all
\* has settled and no command was dropped, the cart does not drive for a navigation that
\* was cancelled, but for a move whose last CANCEL the forwarder took first (the topics
\* of mqtt_bridge.py are separate) and a goal sent while another had no response.
THEOREM CancelArrives == MissionSpec => []CancelReachesCart
<1>1. MissionInit => CancelsInv
  BY CourseInit, CancelInit DEF MissionInit, CancelsInv
<1>2. CancelsInv => CancelReachesCart
  <2> SUFFICES ASSUME CancelsInv, Settled, ~lost, running # 0, running \notin crowded,
                      asked_by[running] \in cancelled \ overtaken
               PROVE  FALSE
    BY DEF CancelReachesCart
  <2>1. running \in Goals /\ running # None /\ CancelNotLost
    BY CourseTyped DEF CancelsInv, CourseInv, CancelInv, Rest, None
  <2>2. CancelComes(asked_by[running])
    BY DEF CancelsInv
  <2>3. ~CancelUnderWay
    <3>1. cancels = 0 /\ cmd_queue = << >> /\ cmd_topic = << >>
      BY DEF Settled
    <3> QED BY <3>1 DEF CancelUnderWay
  <2>4. running <= stopped_upto
    BY <2>1, <2>2, <2>3 DEF CancelComes
  <2>5. requests = << >> /\ replies = << >>
    BY DEF Settled
  <2> QED BY <2>1, <2>4, <2>5 DEF CancelNotLost, Waiting
<1> QED BY <1>1, <1>2, CancelsStep, PTL DEF MissionSpec

=============================================================================
