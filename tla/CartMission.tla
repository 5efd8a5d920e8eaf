---------------------------- MODULE CartMission ----------------------------
(***************************************************************************)
(* A cart on a mission: the backend's sessions, MQTT, the bridge, the goal *)
(* forwarder and Nav2 put together.  The frontend's requests come in at    *)
(* one end, the cart drives at the other, and what became of it comes back *)
(* as a status that names no request.                                      *)
(***************************************************************************)
EXTENDS CartCommand, GoalForwarder

CONSTANTS
    MaxCommands,      \* requests of the frontend
    MaxOutages,       \* connections of the bridge that break, restarts of the
                      \* backend, failures of Nav2
    MaxResults        \* results on their way when the bridge publishes another

ASSUME MissionAssumption == {MaxCommands, MaxOutages, MaxResults} \subseteq Nat

VARIABLES
    \* NavigationService
    session, navigations, follow, op_status, reconciled,
    \* MQTT and MqttBridge
    listening, cmd_topic, result_topic, cmd_queue, last_nav_status,
    pending_nav_status, nav_status_new, target_poses, cancels, follow_mode,
    \* bounds
    commands,      \* requests made
    outages,       \* connections, backends and servers that failed
    \* history: commands
    lost,          \* a command was dropped by MQTT
    cancelled,     \* navigations the frontend cancelled
    overtaken,     \* of these, those whose last CANCEL the forwarder took before the MOVE
    asked_by,      \* for each goal, the navigation whose MOVE it is, if any
    \* history: sessions that ended with their drive still under way
    forgotten,     \* navigations the backend lost in a restart
    misled,        \* navigations ended by a status that was about another drive
    \* history: the navigation, if any, that a status is about
    about,         \* the one in status
    held,          \* the one in pending_nav_status
    told,          \* those in result_topic
    overheld       \* the bridge holds a status back although the cart is back at the
                   \* one published last

Service == INSTANCE NavigationService
Bridge  == INSTANCE MqttBridge WITH nav_status <- status

serviceVars == <<session, navigations, follow, op_status, reconciled>>
relayVars   == <<listening, cmd_queue, last_nav_status, pending_nav_status>>
mqttVars    == <<cmd_topic, result_topic>>
topicVars   == <<nav_status_new, target_poses, cancels, follow_mode>>
courseVars  == <<commands, outages, lost, cancelled, forgotten, misled>>
tagVars     == <<about, held, told, overheld>>
historyVars == <<courseVars, tagVars, overtaken, asked_by>>

missionVars == <<serviceVars, relayVars, mqttVars, topicVars, nav2Vars, clientVars,
                   historyVars>>

MissionInit ==
    /\ Service!ServiceInit /\ Bridge!BridgeInit /\ Init
    /\ commands = 0 /\ outages = 0 /\ lost = FALSE
    /\ cancelled = {} /\ overtaken = {} /\ forgotten = {} /\ misled = {}
    /\ asked_by = [g \in Goals |-> NoNavigation]
    /\ about = NoNavigation /\ held = NoNavigation /\ told = << >> /\ overheld = FALSE

\* Nothing is under way between the frontend and the cart.
Settled ==
    /\ cmd_topic = << >> /\ cmd_queue = << >>
    /\ target_poses = << >> /\ cancels = 0 /\ follow_mode = "NONE"
    /\ requests = << >> /\ replies = << >>
    /\ ~nav_status_new /\ pending_nav_status = "NONE" /\ result_topic = << >>

-----------------------------------------------------------------------------
FrontendRequest ==
    /\ commands < MaxCommands /\ commands' = commands + 1
    /\ Service!Request
    /\ lost' = (lost \/ ~listening)
    /\ cancelled' = cancelled \cup IF session' = NoNavigation THEN {session} \ {NoNavigation}
                                  ELSE {}
    /\ UNCHANGED <<cmd_queue, last_nav_status, pending_nav_status, topicVars, nav2Vars,
                   clientVars, outages, forgotten, misled, tagVars, overtaken, asked_by>>

BackendReceives ==
    /\ Service!ApplyNavResult
    /\ told' = Tail(told)
    /\ misled' = misled \cup IF session' = session THEN {} ELSE {session} \ {Head(told)}
    /\ UNCHANGED <<cmd_queue, last_nav_status, pending_nav_status, topicVars, nav2Vars,
                   clientVars, commands, outages, lost, cancelled, forgotten, about, held,
                   overheld, overtaken, asked_by>>

Outage == outages < MaxOutages /\ outages' = outages + 1

BackendRestarts ==
    /\ Outage
    /\ Service!Restart
    /\ told' = << >>
    /\ forgotten' = forgotten \cup ({session} \ {NoNavigation})
    /\ UNCHANGED <<cmd_queue, last_nav_status, pending_nav_status, topicVars, nav2Vars,
                   clientVars, commands, lost, cancelled, misled, about, held, overheld,
                   overtaken, asked_by>>

BackendReconciles ==
    /\ Service!Reconcile
    /\ UNCHANGED <<cmd_queue, last_nav_status, pending_nav_status, topicVars,
                   nav2Vars, clientVars, historyVars>>

ConnectionBreaks ==
    /\ Outage
    /\ Bridge!Disconnect
    /\ lost' = (lost \/ cmd_topic # << >>)
    /\ UNCHANGED <<serviceVars, nav2Vars, clientVars, commands, cancelled, forgotten,
                   misled, tagVars, overtaken, asked_by>>

\* A status about n is published or held.
HandedOn(n) ==
    /\ told' = IF result_topic' = result_topic THEN told ELSE Append(told, n)
    /\ held' = IF pending_nav_status' = "NONE" THEN NoNavigation ELSE n

NavStatusTaken ==
    /\ Bridge!OnNavStatus
    /\ IF status = last_nav_status THEN UNCHANGED <<told, held>> ELSE HandedOn(about)
    /\ overheld' = (status = last_nav_status /\ pending_nav_status # "NONE")

QueueDrained == Bridge!DrainCmdQueue /\ HandedOn(held) /\ UNCHANGED overheld

BridgeStep ==
    /\ \/ (Bridge!Connect \/ Bridge!OnMqttMessage) /\ UNCHANGED <<told, held, overheld>>
       \/ Len(result_topic) < MaxResults /\ (NavStatusTaken \/ QueueDrained)
    /\ UNCHANGED <<serviceVars, nav2Vars, clientVars, courseVars, about, overtaken, asked_by>>

-----------------------------------------------------------------------------
(* The goal forwarder reads its topics in any order. *)

\* _set_status publishes a change; a depth of 1 keeps only the latest.
StatusPublished(n) ==
    /\ nav_status_new' = (nav_status_new \/ status' # status)
    /\ about' = IF status' = status THEN about ELSE n

Others == UNCHANGED <<serviceVars, relayVars, mqttVars, courseVars, held, told, overheld>>

NavigationOf(g) == IF g \in Goals THEN asked_by[g] ELSE NoNavigation

PoseDelivered ==
    /\ target_poses # << >> /\ target_poses' = Tail(target_poses)
    /\ TargetPose
    /\ asked_by' = IF sent' = sent THEN asked_by
                   ELSE [asked_by EXCEPT ![sent'] = Head(target_poses).requestId]
    /\ StatusPublished(Head(target_poses).requestId) /\ Others
    /\ UNCHANGED <<cancels, follow_mode, overtaken>>

CancelUnderWay ==
    \/ cancels > 0
    \/ \E i \in DOMAIN cmd_queue : cmd_queue[i].command = "CANCEL"
    \/ \E i \in DOMAIN cmd_topic : cmd_topic[i].command = "CANCEL"

CancelDelivered ==
    /\ cancels > 0 /\ cancels' = cancels - 1
    /\ Cancel
    /\ StatusPublished(NoNavigation) /\ Others
    /\ overtaken' = overtaken \cup
         {n \in cancelled : /\ ~CancelUnderWay'
                            /\ \E i \in DOMAIN target_poses : target_poses[i].requestId = n}
    /\ UNCHANGED <<target_poses, follow_mode, asked_by>>

FollowModeDelivered ==
    /\ follow_mode # "NONE" /\ follow_mode' = "NONE"
    /\ IF follow_mode = "FOLLOW_START"
       THEN FollowStart ELSE FollowStop
    /\ StatusPublished(NoNavigation) /\ Others
    /\ UNCHANGED <<target_poses, cancels, overtaken, asked_by>>

\* The person follower, a timer or an answer of Nav2 calls the node.
ForwarderStep ==
    /\ \/ (\E moved \in BOOLEAN : TargetPoint(moved)) /\ StatusPublished(NoNavigation)
       \/ /\ GoalAccepted \/ GoalRejected \/ GoalResult
          /\ StatusPublished(NavigationOf(Head(replies).goal))
       \/ CheckServer /\ StatusPublished(NavigationOf(active))
       \/ IntervalPasses /\ StatusPublished(NoNavigation)
    /\ Others
    /\ UNCHANGED <<target_poses, cancels, follow_mode, overtaken, asked_by>>

Nav2Moves ==
    /\ Nav2Step
    /\ IF Crash \/ Deactivate THEN Outage ELSE UNCHANGED outages
    /\ UNCHANGED <<serviceVars, relayVars, mqttVars, topicVars, clientVars, commands, lost,
                   cancelled, forgotten, misled, tagVars, overtaken, asked_by>>

Delivery == PoseDelivered \/ CancelDelivered \/ FollowModeDelivered

MissionNext == FrontendRequest \/ BackendReceives \/ BackendRestarts
          \/ BackendReconciles \/ ConnectionBreaks \/ BridgeStep
          \/ Delivery \/ ForwarderStep \/ Nav2Moves

MissionSpec == MissionInit /\ [][MissionNext]_missionVars

-----------------------------------------------------------------------------
(* Properties. *)

MissionTypeOK ==
    /\ Service!ServiceTypeOK /\ Bridge!BridgeTypeOK /\ TypeOK
    /\ {cancelled, overtaken, forgotten, misled} \subseteq SUBSET Navigations
    /\ asked_by \in [Goals -> Navigations \cup {NoNavigation}]
    /\ {about, held} \subseteq Navigations \cup {NoNavigation}
    /\ told \in Seq(Navigations \cup {NoNavigation}) /\ Len(told) = Len(result_topic)
    /\ overheld \in BOOLEAN

\* The backend knows of every move the cart is on: while the cart drives to the
\* goal of a navigation that nobody has cancelled, that navigation is the session,
\* or a restart has wiped it out, or a status about another drive has ended it
\* (completeFromCart asks no status what it is about).  A status about the drive
\* itself, on whatever topic, queue or hold, ends the session only when the drive
\* is over.  Without a session no CANCEL is published, so the frontend could not
\* stop a drive the backend does not know of.
DriveHasSession ==
    running # 0 =>
        asked_by[running] \in {session, NoNavigation} \cup cancelled \cup forgotten \cup misled

\* The status in the database is not an orphan: once CartOperationStatusReconciler
\* has run, a cart is NAVIGATING or FOLLOWING only while there is a session for it.
\* An orphan made the backend refuse every further follow.
StatusHasSession ==
    reconciled =>
        /\ op_status = "NAVIGATING" => session # NoNavigation
        /\ op_status = "FOLLOWING" => follow # "NONE"

\* A CANCEL gets through every queue and topic behind its MOVE: once all has settled
\* and no command was dropped, the cart does not drive for a navigation that was
\* cancelled.  But for two: a move whose last CANCEL the forwarder took before the
\* MOVE, on another topic, and a goal that was sent while another had no response.
CancelReachesCart ==
    Settled /\ ~lost /\ running # 0 /\ running \notin crowded
        => asked_by[running] \notin cancelled \ overtaken

\* Once all is delivered and no goal awaits its response, an end that the cart has
\* reported has ended the session.
EndsAreDelivered ==
    Settled /\ ~lost /\ ~goal_pending /\ status # "NAVIGATING"
        => session = NoNavigation

\* What was told to the backend last is the status of the cart, however often the
\* connection breaks, unless a status was held back when the cart returned to the
\* one published last.
StatusReachesBackend ==
    Settled /\ ~overheld => last_nav_status = status
=============================================================================
