------------------------ MODULE GoalForwarderProofs ------------------------
(* Theorems about GoalForwarder, for any number of goals, of goals without *)
(* a response and of messages under way.                                   *)
EXTENDS GoalForwarder, FiniteSetTheorems, TLAPS

IsGoal(i)     == i \in DOMAIN requests /\ requests[i].kind = "GOAL"
IsResponse(k) == k \in DOMAIN replies /\ replies[k].kind = "RESPONSE"
IsResult(k)   == k \in DOMAIN replies /\ replies[k].kind = "RESULT"

-----------------------------------------------------------------------------
(* Sequences of messages. *)

LEMMA Appended ==
    ASSUME NEW S, NEW s \in Seq(S), NEW e \in S
    PROVE  /\ Append(s, e) \in Seq(S) /\ Len(s) \in Nat
           /\ Len(Append(s, e)) = Len(s) + 1
           /\ DOMAIN s = 1 .. Len(s) /\ DOMAIN Append(s, e) = 1 .. Len(s) + 1
           /\ \A i \in 1 .. Len(s) : Append(s, e)[i] = s[i] /\ s[i] \in S
           /\ Append(s, e)[Len(s) + 1] = e
           /\ s \o <<e>> = Append(s, e) /\ s \o << >> = s
OBVIOUS

LEMMA Shortened ==
    ASSUME NEW S, NEW s \in Seq(S), s # << >>
    PROVE  /\ Tail(s) \in Seq(S) /\ Len(s) \in Nat \ {0}
           /\ DOMAIN s = 1 .. Len(s) /\ DOMAIN Tail(s) = 1 .. Len(s) - 1
           /\ \A i \in 1 .. Len(s) - 1 : Tail(s)[i] = s[i + 1]
           /\ Head(s) = s[1] /\ s[1] \in S
OBVIOUS

LEMMA MessageTypes ==
    /\ \A g \in Goals : /\ SendGoal(g) \in Request /\ CancelGoal(g) \in Request
                        /\ \A a \in Answers : Response(g, a) \in ReplyMsg
                        /\ \A o \in Outcomes : Result(g, o) \in ReplyMsg
    /\ \A m \in Request : m.goal \in Goals
    /\ \A m \in ReplyMsg : /\ m.goal \in Goals /\ m.kind \in {"RESPONSE", "RESULT"}
                           /\ m.kind = "RESULT" => m.says \in Outcomes
BY DEF SendGoal, CancelGoal, Response, Result, Request, ReplyMsg, Answers, Outcomes

-----------------------------------------------------------------------------
(* Types. *)

LEMMA TypeInit == Init => TypeOK
<1>1. 0 \in 0 .. MaxGoals /\ 0 \in 0 .. 0 /\ << >> \in Seq(Request) /\ << >> \in Seq(ReplyMsg)
  BY GoalAssumption
<1> QED BY <1>1 DEF Init, Nav2Init, TypeOK, Nav2TypeOK, Statuses

LEMMA GoalNumbers == Goals \subseteq Nat \ {0} /\ None \notin Goals /\ MaxGoals \in Nat
BY GoalAssumption DEF Goals, None

LEMMA ClientTypes ==
    ASSUME TypeOK, Subscriptions \/ Callbacks \/ IntervalPasses
    PROVE  TypeOK'
<1> USE DEF TypeOK, Nav2TypeOK
<1>1. CASE Forward /\ UNCHANGED follow_active
  <2>1. CASE server_is_ready
    <3>1. sent' \in Goals /\ sent' \in 0 .. MaxGoals /\ stopped_upto \in 0 .. sent'
      BY <1>1, <2>1, GoalNumbers DEF Forward, Goals
    <3>2. SendGoal(sent') \in Request
      BY <3>1, MessageTypes
    <3>3. requests' \in Seq(Request)
      BY <1>1, <2>1, <3>2 DEF Forward
    <3> QED BY <1>1, <2>1, <3>1, <3>3 DEF Forward
  <2>2. CASE ~server_is_ready
    BY <1>1, <2>2 DEF Forward, Statuses
  <2> QED BY <2>1, <2>2
<1>2. CASE CancelDrive /\ follow_active' \in BOOLEAN
  <2>1. requests' \in Seq(Request)
    <3>1. active \in Goals => CancelGoal(active) \in Request
      BY MessageTypes
    <3> QED BY <1>2, <3>1 DEF CancelDrive
  <2>2. sent \in 0 .. sent
    BY GoalNumbers
  <2> QED BY <1>2, <2>1, <2>2 DEF CancelDrive
<1>3. CASE FollowStart \/ IntervalPasses
  BY <1>3 DEF FollowStart, IntervalPasses, handleVars, nav2Vars
<1>4. CASE GoalAccepted \/ GoalRejected \/ GoalResult
  <2>1. /\ replies # << >> /\ replies' = Tail(replies)
        /\ UNCHANGED <<server, running, follow_active, recent, sent, stopped_upto, crowded>>
    BY <1>4 DEF GoalAccepted, GoalRejected, GoalResult, NextReply
  <2>2. /\ replies' \in Seq(ReplyMsg) /\ Head(replies).goal \in Goals
        /\ Head(replies).kind = "RESULT" => Head(replies).says \in Outcomes
    BY <2>1, MessageTypes
  <2>3. /\ requests' \in Seq(Request) /\ status' \in Statuses /\ active' \in Goals \cup {None}
        /\ goal_pending' \in BOOLEAN /\ cancel_requested' \in BOOLEAN
    <3>1. CASE GoalAccepted
      <4>1. active' \in Goals
        BY <2>2, <3>1 DEF GoalAccepted
      <4>2. CancelGoal(active') \in Request
        BY <4>1, MessageTypes
      <4>3. requests' \in Seq(Request)
        BY <3>1, <4>2 DEF GoalAccepted
      <4> QED BY <3>1, <4>1, <4>3 DEF GoalAccepted, Statuses
    <3>2. CASE GoalRejected
      BY <3>2 DEF GoalRejected, Statuses
    <3>3. CASE GoalResult
      BY <2>2, <3>3 DEF GoalResult, NextReply, Statuses
    <3> QED BY <1>4, <3>1, <3>2, <3>3
  <2> QED BY <2>1, <2>2, <2>3
<1>5. CASE CheckServer
  BY <1>5 DEF CheckServer, nav2Vars, Statuses
<1>6. ASSUME Subscriptions PROVE (Forward /\ UNCHANGED follow_active)
                                 \/ (CancelDrive /\ follow_active' \in BOOLEAN) \/ FollowStart
  BY <1>6 DEF Subscriptions, TargetPose, TargetPoint, Forward, Cancel, FollowStop
<1> QED BY <1>1, <1>2, <1>3, <1>4, <1>5, <1>6 DEF Callbacks

LEMMA Nav2Types ==
    ASSUME TypeOK, Nav2Step, UNCHANGED clientVars
    PROVE  TypeOK'
<1> SUFFICES Nav2TypeOK'
  BY DEF TypeOK, clientVars, handleVars
<1> USE DEF TypeOK, Nav2TypeOK
<1>1. \A out \in Outcomes : replies \o Ended(out) \in Seq(ReplyMsg)
  <2> SUFFICES ASSUME NEW out \in Outcomes PROVE replies \o Ended(out) \in Seq(ReplyMsg)
    OBVIOUS
  <2>1. running # None => Result(running, out) \in ReplyMsg
    BY MessageTypes
  <2> QED BY <2>1 DEF Ended
<1>2. ASSUME NEW kind, Next_Request(kind)
      PROVE  /\ requests' \in Seq(Request) /\ Head(requests).goal \in Goals
             /\ server' \in {"ACTIVE", "INACTIVE", "GONE"}
  BY <1>2, MessageTypes DEF Next_Request
<1>3. CASE Accept
  <2>1. requests' \in Seq(Request) /\ running' \in Goals
    BY <1>2, <1>3 DEF Accept
  <2>2. Response(running', "ACCEPTED") \in ReplyMsg
    BY <2>1, MessageTypes DEF Answers
  <2>3. Ended("ABORTED") \in Seq(ReplyMsg)
    <3>1. running # None => Result(running, "ABORTED") \in ReplyMsg
      BY MessageTypes DEF Outcomes
    <3> QED BY <3>1 DEF Ended
  <2>4. replies' \in Seq(ReplyMsg)
    BY <1>3, <2>2, <2>3 DEF Accept
  <2> QED BY <1>2, <1>3, <2>1, <2>4 DEF Accept
<1>4. CASE Reject
  <2>1. Response(Head(requests).goal, "REJECTED") \in ReplyMsg
    BY <1>2, <1>4, MessageTypes DEF Reject, Answers
  <2> QED BY <1>2, <1>4, <2>1 DEF Reject
<1>5. CASE HandleCancel
  BY <1>1, <1>2, <1>5 DEF HandleCancel, Outcomes
<1>6. ASSUME NEW out \in {"SUCCEEDED", "ABORTED"}, Finish(out) PROVE Nav2TypeOK'
  BY <1>1, <1>6 DEF Finish, Outcomes
<1>7. CASE Lifecycle
  <2>1. CASE Activate \/ Start
    BY <2>1 DEF Activate, Start
  <2>2. CASE Deactivate
    BY <1>1, <2>2 DEF Deactivate, Outcomes
  <2>3. CASE Crash
    BY <2>3 DEF Crash
  <2> QED BY <1>7, <2>1, <2>2, <2>3 DEF Lifecycle
<1> QED BY <1>3, <1>4, <1>5, <1>6, <1>7 DEF Nav2Step, Answer

\* The steps of the node and of Nav2, whatever is under way: those of Next, and of any
\* system that the two are part of.
Step == Subscriptions \/ Callbacks \/ IntervalPasses \/ (Nav2Step /\ UNCHANGED clientVars)

LEMMA NextIsStep == [Next]_vars => [Step]_vars
BY DEF Next, Commands, Step

LEMMA TypeStep == TypeOK /\ [Step]_vars => TypeOK'
<1> SUFFICES ASSUME TypeOK, [Step]_vars PROVE TypeOK'
  OBVIOUS
<1>1. CASE UNCHANGED vars
  BY <1>1 DEF TypeOK, Nav2TypeOK, vars, nav2Vars, clientVars, handleVars
<1> QED BY <1>1, ClientTypes, Nav2Types DEF Step

\* Every variable of the node and of Nav2 keeps its type (goal_forwarder.py): statuses are
\* those of the code, and no cancel is remembered for a goal that has not been sent.
THEOREM TypeCorrect == Spec => []TypeOK
BY TypeInit, TypeStep, NextIsStep, PTL DEF Spec

-----------------------------------------------------------------------------
(* What is driven is reported. *)

\* Goals are handled in the order of their numbers: one that waits is newer than the
\* one that runs, than all that were answered, and than those before it.
Numbered ==
    /\ running <= sent
    /\ \A k \in DOMAIN replies : replies[k].goal <= sent
    /\ \A i \in DOMAIN requests : IsGoal(i) =>
         /\ requests[i].goal <= sent /\ running < requests[i].goal
         /\ \A k \in DOMAIN replies : replies[k].goal < requests[i].goal
         /\ \A j \in DOMAIN requests : IsGoal(j) /\ i < j => requests[i].goal < requests[j].goal

\* The node holds the goal that runs, or will when it has taken the last response.
Held ==
    /\ active = running /\ status = "NAVIGATING"
    /\ \A k \in DOMAIN replies : replies[k].kind = "RESULT"

LastResponse(k) ==
    /\ k \in DOMAIN replies /\ replies[k].kind = "RESPONSE"
    /\ replies[k].goal = running /\ replies[k].says = "ACCEPTED"
    /\ \A j \in DOMAIN replies : k < j => replies[j].kind = "RESULT"

Reported ==
    running # None =>
        /\ server = "ACTIVE"
        /\ \A k \in DOMAIN replies : replies[k].kind = "RESULT" => replies[k].goal # running
        /\ Held \/ \E k \in DOMAIN replies : LastResponse(k)

DriveInv == TypeOK /\ Numbered /\ Reported

\* What the sequences and numbers of a state are.
LEMMA Typed ==
    ASSUME TypeOK
    PROVE  /\ requests \in Seq(Request) /\ replies \in Seq(ReplyMsg)
           /\ DOMAIN requests = 1 .. Len(requests) /\ DOMAIN replies = 1 .. Len(replies)
           /\ Len(requests) \in Nat /\ Len(replies) \in Nat
           /\ running \in Nat /\ sent \in Nat /\ stopped_upto \in Nat /\ None = 0
           /\ \A i \in DOMAIN requests : requests[i].goal \in Nat \ {0}
           /\ \A k \in DOMAIN replies : /\ replies[k].goal \in Nat \ {0}
                                        /\ replies[k].kind \in {"RESPONSE", "RESULT"}
<1>1. /\ requests \in Seq(Request) /\ replies \in Seq(ReplyMsg)
      /\ running \in Nat /\ sent \in Nat /\ stopped_upto \in Nat /\ None = 0
  BY GoalNumbers DEF TypeOK, Nav2TypeOK, None
<1>2. /\ \A i \in DOMAIN requests : requests[i] \in Request
      /\ \A k \in DOMAIN replies : replies[k] \in ReplyMsg
  BY <1>1
<1>3. /\ DOMAIN requests = 1 .. Len(requests) /\ DOMAIN replies = 1 .. Len(replies)
      /\ Len(requests) \in Nat /\ Len(replies) \in Nat
  BY <1>1
<1>4. \A i \in DOMAIN requests : requests[i].goal \in Nat \ {0}
  BY <1>2, GoalNumbers, MessageTypes
<1>5. \A k \in DOMAIN replies : /\ replies[k].goal \in Nat \ {0}
                                /\ replies[k].kind \in {"RESPONSE", "RESULT"}
  BY <1>2, GoalNumbers, MessageTypes
<1> QED BY <1>1, <1>3, <1>4, <1>5

LEMMA DriveInit == Init => DriveInv
BY TypeInit DEF Init, Nav2Init, DriveInv, Numbered, Reported, None

\* A goal is sent, or Nav2 is gone and nothing runs.
LEMMA ForwardReports ==
    ASSUME DriveInv, Forward
    PROVE  Numbered' /\ Reported'
<1>1. /\ running' = running /\ replies' = replies /\ server' = server /\ active' = active
      /\ TypeOK
  BY DEF Forward, DriveInv
<1>2. CASE server_is_ready
  <2>1. /\ sent' = sent + 1 /\ requests' = Append(requests, SendGoal(sent')) /\ status' = status
        /\ SendGoal(sent').kind = "GOAL" /\ SendGoal(sent').goal = sent'
    BY <1>2 DEF Forward, SendGoal
  <2>2. SendGoal(sent') \in Request
    <3>1. sent' \in Goals
      BY <1>2, GoalNumbers DEF Forward, Goals, DriveInv, TypeOK
    <3> QED BY <3>1, MessageTypes
  <2>3. /\ DOMAIN requests' = 1 .. Len(requests) + 1
        /\ \A i \in 1 .. Len(requests) : requests'[i] = requests[i]
        /\ requests'[Len(requests) + 1] = SendGoal(sent')
    BY <1>1, <2>1, <2>2, Typed, Appended
  <2>4. Numbered'
    BY <1>1, <2>1, <2>3, Typed DEF DriveInv, Numbered, IsGoal
  <2>5. Reported'
    BY <1>1, <2>1 DEF DriveInv, Reported, Held, LastResponse
  <2> QED BY <2>4, <2>5
<1>3. CASE ~server_is_ready
  <2>1. running = None /\ UNCHANGED <<requests, sent>>
    BY <1>3 DEF Forward, DriveInv, Reported, server_is_ready
  <2>2. Numbered'
    BY <1>1, <2>1 DEF DriveInv, Numbered, IsGoal
  <2>3. Reported'
    BY <1>1, <2>1 DEF Reported
  <2> QED BY <2>2, <2>3
<1> QED BY <1>2, <1>3

\* A cancel is appended or not.
LEMMA CancelsKeepNumbers ==
    ASSUME DriveInv, NEW g \in Goals,
           requests' = requests \/ requests' = Append(requests, CancelGoal(g)),
           UNCHANGED <<running, sent>>,
           \A k \in DOMAIN replies' : \E j \in DOMAIN replies : replies'[k] = replies[j]
    PROVE  Numbered'
<1>1. /\ TypeOK /\ CancelGoal(g) \in Request /\ CancelGoal(g).kind = "CANCEL"
  BY MessageTypes DEF DriveInv, CancelGoal
<1>2. CASE requests' = requests
  BY <1>1, <1>2, Typed DEF DriveInv, Numbered, IsGoal
<1>3. CASE requests' = Append(requests, CancelGoal(g))
  <2>1. /\ DOMAIN requests' = 1 .. Len(requests) + 1
        /\ \A i \in 1 .. Len(requests) : requests'[i] = requests[i]
        /\ requests'[Len(requests) + 1] = CancelGoal(g)
    BY <1>1, <1>3, Typed, Appended
  <2>2. ASSUME NEW i \in DOMAIN requests', requests'[i].kind = "GOAL"
        PROVE  i \in 1 .. Len(requests) /\ i \in DOMAIN requests /\ IsGoal(i)
                 /\ requests'[i] = requests[i]
    BY <1>1, <2>1, <2>2, Typed DEF IsGoal
  <2>3. \A k \in DOMAIN replies' : replies'[k].goal <= sent'
    BY DEF DriveInv, Numbered
  <2>4. ASSUME NEW i \in DOMAIN requests', requests'[i].kind = "GOAL"
        PROVE  /\ requests'[i].goal <= sent' /\ running' < requests'[i].goal
               /\ \A k \in DOMAIN replies' : replies'[k].goal < requests'[i].goal
               /\ \A j \in DOMAIN requests' : requests'[j].kind = "GOAL" /\ i < j
                                              => requests'[i].goal < requests'[j].goal
    BY <2>2, <2>4 DEF DriveInv, Numbered
  <2> QED BY <2>3, <2>4 DEF DriveInv, Numbered, IsGoal
<1> QED BY <1>2, <1>3

LEMMA CancelReports ==
    ASSUME DriveInv, CancelDrive
    PROVE  Numbered' /\ Reported'
<1>1. /\ UNCHANGED <<server, running, replies, status, active, sent>>
      /\ requests' = requests \/ (active \in Goals /\ requests' = Append(requests, CancelGoal(active)))
  BY DEF CancelDrive, DriveInv, TypeOK
<1>2. Numbered'
  <2>1. CASE requests' = requests
    BY <1>1, <2>1 DEF DriveInv, Numbered, IsGoal
  <2>2. CASE active \in Goals /\ requests' = Append(requests, CancelGoal(active))
    <3>1. \A k \in DOMAIN replies' : \E j \in DOMAIN replies : replies'[k] = replies[j]
      BY <1>1
    <3> QED BY <1>1, <2>2, <3>1, CancelsKeepNumbers
  <2> QED BY <1>1, <2>1, <2>2
<1>3. Reported'
  BY <1>1 DEF DriveInv, Reported, Held, LastResponse
<1> QED BY <1>2, <1>3

\* The oldest reply is taken: what is left, and the numbers.
LEMMA ReplyTaken ==
    ASSUME DriveInv, NEW kind, NextReply(kind)
    PROVE  /\ 1 \in DOMAIN replies /\ replies[1] = Head(replies) /\ Head(replies).kind = kind
           /\ Head(replies).goal \in Goals
           /\ DOMAIN replies' = 1 .. Len(replies) - 1
           /\ \A k \in DOMAIN replies' : k + 1 \in DOMAIN replies /\ replies'[k] = replies[k + 1]
           /\ \A k \in DOMAIN replies : k = 1 \/ (k - 1 \in DOMAIN replies' /\ replies'[k - 1] = replies[k])
           /\ UNCHANGED <<server, running, sent>>
           /\ \A k \in DOMAIN replies' : \E j \in DOMAIN replies : replies'[k] = replies[j]
<1>1. /\ replies \in Seq(ReplyMsg) /\ replies # << >> /\ replies' = Tail(replies)
      /\ Head(replies).kind = kind /\ UNCHANGED <<server, running, sent>>
  BY DEF NextReply, DriveInv, TypeOK, Nav2TypeOK
<1>2. /\ Len(replies) \in Nat \ {0} /\ Head(replies) = replies[1] /\ replies[1] \in ReplyMsg
      /\ DOMAIN replies = 1 .. Len(replies) /\ DOMAIN replies' = 1 .. Len(replies) - 1
      /\ \A k \in 1 .. Len(replies) - 1 : replies'[k] = replies[k + 1]
  BY <1>1, Shortened
<1>3. \A k \in DOMAIN replies' : k + 1 \in DOMAIN replies /\ replies'[k] = replies[k + 1]
  BY <1>2
<1>4. \A k \in DOMAIN replies : k = 1 \/ (k - 1 \in DOMAIN replies' /\ replies'[k - 1] = replies[k])
  BY <1>2
<1>5. \A k \in DOMAIN replies' : \E j \in DOMAIN replies : replies'[k] = replies[j]
  BY <1>3
<1> QED BY <1>1, <1>2, <1>3, <1>4, <1>5, MessageTypes

\* Behind the last response there are results only.
LEMMA StillLast ==
    ASSUME DriveInv, NEW kind, NextReply(kind), NEW k \in DOMAIN replies, LastResponse(k), k # 1
    PROVE  \E j \in DOMAIN replies' : LastResponse(j)'
<1>1. k \in Nat /\ k - 1 \in DOMAIN replies' /\ replies'[k - 1] = replies[k] /\ running' = running
      /\ \A j \in DOMAIN replies' : j + 1 \in DOMAIN replies /\ replies'[j] = replies[j + 1] /\ j \in Nat
  BY ReplyTaken, Typed DEF DriveInv
<1>2. \A j \in DOMAIN replies' : k - 1 < j => replies'[j].kind = "RESULT"
  BY <1>1 DEF LastResponse
<1> QED BY <1>1, <1>2 DEF LastResponse

LEMMA AcceptedReports ==
    ASSUME DriveInv, GoalAccepted
    PROVE  Numbered' /\ Reported'
<1>1. /\ NextReply("RESPONSE") /\ active' = Head(replies).goal /\ status' = "NAVIGATING"
      /\ requests' = requests \/ requests' = Append(requests, CancelGoal(active'))
  BY DEF GoalAccepted
<1>2. active' \in Goals /\ server' = server /\ running' = running /\ sent' = sent
  BY <1>1, ReplyTaken
<1>3. Numbered'
  BY <1>1, <1>2, ReplyTaken, CancelsKeepNumbers
<1>4. ASSUME running # None PROVE Held' \/ \E k \in DOMAIN replies' : LastResponse(k)'
  <2>1. PICK k \in DOMAIN replies : LastResponse(k)
    BY <1>1, <1>4, ReplyTaken DEF DriveInv, Reported, Held
  <2>2. CASE k = 1
    <3>1. active' = running /\ \A j \in DOMAIN replies' : replies'[j].kind = "RESULT"
      BY <1>1, <2>1, <2>2, ReplyTaken, Typed DEF LastResponse, DriveInv
    <3> QED BY <1>1, <1>2, <3>1 DEF Held
  <2>3. CASE k # 1
    BY <1>1, <2>1, <2>3, StillLast
  <2> QED BY <2>2, <2>3
<1>5. Reported'
  BY <1>1, <1>2, <1>4, ReplyTaken DEF DriveInv, Reported
<1> QED BY <1>3, <1>5

\* A reply that is not the response of the goal that runs leaves the report as it is.
LEMMA OtherReplyReports ==
    ASSUME DriveInv, NEW kind, NextReply(kind),
           running # None /\ LastResponse(1) => kind = "RESULT",
           requests' = requests,
           kind = "RESULT" => \/ UNCHANGED <<active, status>>
                              \/ Head(replies).goal = active
    PROVE  Numbered' /\ Reported'
<1>1. UNCHANGED <<server, running, sent>>
  BY ReplyTaken
<1>2. Numbered'
  BY <1>1, ReplyTaken, Typed DEF DriveInv, Numbered, IsGoal
<1>3. ASSUME running # None PROVE Held' \/ \E k \in DOMAIN replies' : LastResponse(k)'
  <2>1. CASE Held
    <3>1. kind = "RESULT" /\ Head(replies).goal # running
      BY <1>3, <2>1, ReplyTaken DEF DriveInv, Reported, Held
    <3>2. UNCHANGED <<active, status>>
      BY <2>1, <3>1 DEF Held
    <3> QED BY <1>1, <2>1, <3>2, ReplyTaken DEF Held
  <2>2. CASE \E k \in DOMAIN replies : LastResponse(k)
    <3>1. PICK k \in DOMAIN replies : LastResponse(k)
      BY <2>2
    <3>2. k # 1
      BY <1>3, <3>1, ReplyTaken DEF LastResponse
    <3> QED BY <3>1, <3>2, StillLast
  <2> QED BY <1>3, <2>1, <2>2 DEF DriveInv, Reported
<1>4. Reported'
  BY <1>1, <1>3, ReplyTaken DEF DriveInv, Reported
<1> QED BY <1>2, <1>4

LEMMA OtherRepliesReport ==
    ASSUME DriveInv, GoalRejected \/ GoalResult
    PROVE  Numbered' /\ Reported'
<1>1. CASE GoalRejected
  <2>1. NextReply("RESPONSE") /\ Head(replies).says = "REJECTED" /\ requests' = requests
    BY <1>1 DEF GoalRejected
  <2>2. ~LastResponse(1)
    BY <2>1, ReplyTaken DEF LastResponse
  <2> QED BY <2>1, <2>2, OtherReplyReports
<1>2. CASE GoalResult
  <2>1. /\ NextReply("RESULT") /\ requests' = requests
        /\ UNCHANGED <<active, status>> \/ Head(replies).goal = active
    BY <1>2 DEF GoalResult
  <2> QED BY <2>1, OtherReplyReports
<1> QED BY <1>1, <1>2

\* What Nav2 takes from the requests.
LEMMA RequestTaken ==
    ASSUME DriveInv, NEW kind, Next_Request(kind)
    PROVE  /\ 1 \in DOMAIN requests /\ requests[1] = Head(requests)
           /\ Head(requests).kind = kind /\ Head(requests).goal \in Goals
           /\ \A i \in DOMAIN requests' : /\ i \in Nat /\ i + 1 \in DOMAIN requests /\ 1 < i + 1
                                          /\ requests'[i] = requests[i + 1]
           /\ server' = server /\ server_is_ready
<1>1. /\ requests \in Seq(Request) /\ requests # << >> /\ requests' = Tail(requests)
      /\ Head(requests).kind = kind /\ server' = server /\ server_is_ready
  BY DEF Next_Request, DriveInv, TypeOK, Nav2TypeOK
<1>2. /\ Len(requests) \in Nat \ {0} /\ Head(requests) = requests[1] /\ requests[1] \in Request
      /\ DOMAIN requests = 1 .. Len(requests) /\ DOMAIN requests' = 1 .. Len(requests) - 1
      /\ \A i \in 1 .. Len(requests) - 1 : requests'[i] = requests[i + 1]
  BY <1>1, Shortened
<1>3. \A i \in DOMAIN requests' : /\ i \in Nat /\ i + 1 \in DOMAIN requests /\ 1 < i + 1
                                  /\ requests'[i] = requests[i + 1]
  BY <1>2
<1> QED BY <1>1, <1>2, <1>3, MessageTypes

\* What is added to the replies names a goal up to g, and older replies stay.
Answered(g) ==
    \A k \in DOMAIN replies' : \/ k \in DOMAIN replies /\ replies'[k] = replies[k]
                               \/ replies'[k].goal \in Nat /\ replies'[k].goal <= g

\* Requests are taken, and goals up to g answered.
LEMMA AnswersKeepNumbers ==
    ASSUME DriveInv, sent' = sent, NEW g \in Nat, g <= sent, Answered(g),
           running' \in {running, g, None},
           \/ requests' = requests
           \/ \A i \in DOMAIN requests' : /\ i \in Nat /\ i + 1 \in DOMAIN requests /\ 1 < i + 1
                                          /\ requests'[i] = requests[i + 1],
           \A i \in DOMAIN requests' : requests'[i].kind = "GOAL" => g < requests'[i].goal
    PROVE  Numbered'
<1>1. /\ running' <= sent'
      /\ \A k \in DOMAIN replies' : replies'[k].goal <= sent'
  BY Typed DEF DriveInv, Numbered, Answered
<1>2. ASSUME NEW i \in DOMAIN requests', requests'[i].kind = "GOAL"
      PROVE  /\ requests'[i].goal <= sent' /\ running' < requests'[i].goal
             /\ \A k \in DOMAIN replies' : replies'[k].goal < requests'[i].goal
  <2>1. PICK o \in DOMAIN requests : requests'[i] = requests[o] /\ IsGoal(o)
    BY <1>2 DEF IsGoal
  <2>2. /\ requests[o].goal <= sent /\ running < requests[o].goal /\ requests[o].goal \in Nat \ {0}
        /\ \A k \in DOMAIN replies : replies[k].goal < requests[o].goal
    BY <2>1, Typed DEF DriveInv, Numbered
  <2> QED BY <1>2, <2>1, <2>2, Typed DEF DriveInv, Answered
<1>3. ASSUME NEW i \in DOMAIN requests', requests'[i].kind = "GOAL",
             NEW j \in DOMAIN requests', requests'[j].kind = "GOAL", i < j
      PROVE  requests'[i].goal < requests'[j].goal
  <2>1. CASE requests' = requests
    BY <1>3, <2>1 DEF DriveInv, Numbered, IsGoal
  <2>2. CASE \A n \in DOMAIN requests' : /\ n \in Nat /\ n + 1 \in DOMAIN requests /\ 1 < n + 1
                                         /\ requests'[n] = requests[n + 1]
    <3>1. /\ i + 1 \in DOMAIN requests /\ requests'[i] = requests[i + 1]
          /\ j + 1 \in DOMAIN requests /\ requests'[j] = requests[j + 1]
      BY <1>3, <2>2
    <3>2. IsGoal(i + 1) /\ IsGoal(j + 1) /\ i + 1 < j + 1
      <4>1. i \in Nat /\ j \in Nat
        BY <1>3, <2>2
      <4> QED BY <1>3, <3>1, <4>1 DEF IsGoal
    <3> QED BY <3>1, <3>2 DEF DriveInv, Numbered
  <2> QED BY <2>1, <2>2
<1> QED BY <1>1, <1>2, <1>3 DEF Numbered, IsGoal

\* A goal that ends adds its result, if there is one.
LEMMA EndedReplies ==
    ASSUME DriveInv, NEW out \in Outcomes, replies' = replies \o Ended(out)
    PROVE  Answered(running)
<1>1. CASE running = None
  <2>1. replies' = replies
    BY <1>1, Typed, Appended DEF Ended, DriveInv
  <2> QED BY <2>1 DEF Answered
<1>2. CASE running # None
  <2>1. Result(running, out) \in ReplyMsg /\ Result(running, out).goal = running
    BY <1>2, MessageTypes DEF DriveInv, TypeOK, Nav2TypeOK, Result
  <2>2. replies' = Append(replies, Result(running, out))
    BY <1>2, <2>1, Typed, Appended DEF Ended, DriveInv
  <2>3. /\ DOMAIN replies' = 1 .. Len(replies) + 1 /\ DOMAIN replies = 1 .. Len(replies)
        /\ \A k \in 1 .. Len(replies) : replies'[k] = replies[k]
        /\ replies'[Len(replies) + 1] = Result(running, out)
    BY <2>1, <2>2, Typed, Appended DEF DriveInv
  <2> QED BY <2>1, <2>3, Typed DEF Answered, DriveInv
<1> QED BY <1>1, <1>2

\* The goal that is accepted is newer than all that Nav2 and the node know, and its
\* response is the last one.
LEMMA AcceptReports ==
    ASSUME DriveInv, Accept, UNCHANGED clientVars
    PROVE  Numbered' /\ Reported'
<1> DEFINE g == Head(requests).goal
           n == Len(replies)
<1>1. /\ server = "ACTIVE" /\ server' = server /\ running' = g /\ g \in Goals /\ sent' = sent
      /\ replies' = Append(replies, Response(g, "ACCEPTED")) \o Ended("ABORTED")
      /\ requests[1].goal = g /\ IsGoal(1) /\ 1 \in DOMAIN requests
      /\ \A i \in DOMAIN requests' : /\ i \in Nat /\ i + 1 \in DOMAIN requests /\ 1 < i + 1
                                     /\ requests'[i] = requests[i + 1]
  BY RequestTaken DEF Accept, clientVars, IsGoal
<1>2. /\ g \in Nat /\ g <= sent /\ running < g /\ n \in Nat
      /\ \A k \in DOMAIN replies : replies[k].goal < g
      /\ \A i \in DOMAIN requests' : requests'[i].kind = "GOAL" => g < requests'[i].goal
  BY <1>1, Typed, GoalNumbers DEF DriveInv, Numbered, IsGoal
<1>3. /\ \A k \in 1 .. n : k \in DOMAIN replies /\ replies'[k] = replies[k]
      /\ n + 1 \in DOMAIN replies' /\ replies'[n + 1] = Response(g, "ACCEPTED")
      /\ DOMAIN replies = 1 .. n
      /\ \A k \in DOMAIN replies' : \/ k \in 1 .. n \/ k = n + 1
                                    \/ /\ k = n + 2 /\ replies'[k].kind = "RESULT"
                                       /\ replies'[k].goal = running
  <2> DEFINE r == Append(replies, Response(g, "ACCEPTED"))
  <2>1. Response(g, "ACCEPTED") \in ReplyMsg /\ replies \in Seq(ReplyMsg)
    BY <1>1, MessageTypes, Typed DEF Answers, DriveInv
  <2>2. /\ r \in Seq(ReplyMsg) /\ Len(r) = n + 1 /\ DOMAIN r = 1 .. n + 1 /\ DOMAIN replies = 1 .. n
        /\ \A k \in 1 .. n : r[k] = replies[k]
        /\ r[n + 1] = Response(g, "ACCEPTED")
    BY <2>1, Appended
  <2>3. CASE running = None
    <3>1. replies' = r
      BY <1>1, <2>2, <2>3, Appended DEF Ended
    <3> QED BY <1>2, <2>2, <3>1
  <2>4. CASE running # None
    <3>1. /\ Result(running, "ABORTED") \in ReplyMsg
          /\ Result(running, "ABORTED").goal = running
          /\ Result(running, "ABORTED").kind = "RESULT"
      BY <2>4, MessageTypes DEF DriveInv, TypeOK, Nav2TypeOK, Result, Outcomes
    <3>2. replies' = Append(r, Result(running, "ABORTED"))
      BY <1>1, <2>2, <2>4, <3>1, Appended DEF Ended
    <3>3. /\ DOMAIN replies' = 1 .. n + 2
          /\ \A k \in 1 .. n + 1 : replies'[k] = r[k]
          /\ replies'[n + 2] = Result(running, "ABORTED")
      BY <1>2, <2>2, <3>1, <3>2, Appended
    <3> QED BY <1>2, <2>2, <3>1, <3>3
  <2> QED BY <2>3, <2>4
<1>4. Response(g, "ACCEPTED").goal = g /\ Response(g, "ACCEPTED").kind = "RESPONSE"
        /\ Response(g, "ACCEPTED").says = "ACCEPTED"
  BY DEF Response
<1>5. Answered(g)
  BY <1>2, <1>3, <1>4, Typed DEF Answered, DriveInv
<1>6. Numbered'
  BY <1>1, <1>2, <1>5, AnswersKeepNumbers
<1>7. \A k \in DOMAIN replies' : replies'[k].kind = "RESULT" => replies'[k].goal # g
  BY <1>2, <1>3, <1>4, Typed DEF DriveInv
<1>8. \E k \in DOMAIN replies' : LastResponse(k)'
  <2>1. PICK m \in Nat : m = n
    BY <1>2
  <2>2. \A j \in DOMAIN replies' : m + 1 < j => replies'[j].kind = "RESULT"
    BY <1>3, <2>1
  <2>3. m + 1 \in DOMAIN replies' /\ replies'[m + 1] = Response(g, "ACCEPTED") /\ running' = g
    BY <1>1, <1>3, <2>1
  <2>4. LastResponse(m + 1)'
    BY <1>4, <2>2, <2>3 DEF LastResponse
  <2> QED BY <2>3, <2>4
<1>9. Reported'
  BY <1>1, <1>3, <1>7, <1>8 DEF Reported
<1> QED BY <1>6, <1>9

LEMMA RejectReports ==
    ASSUME DriveInv, Reject, UNCHANGED clientVars
    PROVE  Numbered' /\ Reported'
<1> DEFINE g == Head(requests).goal
           n == Len(replies)
<1>1. /\ running = None /\ running' = None /\ g \in Goals /\ sent' = sent
      /\ replies' = Append(replies, Response(g, "REJECTED"))
      /\ requests[1].goal = g /\ IsGoal(1) /\ 1 \in DOMAIN requests
      /\ \A i \in DOMAIN requests' : /\ i \in Nat /\ i + 1 \in DOMAIN requests /\ 1 < i + 1
                                     /\ requests'[i] = requests[i + 1]
  BY RequestTaken DEF Reject, clientVars, IsGoal, DriveInv, Reported
<1>2. /\ g \in Nat /\ g <= sent /\ n \in Nat
      /\ \A i \in DOMAIN requests' : requests'[i].kind = "GOAL" => g < requests'[i].goal
  BY <1>1, Typed, GoalNumbers DEF DriveInv, Numbered, IsGoal
<1>3. Response(g, "REJECTED") \in ReplyMsg /\ Response(g, "REJECTED").goal = g
  BY <1>1, MessageTypes DEF Answers, Response
<1>4. /\ DOMAIN replies' = 1 .. n + 1 /\ DOMAIN replies = 1 .. n
      /\ \A k \in 1 .. n : replies'[k] = replies[k]
      /\ replies'[n + 1] = Response(g, "REJECTED")
  BY <1>1, <1>3, Typed, Appended DEF DriveInv
<1>5. Answered(g)
  BY <1>2, <1>3, <1>4, Typed DEF Answered, DriveInv
<1>6. Numbered'
  BY <1>1, <1>2, <1>5, AnswersKeepNumbers
<1> QED BY <1>1, <1>6 DEF Reported

\* The goal that runs ends, and nothing else.
LEMMA EndReports ==
    ASSUME DriveInv, UNCHANGED clientVars, NEW out \in Outcomes,
           replies' = replies \o Ended(out), running' = None, requests' = requests
    PROVE  Numbered' /\ Reported'
<1>1. Answered(running) /\ running \in Nat /\ running <= sent /\ sent' = sent
  BY EndedReplies, Typed DEF DriveInv, Numbered, clientVars
<1>2. \A i \in DOMAIN requests' : requests'[i].kind = "GOAL" => running < requests'[i].goal
  BY DEF DriveInv, Numbered, IsGoal
<1>3. Numbered'
  BY <1>1, <1>2, AnswersKeepNumbers
<1> QED BY <1>3 DEF Reported

LEMMA HandleCancelReports ==
    ASSUME DriveInv, HandleCancel, UNCHANGED clientVars
    PROVE  Numbered' /\ Reported'
<1>1. /\ sent' = sent /\ active' = active /\ status' = status /\ server' = server
      /\ \A i \in DOMAIN requests' : /\ i \in Nat /\ i + 1 \in DOMAIN requests /\ 1 < i + 1
                                     /\ requests'[i] = requests[i + 1]
  BY RequestTaken DEF HandleCancel, clientVars, handleVars
<1>2. running \in Nat /\ running <= sent
        /\ \A i \in DOMAIN requests' : requests'[i].kind = "GOAL" => running < requests'[i].goal
  BY <1>1, Typed DEF DriveInv, Numbered, IsGoal
<1>3. CASE running' = None /\ replies' = replies \o Ended("CANCELED")
  <2>1. Answered(running)
    BY <1>3, EndedReplies DEF Outcomes
  <2>2. Numbered'
    BY <1>1, <1>2, <1>3, <2>1, AnswersKeepNumbers
  <2> QED BY <1>3, <2>2 DEF Reported
<1>4. CASE UNCHANGED <<running, replies>>
  <2>1. Answered(running)
    BY <1>4 DEF Answered
  <2>2. Numbered'
    BY <1>1, <1>2, <1>4, <2>1, AnswersKeepNumbers
  <2>3. Reported'
    BY <1>1, <1>4 DEF DriveInv, Reported, Held, LastResponse
  <2> QED BY <2>2, <2>3
<1> QED BY <1>3, <1>4 DEF HandleCancel

LEMMA LifecycleReports ==
    ASSUME DriveInv, Lifecycle, UNCHANGED clientVars
    PROVE  Numbered' /\ Reported'
<1>1. CASE Activate \/ Start
  <2>1. running = None /\ UNCHANGED <<running, requests, replies, sent>>
    BY <1>1 DEF Activate, Start, DriveInv, Reported, clientVars
  <2>2. Numbered'
    BY <2>1 DEF DriveInv, Numbered, IsGoal
  <2> QED BY <2>1, <2>2 DEF Reported
<1>2. CASE Deactivate
  BY <1>2, EndReports DEF Deactivate, Outcomes
<1>3. CASE Crash
  <2>1. running' = None /\ requests' = << >> /\ replies' = << >> /\ sent' = sent
    BY <1>3 DEF Crash, clientVars
  <2>2. Numbered'
    BY <2>1, Typed DEF DriveInv, Numbered, IsGoal
  <2> QED BY <2>1, <2>2 DEF Reported
<1> QED BY <1>1, <1>2, <1>3 DEF Lifecycle

LEMMA DriveStep == DriveInv /\ [Step]_vars => DriveInv'
<1> SUFFICES ASSUME DriveInv, [Step]_vars PROVE DriveInv'
  OBVIOUS
<1>1. TypeOK'
  BY TypeStep DEF DriveInv
<1>2. CASE Subscriptions
  <2>1. CASE FollowStart
    BY <1>1, <2>1 DEF FollowStart, nav2Vars, handleVars, DriveInv, Numbered, Reported, Held,
                      LastResponse, IsGoal
  <2> QED BY <1>1, <1>2, <2>1, ForwardReports, CancelReports
          DEF DriveInv, Subscriptions, TargetPose, TargetPoint, Cancel, FollowStop
<1>3. CASE Callbacks
  <2>1. CASE CheckServer
    <3>1. running = None /\ UNCHANGED <<running, requests, replies, sent>>
      BY <2>1 DEF CheckServer, nav2Vars, DriveInv, Reported, server_is_ready
    <3>2. Numbered' /\ Reported'
      BY <3>1 DEF DriveInv, Numbered, Reported, IsGoal
    <3> QED BY <1>1, <3>2 DEF DriveInv
  <2> QED BY <1>1, <1>3, <2>1, AcceptedReports, OtherRepliesReport DEF Callbacks, DriveInv
<1>4. CASE IntervalPasses \/ UNCHANGED vars
  BY <1>1, <1>4 DEF IntervalPasses, vars, clientVars, nav2Vars, handleVars, DriveInv, Numbered,
                    Reported, Held, LastResponse, IsGoal
<1>5. CASE Nav2Step /\ UNCHANGED clientVars
  <2>1. ASSUME NEW out \in {"SUCCEEDED", "ABORTED"}, Finish(out) PROVE Numbered' /\ Reported'
    BY <1>5, <2>1, EndReports DEF Finish, Outcomes
  <2> QED BY <1>1, <1>5, <2>1, AcceptReports, RejectReports, HandleCancelReports, LifecycleReports
          DEF Nav2Step, Answer, DriveInv
<1> QED BY <1>2, <1>3, <1>4, <1>5 DEF Step

LEMMA DriveInvariant == Spec => []DriveInv
BY DriveInit, DriveStep, NextIsStep, PTL DEF Spec

\* From the moment its response is handled until its end, the goal the cart drives to
\* is the one the node holds, and nav_status says NAVIGATING; with any number of goals
\* that preempt each other and have no response yet.
THEOREM DriveReported == Spec => []DrivingIsReported
<1>1. DriveInv => DrivingIsReported
  BY DEF DriveInv, Reported, Held, LastResponse, DrivingIsReported, Waiting
<1> QED BY <1>1, DriveInvariant, PTL

-----------------------------------------------------------------------------
(* No cancel is lost of a goal that was sent while no other had no response. *)

\* Such a goal is the oldest of those without a response.
Alone ==
    /\ \A i \in DOMAIN requests : IsGoal(i) /\ requests[i].goal \notin crowded =>
         /\ \A j \in DOMAIN requests : IsGoal(j) => i <= j
         /\ \A k \in DOMAIN replies : ~IsResponse(k)
    /\ \A k \in DOMAIN replies : IsResponse(k) /\ replies[k].goal \notin crowded =>
         \A l \in DOMAIN replies : IsResponse(l) => k <= l

\* The node waits for a response to it, and if a cancel came since, it is booked, or a
\* newer goal has no response either.
BookedFor(g, newer) == goal_pending /\ (g <= stopped_upto => cancel_requested \/ newer)

GoalAfter(i)     == \E j \in DOMAIN requests : IsGoal(j) /\ i < j
ResponseAfter(k) == \E l \in DOMAIN replies : IsResponse(l) /\ k < l

Booked ==
    /\ \A i \in DOMAIN requests : IsGoal(i) /\ requests[i].goal \notin crowded =>
         BookedFor(requests[i].goal, GoalAfter(i))
    /\ \A k \in DOMAIN replies : IsResponse(k) /\ replies[k].goal \notin crowded =>
         BookedFor(replies[k].goal, GoalAfter(0) \/ ResponseAfter(k))

Open == Alone /\ Booked
Rest == Open /\ CancelNotLost
CancelInv == DriveInv /\ Rest

LEMMA CancelInit == Init => CancelInv
BY DriveInit DEF Init, Nav2Init, CancelInv, Rest, Open, Alone, Booked, CancelNotLost, None

\* A goal is only uncrowded when none is open.
LEMMA NoneOpen ==
    ASSUME TypeOK, ~(Unanswered > 0)
    PROVE  /\ \A i \in DOMAIN requests : requests[i].kind # "GOAL"
           /\ \A k \in DOMAIN replies : replies[k].kind # "RESPONSE"
<1> DEFINE G == {i \in DOMAIN requests : requests[i].kind = "GOAL"}
           R == {k \in DOMAIN replies : replies[k].kind = "RESPONSE"}
<1>1. IsFiniteSet(DOMAIN requests) /\ IsFiniteSet(DOMAIN replies)
  <2>1. /\ DOMAIN requests = 1 .. Len(requests) /\ Len(requests) \in Nat
        /\ DOMAIN replies = 1 .. Len(replies) /\ Len(replies) \in Nat
    BY Typed
  <2>2. \A n \in Nat : IsFiniteSet(1 .. n)
    BY FS_Interval
  <2> QED BY <2>1, <2>2
<1>2. IsFiniteSet(G) /\ IsFiniteSet(R)
  BY <1>1, FS_Subset
<1>3. Cardinality(G) \in Nat /\ Cardinality(R) \in Nat
  BY <1>2, FS_CardinalityType
<1>4. Cardinality(G) = 0 /\ Cardinality(R) = 0
  <2> HIDE DEF G, R
  <2>1. Unanswered = Cardinality(G) + Cardinality(R)
    BY DEF Unanswered, G, R
  <2> QED BY <1>3, <2>1
<1>5. G = {} /\ R = {}
  BY <1>2, <1>4, FS_EmptySet
<1> QED BY <1>5

\* Requests and replies are taken from the front, cancels and results added: what is
\* open is what was open before, in its order.
SameOpen(d, e) ==
    /\ \A i \in DOMAIN requests' : requests'[i].kind = "GOAL" =>
         i \in Nat /\ i + d \in DOMAIN requests /\ requests'[i] = requests[i + d]
    /\ \A i \in DOMAIN requests : requests[i].kind = "GOAL" =>
         i \in Nat /\ i - d \in DOMAIN requests' /\ requests'[i - d] = requests[i]
    /\ \A k \in DOMAIN replies' : replies'[k].kind = "RESPONSE" =>
         k \in Nat /\ k + e \in DOMAIN replies /\ replies'[k] = replies[k + e]
    /\ \A k \in DOMAIN replies : replies[k].kind = "RESPONSE" =>
         k \in Nat /\ k - e \in DOMAIN replies' /\ replies'[k - e] = replies[k]

LEMMA OpenStays ==
    ASSUME Open, TypeOK', NEW d \in {0, 1}, NEW e \in {0, 1}, SameOpen(d, e),
           UNCHANGED <<goal_pending, crowded>>,
           \/ UNCHANGED <<stopped_upto, cancel_requested>>
           \/ goal_pending => cancel_requested'
    PROVE  Open'
<1>1. ASSUME NEW i \in DOMAIN requests', requests'[i].kind = "GOAL"
      PROVE  i \in Nat /\ IsGoal(i + d) /\ i + d \in DOMAIN requests /\ requests'[i] = requests[i + d]
  BY <1>1 DEF SameOpen, IsGoal
<1>2. ASSUME NEW i \in DOMAIN requests, IsGoal(i)
      PROVE  i \in Nat /\ i - d \in DOMAIN requests' /\ requests'[i - d].kind = "GOAL"
  BY <1>2 DEF SameOpen, IsGoal
<1>3. ASSUME NEW k \in DOMAIN replies', replies'[k].kind = "RESPONSE"
      PROVE  k \in Nat /\ IsResponse(k + e) /\ k + e \in DOMAIN replies /\ replies'[k] = replies[k + e]
  BY <1>3 DEF SameOpen, IsResponse
<1>4. ASSUME NEW k \in DOMAIN replies, IsResponse(k)
      PROVE  k \in Nat /\ k - e \in DOMAIN replies' /\ replies'[k - e].kind = "RESPONSE"
  BY <1>4 DEF SameOpen, IsResponse
<1>5. ASSUME NEW i \in DOMAIN requests', requests'[i].kind = "GOAL", requests'[i].goal \notin crowded'
      PROVE  /\ \A j \in DOMAIN requests' : requests'[j].kind = "GOAL" => i <= j
             /\ \A k \in DOMAIN replies' : replies'[k].kind # "RESPONSE"
             /\ goal_pending'
             /\ requests'[i].goal <= stopped_upto' =>
                  cancel_requested' \/ \E j \in DOMAIN requests' : requests'[j].kind = "GOAL" /\ i < j
  <2>1. /\ i \in Nat /\ IsGoal(i + d) /\ i + d \in DOMAIN requests /\ requests'[i] = requests[i + d]
        /\ requests[i + d].goal \notin crowded
    BY <1>1, <1>5
  <2>2. /\ \A j \in DOMAIN requests : IsGoal(j) => i + d <= j
        /\ \A k \in DOMAIN replies : ~IsResponse(k)
        /\ goal_pending
        /\ requests[i + d].goal <= stopped_upto => cancel_requested \/ GoalAfter(i + d)
    BY <2>1 DEF Open, Alone, Booked, BookedFor
  <2>3. \A j \in DOMAIN requests' : requests'[j].kind = "GOAL" => i <= j
    <3> SUFFICES ASSUME NEW j \in DOMAIN requests', requests'[j].kind = "GOAL" PROVE i <= j
      OBVIOUS
    <3>1. i + d <= j + d /\ j \in Nat
      BY <1>1, <2>2
    <3> QED BY <2>1, <3>1
  <2>4. \A k \in DOMAIN replies' : replies'[k].kind # "RESPONSE"
    BY <1>3, <2>2
  <2>5. GoalAfter(i + d) => \E j \in DOMAIN requests' : requests'[j].kind = "GOAL" /\ i < j
    <3> SUFFICES ASSUME GoalAfter(i + d)
                 PROVE  \E j \in DOMAIN requests' : requests'[j].kind = "GOAL" /\ i < j
      OBVIOUS
    <3>1. PICK j \in DOMAIN requests : IsGoal(j) /\ i + d < j
      BY DEF GoalAfter
    <3>2. j - d \in DOMAIN requests' /\ requests'[j - d].kind = "GOAL" /\ i < j - d
      BY <1>2, <2>1, <3>1
    <3> QED BY <3>2
  <2> QED BY <2>1, <2>2, <2>3, <2>4, <2>5
<1>6. ASSUME NEW k \in DOMAIN replies', replies'[k].kind = "RESPONSE", replies'[k].goal \notin crowded'
      PROVE  /\ \A l \in DOMAIN replies' : replies'[l].kind = "RESPONSE" => k <= l
             /\ goal_pending'
             /\ replies'[k].goal <= stopped_upto' =>
                  \/ cancel_requested'
                  \/ \E j \in DOMAIN requests' : requests'[j].kind = "GOAL" /\ 0 < j
                  \/ \E l \in DOMAIN replies' : replies'[l].kind = "RESPONSE" /\ k < l
  <2>1. /\ k \in Nat /\ IsResponse(k + e) /\ k + e \in DOMAIN replies /\ replies'[k] = replies[k + e]
        /\ replies[k + e].goal \notin crowded
    BY <1>3, <1>6
  <2>2. /\ \A l \in DOMAIN replies : IsResponse(l) => k + e <= l
        /\ goal_pending
        /\ replies[k + e].goal <= stopped_upto
             => cancel_requested \/ GoalAfter(0) \/ ResponseAfter(k + e)
    BY <2>1 DEF Open, Alone, Booked, BookedFor
  <2>3. \A l \in DOMAIN replies' : replies'[l].kind = "RESPONSE" => k <= l
    <3> SUFFICES ASSUME NEW l \in DOMAIN replies', replies'[l].kind = "RESPONSE" PROVE k <= l
      OBVIOUS
    <3>1. k + e <= l + e /\ l \in Nat
      BY <1>3, <2>2
    <3> QED BY <2>1, <3>1
  <2>4. GoalAfter(0) => \E j \in DOMAIN requests' : requests'[j].kind = "GOAL" /\ 0 < j
    <3> SUFFICES ASSUME GoalAfter(0)
                 PROVE  \E j \in DOMAIN requests' : requests'[j].kind = "GOAL" /\ 0 < j
      OBVIOUS
    <3>1. PICK j \in DOMAIN requests : IsGoal(j) /\ 0 < j
      BY DEF GoalAfter
    <3>2. j - d \in DOMAIN requests' /\ requests'[j - d].kind = "GOAL"
      BY <1>2, <3>1
    <3>3. \A n \in DOMAIN requests' : 0 < n
      BY DEF TypeOK, Nav2TypeOK
    <3> QED BY <3>2, <3>3
  <2>5. ResponseAfter(k + e) => \E l \in DOMAIN replies' : replies'[l].kind = "RESPONSE" /\ k < l
    <3> SUFFICES ASSUME ResponseAfter(k + e)
                 PROVE  \E l \in DOMAIN replies' : replies'[l].kind = "RESPONSE" /\ k < l
      OBVIOUS
    <3>1. PICK l \in DOMAIN replies : IsResponse(l) /\ k + e < l
      BY DEF ResponseAfter
    <3>2. l - e \in DOMAIN replies' /\ replies'[l - e].kind = "RESPONSE" /\ k < l - e
      BY <1>4, <2>1, <3>1
    <3> QED BY <3>2
  <2> QED BY <2>1, <2>2, <2>3, <2>4, <2>5
<1>7. Alone'
  BY <1>5, <1>6 DEF Alone, IsGoal, IsResponse
<1>8. Booked'
  BY <1>5, <1>6 DEF Booked, BookedFor, GoalAfter, ResponseAfter, IsGoal, IsResponse
<1> QED BY <1>7, <1>8 DEF Open

\* All that is open is crowded.
LEMMA OpenIsCrowded ==
    ASSUME \A i \in DOMAIN requests' : requests'[i].kind = "GOAL" => requests'[i].goal \in crowded',
           \A k \in DOMAIN replies' : replies'[k].kind = "RESPONSE" => replies'[k].goal \in crowded'
    PROVE  Open'
BY DEF Open, Alone, Booked, IsGoal, IsResponse

\* A step that changes nothing that matters.
LEMMA RestKept ==
    ASSUME Rest, UNCHANGED <<running, requests, replies, goal_pending, cancel_requested,
                             stopped_upto, crowded>>
    PROVE  Rest'
BY DEF Rest, Open, Alone, Booked, BookedFor, GoalAfter, ResponseAfter, CancelNotLost, Waiting,
       IsGoal, IsResponse

LEMMA ForwardKeepsCancel ==
    ASSUME CancelInv, Forward
    PROVE  Rest'
<1>1. TypeOK /\ UNCHANGED <<running, replies, stopped_upto>> /\ Open
  BY DEF Forward, CancelInv, DriveInv, Rest
<1>2. CASE server_is_ready
  <2>1. /\ sent' = sent + 1 /\ requests' = Append(requests, SendGoal(sent')) /\ goal_pending'
        /\ SendGoal(sent').kind = "GOAL" /\ SendGoal(sent').goal = sent'
        /\ crowded \subseteq crowded' /\ (sent' \notin crowded' => ~(Unanswered > 0))
    BY <1>2 DEF Forward, SendGoal
  <2>2. sent' \in Goals /\ SendGoal(sent') \in Request /\ stopped_upto < sent'
    <3>1. sent' \in Goals /\ stopped_upto <= sent /\ sent \in Nat /\ stopped_upto \in Nat
      BY <1>1, <1>2, GoalNumbers DEF Forward, Goals, TypeOK
    <3> QED BY <2>1, <3>1, MessageTypes
  <2> DEFINE n == Len(requests) + 1
  <2>3. /\ DOMAIN requests' = 1 .. n /\ n \in Nat \ {0}
        /\ DOMAIN requests = 1 .. Len(requests) /\ Len(requests) \in Nat
        /\ \A i \in 1 .. Len(requests) : requests'[i] = requests[i]
        /\ requests'[n] = SendGoal(sent')
    BY <1>1, <2>1, <2>2, Typed, Appended
  <2> HIDE DEF n
  <2>4. /\ n \in DOMAIN requests' /\ requests'[n].kind = "GOAL" /\ requests'[n].goal = sent'
        /\ \A i \in DOMAIN requests' : i = n \/ (i < n /\ i \in DOMAIN requests /\ requests'[i] = requests[i])
    <3>1. n = Len(requests) + 1
      BY DEF n
    <3>2. \A i \in DOMAIN requests' : i = n \/ (i < n /\ i \in 1 .. Len(requests))
      BY <2>3, <3>1
    <3>3. n \in DOMAIN requests'
      BY <2>3
    <3> QED BY <2>1, <2>3, <3>2, <3>3
  <2>5. ~(sent' <= stopped_upto')
    BY <1>1, <2>2, Typed DEF TypeOK, Goals
  <2>6. ASSUME sent' \notin crowded'
        PROVE  /\ \A i \in DOMAIN requests : ~IsGoal(i)
               /\ \A k \in DOMAIN replies : ~IsResponse(k)
    BY <1>1, <2>1, <2>6, NoneOpen DEF IsGoal, IsResponse
  <2>7. Alone'
    <3>1. ASSUME NEW i \in DOMAIN requests', IsGoal(i)', requests'[i].goal \notin crowded'
          PROVE  /\ \A j \in DOMAIN requests' : IsGoal(j)' => i <= j
                 /\ \A k \in DOMAIN replies' : ~IsResponse(k)'
      <4>1. CASE i = n
        <5>1. sent' \notin crowded'
          BY <2>4, <3>1, <4>1
        <5>2. \A j \in DOMAIN requests' : IsGoal(j)' => j = n
          BY <2>4, <2>6, <5>1 DEF IsGoal
        <5>3. \A k \in DOMAIN replies' : ~IsResponse(k)'
          BY <1>1, <2>6, <5>1 DEF IsResponse
        <5> QED BY <2>3, <4>1, <5>2, <5>3
      <4>2. CASE i # n
        <5>1. i \in DOMAIN requests /\ IsGoal(i) /\ requests[i].goal \notin crowded /\ i < n
          BY <2>1, <2>4, <3>1, <4>2 DEF IsGoal
        <5>2. /\ \A j \in DOMAIN requests : IsGoal(j) => i <= j
              /\ \A k \in DOMAIN replies : ~IsResponse(k)
          BY <1>1, <5>1 DEF Open, Alone
        <5>3. ASSUME NEW j \in DOMAIN requests', IsGoal(j)' PROVE i <= j
          <6>1. CASE j = n
            BY <2>3, <5>1, <6>1
          <6>2. CASE j # n
            <7>1. j \in DOMAIN requests /\ IsGoal(j)
              BY <2>4, <5>3, <6>2 DEF IsGoal
            <7> QED BY <5>2, <7>1
          <6> QED BY <6>1, <6>2
        <5>4. \A k \in DOMAIN replies' : ~IsResponse(k)'
          BY <1>1, <5>2 DEF IsResponse
        <5> QED BY <5>3, <5>4
      <4> QED BY <4>1, <4>2
    <3>2. ASSUME NEW k \in DOMAIN replies', IsResponse(k)', replies'[k].goal \notin crowded'
          PROVE  \A l \in DOMAIN replies' : IsResponse(l)' => k <= l
      BY <1>1, <2>1, <3>2 DEF Open, Alone, IsResponse
    <3> QED BY <3>1, <3>2 DEF Alone
  <2>8. Booked'
    <3>1. ASSUME NEW i \in DOMAIN requests', IsGoal(i)' PROVE BookedFor(requests[i].goal, GoalAfter(i))'
      <4>1. i = n \/ GoalAfter(i)'
        BY <2>4 DEF GoalAfter, IsGoal
      <4> QED BY <2>1, <2>4, <2>5, <4>1 DEF BookedFor
    <3>2. GoalAfter(0)'
      <4>1. 0 < n
        BY <2>3
      <4> QED BY <2>4, <4>1 DEF GoalAfter, IsGoal
    <3>3. \A k \in DOMAIN replies' : BookedFor(replies[k].goal, GoalAfter(0) \/ ResponseAfter(k))'
      BY <2>1, <3>2 DEF BookedFor
    <3> QED BY <3>1, <3>3 DEF Booked
  <2>9. CancelNotLost'
    <3>1. sent' > running' /\ Waiting(requests', "GOAL", sent')
      BY <1>1, <2>1, <2>4, Typed DEF Waiting, CancelInv, DriveInv, Numbered, IsGoal
    <3> QED BY <2>2, <3>1 DEF CancelNotLost
  <2> QED BY <2>7, <2>8, <2>9 DEF Rest, Open
<1>3. CASE ~server_is_ready
  BY <1>1, <1>3, RestKept DEF Forward, CancelInv
<1> QED BY <1>2, <1>3

\* A cancel goes behind what waits.
LEMMA CancelAppended ==
    ASSUME TypeOK, NEW g \in Goals, requests' = Append(requests, CancelGoal(g))
    PROVE  /\ \A i \in DOMAIN requests : i \in DOMAIN requests' /\ requests'[i] = requests[i]
           /\ \A i \in DOMAIN requests' : \/ i \in DOMAIN requests /\ requests'[i] = requests[i]
                                          \/ requests'[i].kind = "CANCEL"
           /\ Waiting(requests', "CANCEL", g)
<1>1. /\ CancelGoal(g) \in Request /\ CancelGoal(g).kind = "CANCEL" /\ CancelGoal(g).goal = g
  BY MessageTypes DEF CancelGoal
<1>2. /\ DOMAIN requests' = 1 .. Len(requests) + 1 /\ DOMAIN requests = 1 .. Len(requests)
      /\ \A i \in 1 .. Len(requests) : requests'[i] = requests[i]
      /\ requests'[Len(requests) + 1] = CancelGoal(g) /\ Len(requests) \in Nat
  BY <1>1, Typed, Appended
<1>3. Waiting(requests', "CANCEL", g)
  <2>1. Len(requests) + 1 \in DOMAIN requests'
    BY <1>2
  <2> QED BY <1>1, <1>2, <2>1 DEF Waiting
<1> QED BY <1>1, <1>2, <1>3

\* The goal that runs is held, and cancelled now, or its response comes and the cancel
\* is booked.
LEMMA CancelKeepsCancel ==
    ASSUME CancelInv, TypeOK', CancelDrive
    PROVE  Rest'
<1>1. /\ TypeOK /\ UNCHANGED <<running, replies, goal_pending, crowded>>
      /\ cancel_requested' = (cancel_requested \/ goal_pending)
      /\ requests' = IF active # None /\ status = "NAVIGATING"
                     THEN Append(requests, CancelGoal(active)) ELSE requests
  BY DEF CancelDrive, CancelInv, DriveInv
<1>2. /\ \A i \in DOMAIN requests : i \in DOMAIN requests' /\ requests'[i] = requests[i]
      /\ \A i \in DOMAIN requests' : \/ i \in DOMAIN requests /\ requests'[i] = requests[i]
                                     \/ requests'[i].kind = "CANCEL"
      /\ active # None /\ status = "NAVIGATING" => Waiting(requests', "CANCEL", active)
  <2>1. CASE active # None /\ status = "NAVIGATING"
    BY <1>1, <2>1, CancelAppended DEF TypeOK
  <2>2. CASE ~(active # None /\ status = "NAVIGATING")
    BY <1>1, <2>2
  <2> QED BY <2>1, <2>2
<1>3. SameOpen(0, 0)
  BY <1>1, <1>2, Typed DEF SameOpen
<1>4. Open'
  BY <1>1, <1>3, OpenStays DEF CancelInv, Rest
<1>5. ASSUME running # None, running \notin crowded
      PROVE  \/ Waiting(requests', "CANCEL", running)
             \/ cancel_requested' /\ Waiting(replies, "RESPONSE", running)
  <2>1. CASE Held
    BY <1>2, <1>5, <2>1 DEF Held
  <2>2. CASE \E k \in DOMAIN replies : LastResponse(k)
    BY <1>1, <1>5, <2>2 DEF LastResponse, Waiting, CancelInv, Rest, Open, Booked, BookedFor, IsResponse
  <2> QED BY <1>5, <2>1, <2>2 DEF CancelInv, DriveInv, Reported
<1>6. CancelNotLost'
  BY <1>1, <1>5 DEF CancelNotLost
<1> QED BY <1>4, <1>6 DEF Rest

\* The oldest response is taken: the goals that have none now are all crowded.
LEMMA ResponseTaken ==
    ASSUME CancelInv, NextReply("RESPONSE"),
           \/ requests' = requests
           \/ \E g \in Goals : requests' = Append(requests, CancelGoal(g))
    PROVE  /\ Open'
           /\ \A i \in DOMAIN requests : i \in DOMAIN requests' /\ requests'[i] = requests[i]
           /\ \A k \in DOMAIN replies :
                replies[k].kind = "RESPONSE" /\ replies[k].goal \notin crowded => k = 1
           /\ UNCHANGED <<running, crowded>>
<1>1. /\ IsResponse(1) /\ 1 \in DOMAIN replies /\ DriveInv /\ TypeOK /\ UNCHANGED <<running, crowded>>
      /\ DOMAIN requests = 1 .. Len(requests) /\ DOMAIN replies = 1 .. Len(replies)
      /\ Len(replies) \in Nat
  BY ReplyTaken, Typed DEF IsResponse, CancelInv, DriveInv, NextReply
<1>2. /\ \A i \in DOMAIN requests : requests[i].kind = "GOAL" => requests[i].goal \in crowded
      /\ \A k \in DOMAIN replies :
           replies[k].kind = "RESPONSE" /\ replies[k].goal \notin crowded => k <= 1
  BY <1>1 DEF CancelInv, Rest, Open, Alone, IsGoal, IsResponse
<1>3. \A k \in DOMAIN replies :
        replies[k].kind = "RESPONSE" /\ replies[k].goal \notin crowded => k = 1
  BY <1>1, <1>2
<1>4. /\ \A i \in DOMAIN requests : i \in DOMAIN requests' /\ requests'[i] = requests[i]
      /\ \A i \in DOMAIN requests' : requests'[i].kind = "GOAL" => requests'[i].goal \in crowded'
  <2>1. CASE requests' = requests
    BY <1>1, <1>2, <2>1
  <2>2. CASE requests' # requests
    BY <1>1, <1>2, <2>2, CancelAppended
  <2> QED BY <2>1, <2>2
<1>5. \A k \in DOMAIN replies' : replies'[k].kind = "RESPONSE" => replies'[k].goal \in crowded'
  <2>1. \A k \in DOMAIN replies' : k \in Nat \ {0} /\ k + 1 \in DOMAIN replies
                                     /\ replies'[k] = replies[k + 1]
    BY <1>1, ReplyTaken, Typed
  <2> SUFFICES ASSUME NEW k \in DOMAIN replies', replies'[k].kind = "RESPONSE"
               PROVE  replies'[k].goal \in crowded
    BY <1>1
  <2>2. k + 1 # 1
    BY <2>1
  <2> QED BY <1>3, <2>1, <2>2
<1> QED BY <1>1, <1>3, <1>4, <1>5, OpenIsCrowded

LEMMA AcceptedKeepsCancel ==
    ASSUME CancelInv, GoalAccepted
    PROVE  Rest'
<1>1. /\ NextReply("RESPONSE") /\ active' = Head(replies).goal /\ UNCHANGED stopped_upto
      /\ requests' = IF cancel_requested THEN Append(requests, CancelGoal(active')) ELSE requests
  BY DEF GoalAccepted, NextReply
<1>2. active' \in Goals /\ active' = replies[1].goal
  BY <1>1, ReplyTaken DEF CancelInv
<1>3. /\ Open'
      /\ \A i \in DOMAIN requests : i \in DOMAIN requests' /\ requests'[i] = requests[i]
      /\ \A k \in DOMAIN replies :
           replies[k].kind = "RESPONSE" /\ replies[k].goal \notin crowded => k = 1
      /\ UNCHANGED <<running, crowded>>
  BY <1>1, <1>2, ResponseTaken
<1>4. ASSUME running # None, running <= stopped_upto, running \notin crowded
      PROVE  \/ Waiting(requests', "CANCEL", running)
             \/ \E g \in Goals : g > running /\ Waiting(requests', "GOAL", g)
  <2>1. CASE Waiting(requests, "CANCEL", running)
    BY <1>3, <2>1 DEF Waiting
  <2>2. CASE cancel_requested /\ Waiting(replies, "RESPONSE", running)
    <3>1. active' = running /\ requests' = Append(requests, CancelGoal(running))
      BY <1>1, <1>2, <1>3, <1>4, <2>2 DEF Waiting
    <3> QED BY <1>2, <3>1, CancelAppended DEF CancelInv, DriveInv
  <2>3. CASE \E g \in Goals : g > running /\ Waiting(requests, "GOAL", g)
    BY <1>3, <2>3 DEF Waiting
  <2> QED BY <1>4, <2>1, <2>2, <2>3 DEF CancelInv, Rest, CancelNotLost
<1>5. CancelNotLost'
  BY <1>1, <1>3, <1>4 DEF CancelNotLost
<1> QED BY <1>3, <1>5 DEF Rest

\* A server that rejects runs nothing that is not crowded.
LEMMA RejectedKeepsCancel ==
    ASSUME CancelInv, GoalRejected
    PROVE  Rest'
<1>1. NextReply("RESPONSE") /\ Head(replies).says = "REJECTED" /\ requests' = requests
  BY DEF GoalRejected
<1>2. /\ Open' /\ UNCHANGED <<running, crowded>>
      /\ \A k \in DOMAIN replies :
           replies[k].kind = "RESPONSE" /\ replies[k].goal \notin crowded => k = 1
  BY <1>1, ResponseTaken
<1>3. 1 \in DOMAIN replies /\ replies[1].kind = "RESPONSE" /\ replies[1].says = "REJECTED"
  BY <1>1, ReplyTaken DEF CancelInv
<1>4. running = None \/ running \in crowded
  BY <1>2, <1>3 DEF CancelInv, DriveInv, Reported, Held, LastResponse
<1>5. CancelNotLost'
  BY <1>2, <1>4 DEF CancelNotLost
<1> QED BY <1>2, <1>5 DEF Rest

LEMMA ResultKeepsCancel ==
    ASSUME CancelInv, TypeOK', GoalResult
    PROVE  Rest'
<1>1. /\ NextReply("RESULT") /\ requests' = requests /\ TypeOK
      /\ UNCHANGED <<goal_pending, cancel_requested, stopped_upto, crowded, running>>
  BY DEF GoalResult, NextReply, CancelInv, DriveInv
<1>2. /\ \A k \in DOMAIN replies' : k + 1 \in DOMAIN replies /\ replies'[k] = replies[k + 1] /\ k \in Nat
      /\ \A k \in DOMAIN replies : replies[k].kind = "RESPONSE" =>
           k \in Nat /\ k - 1 \in DOMAIN replies' /\ replies'[k - 1] = replies[k]
  BY <1>1, ReplyTaken, Typed DEF CancelInv
<1>3. SameOpen(0, 1)
  BY <1>1, <1>2, Typed DEF SameOpen
<1>4. Open'
  BY <1>1, <1>3, OpenStays DEF CancelInv, Rest
<1>5. \A g : Waiting(replies, "RESPONSE", g) => Waiting(replies', "RESPONSE", g)
  BY <1>2 DEF Waiting
<1>6. CancelNotLost'
  BY <1>1, <1>5 DEF CancelInv, Rest, CancelNotLost
<1> QED BY <1>4, <1>6 DEF Rest

-----------------------------------------------------------------------------
(* The same for the steps of Nav2. *)

\* A goal that ends adds a result only.
LEMMA EndedAddsResult ==
    ASSUME TypeOK, NEW out \in Outcomes, replies' = replies \o Ended(out)
    PROVE  /\ \A k \in DOMAIN replies' : \/ k \in DOMAIN replies /\ replies'[k] = replies[k]
                                         \/ replies'[k].kind = "RESULT"
           /\ \A k \in DOMAIN replies : k \in DOMAIN replies' /\ replies'[k] = replies[k]
<1>1. CASE running = None
  <2>1. replies' = replies
    BY <1>1, Typed, Appended DEF Ended
  <2> QED BY <2>1
<1>2. CASE running # None
  <2>1. Result(running, out) \in ReplyMsg /\ Result(running, out).kind = "RESULT"
    BY <1>2, MessageTypes DEF TypeOK, Nav2TypeOK, Result
  <2>2. replies' = Append(replies, Result(running, out))
    BY <1>2, <2>1, Typed, Appended DEF Ended
  <2>3. /\ DOMAIN replies' = 1 .. Len(replies) + 1 /\ DOMAIN replies = 1 .. Len(replies)
        /\ \A k \in 1 .. Len(replies) : replies'[k] = replies[k]
        /\ replies'[Len(replies) + 1] = Result(running, out) /\ Len(replies) \in Nat
    BY <2>1, <2>2, Typed, Appended
  <2> QED BY <2>1, <2>3
<1> QED BY <1>1, <1>2

\* A goal is taken, and its response goes behind those that wait.
LEMMA OpenIsAnswered ==
    ASSUME CancelInv, TypeOK', UNCHANGED clientVars, Next_Request("GOAL"),
           NEW n \in Nat, DOMAIN replies = 1 .. n,
           \A k \in 1 .. n : k \in DOMAIN replies' /\ replies'[k] = replies[k],
           n + 1 \in DOMAIN replies', replies'[n + 1].kind = "RESPONSE",
           replies'[n + 1].goal = Head(requests).goal,
           \A k \in DOMAIN replies' : k \in 1 .. n \/ k = n + 1 \/ replies'[k].kind = "RESULT"
    PROVE  /\ Open'
           /\ Head(requests).goal <= stopped_upto /\ Head(requests).goal \notin crowded =>
                \/ cancel_requested
                \/ \E h \in Goals : h > Head(requests).goal /\ Waiting(requests', "GOAL", h)
<1> DEFINE g == Head(requests).goal
<1>1. /\ IsGoal(1) /\ 1 \in DOMAIN requests /\ requests[1].goal = g /\ TypeOK
      /\ \A i \in DOMAIN requests' : /\ i \in Nat /\ i + 1 \in DOMAIN requests /\ 1 < i + 1
                                     /\ requests'[i] = requests[i + 1]
      /\ UNCHANGED <<goal_pending, cancel_requested, stopped_upto, crowded>>
  BY RequestTaken DEF IsGoal, CancelInv, DriveInv, clientVars, handleVars
<1>2. \A i \in DOMAIN requests : 1 < i => i - 1 \in DOMAIN requests' /\ 0 < i - 1
                                            /\ requests'[i - 1] = requests[i]
  <2>1. requests \in Seq(Request) /\ requests # << >> /\ requests' = Tail(requests)
    BY <1>1 DEF Next_Request, TypeOK, Nav2TypeOK
  <2>2. /\ Len(requests) \in Nat \ {0} /\ DOMAIN requests = 1 .. Len(requests)
        /\ DOMAIN requests' = 1 .. Len(requests) - 1
        /\ \A i \in 1 .. Len(requests) - 1 : requests'[i] = requests[i + 1]
    BY <2>1, Shortened
  <2> QED BY <2>2
<1>3. \A i \in DOMAIN requests' : requests'[i].kind = "GOAL" => requests'[i].goal \in crowded'
  <2> SUFFICES ASSUME NEW i \in DOMAIN requests', requests'[i].kind = "GOAL",
                      requests'[i].goal \notin crowded
               PROVE  FALSE
    BY <1>1
  <2>1. IsGoal(i + 1) /\ requests[i + 1].goal \notin crowded /\ 1 < i + 1 /\ i \in Nat
    BY <1>1 DEF IsGoal
  <2>2. i + 1 <= 1
    BY <1>1, <2>1 DEF CancelInv, Rest, Open, Alone, IsGoal
  <2> QED BY <2>1, <2>2
<1>4. GoalAfter(1) => GoalAfter(0)'
  <2> SUFFICES ASSUME GoalAfter(1) PROVE GoalAfter(0)'
    OBVIOUS
  <2>1. PICK j \in DOMAIN requests : IsGoal(j) /\ 1 < j
    BY DEF GoalAfter
  <2>2. j - 1 \in DOMAIN requests' /\ 0 < j - 1 /\ requests'[j - 1].kind = "GOAL"
    BY <1>2, <2>1 DEF IsGoal
  <2> QED BY <2>2 DEF GoalAfter, IsGoal
<1>5. ASSUME g \notin crowded
      PROVE  /\ \A k \in DOMAIN replies : replies[k].kind # "RESPONSE"
             /\ BookedFor(g, GoalAfter(1))
  BY <1>1, <1>5 DEF CancelInv, Rest, Open, Alone, Booked, IsResponse
<1>6. ASSUME NEW k \in DOMAIN replies', replies'[k].kind = "RESPONSE", replies'[k].goal \notin crowded
      PROVE  /\ \A l \in DOMAIN replies' : replies'[l].kind = "RESPONSE" => k <= l
             /\ BookedFor(replies[k].goal, GoalAfter(0) \/ ResponseAfter(k))'
  <2>1. CASE k \in 1 .. n
    <3>1. IsResponse(k) /\ replies[k].goal = replies'[k].goal /\ replies[k].goal \notin crowded
      BY <1>6, <2>1 DEF IsResponse
    <3>2. /\ \A l \in DOMAIN replies : IsResponse(l) => k <= l
          /\ goal_pending
      BY <2>1, <3>1 DEF CancelInv, Rest, Open, Alone, Booked, BookedFor
    <3>3. k < n + 1
      BY <2>1
    <3>4. ASSUME NEW l \in DOMAIN replies', replies'[l].kind = "RESPONSE" PROVE k <= l
      <4>1. CASE l \in 1 .. n
        <5>1. IsResponse(l)
          BY <3>4, <4>1 DEF IsResponse
        <5> QED BY <3>2, <4>1, <5>1
      <4>2. CASE l = n + 1
        BY <2>1, <3>3, <4>2
      <4> QED BY <3>4, <4>1, <4>2
    <3>5. ResponseAfter(k)'
      BY <3>3 DEF ResponseAfter, IsResponse
    <3> QED BY <1>1, <3>2, <3>4, <3>5 DEF BookedFor
  <2>2. CASE k = n + 1
    <3>1. g \notin crowded /\ replies'[k].goal = g
      BY <1>6, <2>2
    <3>2. \A l \in DOMAIN replies' : replies'[l].kind = "RESPONSE" => l = k
      BY <1>5, <2>2, <3>1
    <3>3. BookedFor(replies[k].goal, GoalAfter(0) \/ ResponseAfter(k))'
      BY <1>1, <1>4, <1>5, <3>1 DEF BookedFor
    <3> QED BY <2>2, <3>2, <3>3
  <2> QED BY <1>6, <2>1, <2>2
<1>7. Open'
  <2>1. Alone'
    BY <1>1, <1>3, <1>6 DEF Alone, IsGoal, IsResponse
  <2>2. Booked'
    BY <1>1, <1>3, <1>6 DEF Booked, IsGoal, IsResponse
  <2> QED BY <2>1, <2>2 DEF Open
<1>8. ASSUME GoalAfter(1) PROVE \E h \in Goals : h > g /\ Waiting(requests', "GOAL", h)
  <2>1. PICK j \in DOMAIN requests : IsGoal(j) /\ 1 < j
    BY <1>8 DEF GoalAfter
  <2>2. j - 1 \in DOMAIN requests' /\ requests'[j - 1] = requests[j]
    BY <1>2, <2>1
  <2>3. g < requests[j].goal
    BY <1>1, <2>1 DEF CancelInv, DriveInv, Numbered
  <2>4. requests[j].goal \in Goals /\ g \in Nat /\ requests[j].goal \in Nat
    BY <1>1, Typed, MessageTypes
  <2>5. Waiting(requests', "GOAL", requests[j].goal)
    BY <2>1, <2>2 DEF Waiting, IsGoal
  <2>6. requests[j].goal > g
    BY <2>3, <2>4
  <2> QED BY <2>4, <2>5, <2>6
<1> QED BY <1>5, <1>7, <1>8 DEF BookedFor

LEMMA AcceptKeepsCancel ==
    ASSUME CancelInv, TypeOK', Accept, UNCHANGED clientVars
    PROVE  Rest'
<1> DEFINE g == Head(requests).goal
           n == Len(replies)
           r == Append(replies, Response(g, "ACCEPTED"))
<1>1. /\ Next_Request("GOAL") /\ running' = g /\ g \in Goals /\ TypeOK
      /\ replies' = r \o Ended("ABORTED")
      /\ UNCHANGED <<cancel_requested, stopped_upto, crowded>>
  BY RequestTaken DEF Accept, clientVars, handleVars, CancelInv, DriveInv
<1>2. Response(g, "ACCEPTED") \in ReplyMsg /\ Response(g, "ACCEPTED").goal = g
        /\ Response(g, "ACCEPTED").kind = "RESPONSE"
  BY <1>1, MessageTypes DEF Answers, Response
<1>3. /\ r \in Seq(ReplyMsg) /\ Len(r) = n + 1 /\ DOMAIN r = 1 .. n + 1 /\ DOMAIN replies = 1 .. n
      /\ \A k \in 1 .. n : r[k] = replies[k]
      /\ r[n + 1] = Response(g, "ACCEPTED") /\ n \in Nat
  BY <1>1, <1>2, Typed, Appended
<1>4. /\ \A k \in DOMAIN replies' : k \in 1 .. n \/ k = n + 1 \/ replies'[k].kind = "RESULT"
      /\ \A k \in 1 .. n + 1 : k \in DOMAIN replies' /\ replies'[k] = r[k]
  <2>1. CASE running = None
    <3>1. replies' = r
      BY <1>1, <1>3, <2>1, Appended DEF Ended
    <3> HIDE DEF r
    <3> QED BY <1>3, <3>1
  <2>2. CASE running # None
    <3>1. Result(running, "ABORTED") \in ReplyMsg /\ Result(running, "ABORTED").kind = "RESULT"
      BY <1>1, <2>2, MessageTypes DEF TypeOK, Nav2TypeOK, Result, Outcomes
    <3>2. replies' = Append(r, Result(running, "ABORTED"))
      BY <1>1, <1>3, <2>2, <3>1, Appended DEF Ended
    <3>3. /\ DOMAIN replies' = 1 .. n + 2
          /\ \A k \in 1 .. n + 1 : replies'[k] = r[k]
          /\ replies'[n + 2] = Result(running, "ABORTED")
      BY <1>3, <3>1, <3>2, Appended
    <3> HIDE DEF r, n
    <3> QED BY <1>3, <3>1, <3>3
  <2> QED BY <2>1, <2>2
<1>5. /\ \A k \in 1 .. n : k \in DOMAIN replies' /\ replies'[k] = replies[k]
      /\ n + 1 \in DOMAIN replies' /\ replies'[n + 1] = Response(g, "ACCEPTED")
  <2> HIDE DEF r, n
  <2> QED BY <1>3, <1>4
<1>6. /\ Open'
      /\ g <= stopped_upto /\ g \notin crowded =>
           cancel_requested \/ \E h \in Goals : h > g /\ Waiting(requests', "GOAL", h)
  <2> HIDE DEF n, r
  <2> QED BY <1>1, <1>2, <1>3, <1>4, <1>5, OpenIsAnswered
<1>7. Waiting(replies', "RESPONSE", g)
  BY <1>2, <1>5 DEF Waiting
<1>8. CancelNotLost'
  BY <1>1, <1>6, <1>7 DEF CancelNotLost
<1> QED BY <1>6, <1>8 DEF Rest

LEMMA RejectKeepsCancel ==
    ASSUME CancelInv, TypeOK', Reject, UNCHANGED clientVars
    PROVE  Rest'
<1> DEFINE g == Head(requests).goal
           n == Len(replies)
<1>1. /\ Next_Request("GOAL") /\ running' = None /\ g \in Goals /\ TypeOK
      /\ replies' = Append(replies, Response(g, "REJECTED"))
  BY RequestTaken DEF Reject, CancelInv, DriveInv, Reported
<1>2. Response(g, "REJECTED") \in ReplyMsg /\ Response(g, "REJECTED").goal = g
        /\ Response(g, "REJECTED").kind = "RESPONSE"
  BY <1>1, MessageTypes DEF Answers, Response
<1>3. /\ DOMAIN replies' = 1 .. n + 1 /\ DOMAIN replies = 1 .. n /\ n \in Nat
      /\ \A k \in 1 .. n : replies'[k] = replies[k]
      /\ replies'[n + 1] = Response(g, "REJECTED")
  BY <1>1, <1>2, Typed, Appended
<1>4. /\ \A k \in 1 .. n : k \in DOMAIN replies' /\ replies'[k] = replies[k]
      /\ n + 1 \in DOMAIN replies' /\ \A k \in DOMAIN replies' : k \in 1 .. n \/ k = n + 1
  BY <1>3
<1>5. Open'
  BY <1>1, <1>2, <1>3, <1>4, OpenIsAnswered
<1> QED BY <1>1, <1>5 DEF CancelNotLost, Rest

\* The goal that runs ends, and at most a cancel is taken.
LEMMA EndKeepsCancel ==
    ASSUME CancelInv, TypeOK', UNCHANGED clientVars, NEW out \in Outcomes, NEW d \in {0, 1},
           replies' = replies \o Ended(out), running' = None,
           \A i \in DOMAIN requests' : i \in Nat /\ i + d \in DOMAIN requests
                                         /\ requests'[i] = requests[i + d],
           \A i \in DOMAIN requests : requests[i].kind = "GOAL" =>
             i - d \in DOMAIN requests' /\ requests'[i - d] = requests[i]
    PROVE  Rest'
<1>1. /\ \A k \in DOMAIN replies' : \/ k \in DOMAIN replies /\ replies'[k] = replies[k]
                                    \/ replies'[k].kind = "RESULT"
      /\ \A k \in DOMAIN replies : k \in DOMAIN replies' /\ replies'[k] = replies[k]
  BY EndedAddsResult DEF CancelInv, DriveInv
<1>2. SameOpen(d, 0)
  BY <1>1, Typed DEF SameOpen, CancelInv, DriveInv
<1>3. Open'
  BY <1>2, OpenStays DEF CancelInv, Rest, clientVars, handleVars
<1> QED BY <1>3 DEF CancelNotLost, Rest

LEMMA HandleCancelKeepsCancel ==
    ASSUME CancelInv, TypeOK', HandleCancel, UNCHANGED clientVars
    PROVE  Rest'
<1>1. /\ Next_Request("CANCEL") /\ TypeOK
      /\ UNCHANGED <<goal_pending, cancel_requested, stopped_upto, crowded>>
  BY DEF HandleCancel, clientVars, handleVars, CancelInv, DriveInv
<1>2. /\ 1 \in DOMAIN requests /\ requests[1] = Head(requests) /\ requests[1].kind = "CANCEL"
      /\ \A i \in DOMAIN requests' : i \in Nat /\ i + 1 \in DOMAIN requests
                                       /\ requests'[i] = requests[i + 1]
  BY <1>1, RequestTaken DEF CancelInv
<1>3. \A i \in DOMAIN requests : i = 1 \/ (i - 1 \in DOMAIN requests' /\ requests'[i - 1] = requests[i])
  <2>1. requests \in Seq(Request) /\ requests # << >> /\ requests' = Tail(requests)
    BY <1>1 DEF Next_Request, TypeOK, Nav2TypeOK
  <2>2. /\ Len(requests) \in Nat \ {0} /\ DOMAIN requests = 1 .. Len(requests)
        /\ DOMAIN requests' = 1 .. Len(requests) - 1
        /\ \A i \in 1 .. Len(requests) - 1 : requests'[i] = requests[i + 1]
    BY <2>1, Shortened
  <2> QED BY <2>2
<1>4. \A i \in DOMAIN requests : requests[i].kind = "GOAL" =>
        i - 1 \in DOMAIN requests' /\ requests'[i - 1] = requests[i]
  BY <1>2, <1>3
<1>5. CASE running' = None /\ replies' = replies \o Ended("CANCELED")
  BY <1>2, <1>4, <1>5, EndKeepsCancel DEF Outcomes
<1>6. CASE running # Head(requests).goal /\ UNCHANGED <<running, replies>>
  <2>1. SameOpen(1, 0)
    BY <1>1, <1>2, <1>4, <1>6, Typed DEF SameOpen
  <2>2. Open'
    BY <1>1, <2>1, OpenStays DEF CancelInv, Rest
  <2>3. /\ Waiting(requests, "CANCEL", running) => Waiting(requests', "CANCEL", running)
        /\ \A h : Waiting(requests, "GOAL", h) => Waiting(requests', "GOAL", h)
    BY <1>2, <1>3, <1>6 DEF Waiting
  <2>4. CancelNotLost'
    BY <1>1, <1>6, <2>3 DEF CancelInv, Rest, CancelNotLost
  <2> QED BY <2>2, <2>4 DEF Rest
<1> QED BY <1>5, <1>6 DEF HandleCancel

LEMMA LifecycleKeepsCancel ==
    ASSUME CancelInv, TypeOK', Lifecycle, UNCHANGED clientVars
    PROVE  Rest'
<1>1. CASE Activate \/ Start
  BY <1>1, RestKept DEF Activate, Start, clientVars, handleVars, CancelInv
<1>2. CASE Deactivate
  <2>1. requests' = requests /\ \A i \in DOMAIN requests : i \in Nat /\ i + 0 = i /\ i - 0 = i
    BY <1>2, Typed DEF Deactivate, CancelInv, DriveInv
  <2> QED BY <1>2, <2>1, EndKeepsCancel DEF Deactivate, Outcomes
<1>3. CASE Crash
  <2>1. DOMAIN requests' = {} /\ DOMAIN replies' = {} /\ running' = None
    BY <1>3 DEF Crash
  <2>2. Open'
    BY <2>1, OpenIsCrowded
  <2> QED BY <2>1, <2>2 DEF CancelNotLost, Rest
<1> QED BY <1>1, <1>2, <1>3 DEF Lifecycle

LEMMA CancelStep == CancelInv /\ [Step]_vars => CancelInv'
<1> SUFFICES ASSUME CancelInv, [Step]_vars PROVE CancelInv'
  OBVIOUS
<1>1. DriveInv' /\ TypeOK'
  BY DriveStep DEF CancelInv, DriveInv
<1> SUFFICES Rest'
  BY <1>1 DEF CancelInv
<1>2. CASE Subscriptions
  <2>1. CASE FollowStart
    BY <2>1, RestKept DEF FollowStart, nav2Vars, handleVars, CancelInv
  <2> QED BY <1>1, <1>2, <2>1, ForwardKeepsCancel, CancelKeepsCancel
          DEF Subscriptions, TargetPose, TargetPoint, Cancel, FollowStop
<1>3. CASE Callbacks
  <2>1. CASE CheckServer
    BY <2>1, RestKept DEF CheckServer, nav2Vars, CancelInv
  <2> QED BY <1>1, <1>3, <2>1, AcceptedKeepsCancel, RejectedKeepsCancel, ResultKeepsCancel
          DEF Callbacks
<1>4. CASE IntervalPasses \/ UNCHANGED vars
  BY <1>4, RestKept DEF IntervalPasses, vars, clientVars, nav2Vars, handleVars, CancelInv
<1>5. CASE Nav2Step /\ UNCHANGED clientVars
  <2>1. ASSUME NEW out \in {"SUCCEEDED", "ABORTED"}, Finish(out) PROVE Rest'
    <3>1. requests' = requests /\ \A i \in DOMAIN requests : i \in Nat /\ i + 0 = i /\ i - 0 = i
      BY <2>1, Typed DEF Finish, CancelInv, DriveInv
    <3> QED BY <1>1, <1>5, <2>1, <3>1, EndKeepsCancel DEF Finish, Outcomes
  <2> QED BY <1>1, <1>5, <2>1, AcceptKeepsCancel, RejectKeepsCancel, HandleCancelKeepsCancel,
             LifecycleKeepsCancel DEF Nav2Step, Answer
<1> QED BY <1>2, <1>3, <1>4, <1>5 DEF Step

LEMMA CancelInvariant == Spec => []CancelInv
BY CancelInit, CancelStep, NextIsStep, PTL DEF Spec

\* A cancel reaches every goal sent before it, with any number of goals without a
\* response and whatever Nav2 and the other messages do, but for one that was sent while
\* another had no response (_goal_pending and _cancel_requested stand for all of them, and
\* the response of the older clears them).
THEOREM CancelKept == Spec => []CancelNotLost
<1>1. CancelInv => CancelNotLost
  BY DEF CancelInv, Rest
<1> QED BY <1>1, CancelInvariant, PTL
=============================================================================
