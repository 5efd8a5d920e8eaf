--------------------------- MODULE GoalForwarder ---------------------------
(***************************************************************************)
(* The ROS 2 node goal_forwarder.py: it turns target poses (of the         *)
(* backend), target points (of the person follower), cancels and the       *)
(* follow mode into goals and cancels of Nav2, and reports nav_status.     *)
(* The node has one executor, so each callback is one step.                *)
(***************************************************************************)
EXTENDS NavigateAction

CONSTANTS
    MaxUnanswered,   \* goals sent whose response has not been handled
    MaxRequests      \* messages to Nav2 under way when a command is handled

ASSUME ForwarderAssumption == {MaxUnanswered, MaxRequests} \subseteq Nat \ {0}

VARIABLES
    status,            \* _status, also the last message of /cart/nav_status
    active,            \* _active_goal_handle: a goal, or None
    goal_pending,      \* _goal_pending
    cancel_requested,  \* _cancel_requested
    follow_active,     \* _follow_active
    recent,            \* min_goal_interval_sec has not passed since the last goal
    sent,              \* goals sent so far, so the newest one
    stopped_upto,      \* history: goals sent before the last cancel
    crowded            \* history: goals sent while another had no response

handleVars == <<status, active, goal_pending, cancel_requested>>
clientVars == <<handleVars, follow_active, recent, sent, stopped_upto, crowded>>
vars == <<nav2Vars, clientVars>>

Statuses == Outcomes \cup {"IDLE", "NAVIGATING", "REJECTED", "NAV2_UNAVAILABLE"}

Unanswered ==
    Cardinality({i \in DOMAIN requests : requests[i].kind = "GOAL"})
      + Cardinality({i \in DOMAIN replies : replies[i].kind = "RESPONSE"})

Init ==
    /\ Nav2Init
    /\ status = "IDLE" /\ active = None
    /\ goal_pending = FALSE /\ cancel_requested = FALSE
    /\ follow_active = FALSE /\ recent = FALSE
    /\ sent = 0 /\ stopped_upto = 0 /\ crowded = {}

-----------------------------------------------------------------------------
(* Goals. *)

\* _handle_goal past the throttle: send it, or report that Nav2 is not there.
\* Nothing is asked of a goal that is still running: Nav2 preempts it.
Forward ==
    /\ IF server_is_ready
       THEN /\ sent < MaxGoals /\ Unanswered < MaxUnanswered
            /\ sent' = sent + 1
            /\ requests' = Append(requests, SendGoal(sent'))
            /\ goal_pending' = TRUE
            /\ cancel_requested' = FALSE
            /\ recent' = TRUE
            /\ crowded' = crowded \cup {g \in {sent'} : Unanswered > 0}
            /\ UNCHANGED status
       ELSE /\ status' = "NAV2_UNAVAILABLE"
            /\ UNCHANGED <<sent, requests, goal_pending, cancel_requested, recent, crowded>>
    /\ UNCHANGED <<server, running, replies, active, follow_active, stopped_upto>>

\* _on_target_pose: a single command, never throttled.
TargetPose == Forward

\* should_send_goal: the interval holds in any state, the distance while a goal
\* is driven to and after it was reached.
ShouldSend(moved) ==
    \/ sent = 0
    \/ ~recent /\ (status \in {"NAVIGATING", "SUCCEEDED"} => moved)

\* _on_target_point, of the stream of the person follower.
TargetPoint(moved) == follow_active /\ ShouldSend(moved) /\ Forward

IntervalPasses == /\ recent /\ recent' = FALSE
                  /\ UNCHANGED <<nav2Vars, handleVars, follow_active, sent, stopped_upto, crowded>>

-----------------------------------------------------------------------------
(* Cancels. *)

\* Mutant of CancelDrive: a goal without a response is not thought of.
CancelWithoutBooking ==
    /\ requests' = IF active # None /\ status = "NAVIGATING"
                   THEN Append(requests, CancelGoal(active)) ELSE requests
    /\ stopped_upto' = sent
    /\ UNCHANGED <<server, running, replies, status, active, goal_pending,
                   cancel_requested, recent, sent, crowded>>

\* Mutant of CancelDrive: the handle is used without a look at it.
CancelUnchecked ==
    /\ cancel_requested' = (cancel_requested \/ goal_pending)
    /\ requests' = Append(requests, CancelGoal(active))
    /\ stopped_upto' = sent
    /\ UNCHANGED <<server, running, replies, status, active, goal_pending, recent, sent, crowded>>

\* _on_cancel: book the cancel of a goal that has no response yet, and cancel
\* the one that runs.
CancelDrive ==
    /\ cancel_requested' = (cancel_requested \/ goal_pending)
    /\ requests' = IF active # None /\ status = "NAVIGATING"
                   THEN Append(requests, CancelGoal(active)) ELSE requests
    /\ stopped_upto' = sent
    /\ UNCHANGED <<server, running, replies, status, active, goal_pending, recent, sent, crowded>>

Cancel == CancelDrive /\ UNCHANGED follow_active

\* _on_follow_mode: to pause or stop also cancels.
FollowStart == /\ follow_active' = TRUE
               /\ UNCHANGED <<nav2Vars, handleVars, recent, sent, stopped_upto, crowded>>

FollowStop == follow_active' = FALSE /\ CancelDrive

-----------------------------------------------------------------------------
(* What Nav2 answers. *)

NextReply(kind) ==
    /\ replies # << >> /\ Head(replies).kind = kind
    /\ replies' = Tail(replies)
    /\ UNCHANGED <<server, running, follow_active, recent, sent, stopped_upto, crowded>>

\* Mutant of GoalAccepted: the booked cancel is dropped.
AcceptedForgetsCancel ==
    /\ NextReply("RESPONSE") /\ Head(replies).says = "ACCEPTED"
    /\ goal_pending' = FALSE
    /\ active' = Head(replies).goal
    /\ status' = "NAVIGATING"
    /\ cancel_requested' = FALSE
    /\ UNCHANGED requests

\* Mutant of GoalAccepted: the handle of the goal is not kept.
AcceptedWithoutHandle ==
    /\ NextReply("RESPONSE") /\ Head(replies).says = "ACCEPTED"
    /\ goal_pending' = FALSE
    /\ status' = "NAVIGATING"
    /\ cancel_requested' = FALSE
    /\ requests' = IF cancel_requested
                   THEN Append(requests, CancelGoal(Head(replies).goal)) ELSE requests
    /\ UNCHANGED active

\* _on_goal_response.
GoalAccepted ==
    /\ NextReply("RESPONSE") /\ Head(replies).says = "ACCEPTED"
    /\ goal_pending' = FALSE
    /\ active' = Head(replies).goal
    /\ status' = "NAVIGATING"
    /\ cancel_requested' = FALSE
    /\ requests' = IF cancel_requested
                   THEN Append(requests, CancelGoal(active')) ELSE requests

GoalRejected ==
    /\ NextReply("RESPONSE") /\ Head(replies).says = "REJECTED"
    /\ goal_pending' = FALSE
    /\ active' = None
    /\ status' = "REJECTED"
    /\ cancel_requested' = FALSE
    /\ UNCHANGED requests

\* Mutant of GoalResult: no look at whose result it is.
AnyResult ==
    /\ NextReply("RESULT")
    /\ active' = None /\ status' = Head(replies).says
    /\ UNCHANGED <<requests, goal_pending, cancel_requested>>

\* _on_result: the result of a goal that was replaced is ignored.
GoalResult ==
    /\ NextReply("RESULT")
    /\ IF Head(replies).goal = active
       THEN active' = None /\ status' = Head(replies).says
       ELSE UNCHANGED <<active, status>>
    /\ UNCHANGED <<requests, goal_pending, cancel_requested>>

\* _check_server, once a second.
CheckServer ==
    /\ status = "NAVIGATING" /\ ~server_is_ready
    /\ active' = None
    /\ status' = "NAV2_UNAVAILABLE"
    /\ UNCHANGED <<nav2Vars, goal_pending, cancel_requested, follow_active, recent,
                   sent, stopped_upto, crowded>>

-----------------------------------------------------------------------------
Subscriptions == \/ TargetPose \/ Cancel \/ FollowStart \/ FollowStop
                 \/ \E moved \in BOOLEAN : TargetPoint(moved)

Commands == Len(requests) < MaxRequests /\ Subscriptions

Callbacks == GoalAccepted \/ GoalRejected \/ GoalResult \/ CheckServer

Next == Commands \/ Callbacks \/ IntervalPasses \/ (Nav2Step /\ UNCHANGED clientVars)

Spec == Init /\ [][Next]_vars

\* The executor runs what is ready, and Nav2 answers as long as it is up.  It
\* need not come to the end of a drive.
FairSpec == /\ Spec
            /\ WF_vars(Callbacks)
            /\ WF_vars(Answer /\ UNCHANGED clientVars)

-----------------------------------------------------------------------------
(* Properties. *)

TypeOK ==
    /\ Nav2TypeOK
    /\ status \in Statuses /\ active \in Goals \cup {None}
    /\ goal_pending \in BOOLEAN /\ cancel_requested \in BOOLEAN
    /\ follow_active \in BOOLEAN /\ recent \in BOOLEAN
    /\ sent \in 0 .. MaxGoals /\ stopped_upto \in 0 .. sent
    /\ crowded \subseteq Goals

Waiting(msgs, kind, g) ==
    \E i \in DOMAIN msgs : msgs[i].kind = kind /\ msgs[i].goal = g

\* A cancel reaches every goal sent before it, also one that had no response
\* when the cancel came (_goal_pending and _cancel_requested are there for it):
\* while such a goal runs, its cancel is booked or under way, or it is about to
\* be preempted.  One flag stands for all goals without a response, so a goal that was
\* sent while another had none can be missed; any goal but such a one is reached,
\* also when others are sent after it before it has its response.
CancelNotLost ==
    running # None /\ running <= stopped_upto /\ running \notin crowded =>
        \/ Waiting(requests, "CANCEL", running)
        \/ cancel_requested /\ Waiting(replies, "RESPONSE", running)
        \/ \E g \in Goals : g > running /\ Waiting(requests, "GOAL", g)

\* From the moment its response is handled until its end, the goal the cart
\* drives to is the one the node holds, and nav_status says NAVIGATING: results
\* and responses of other goals do not disturb it.
DrivingIsReported ==
    running # None /\ ~Waiting(replies, "RESPONSE", running)
        => active = running /\ status = "NAVIGATING"

\* A cancel stops the cart unless a newer goal is sent.
CancelStops ==
    stopped_upto > 0 /\ stopped_upto = sent /\ sent \notin crowded
        ~> running = None \/ sent > stopped_upto
=============================================================================
