--------------------------- MODULE NavigateAction ---------------------------
(***************************************************************************)
(* Nav2's NavigateToPose action, external to the repository, as the goal   *)
(* forwarder uses it: goals are numbered in the order they are sent, each  *)
(* is answered (accepted or rejected), an accepted goal ends with a result *)
(* and preempts the one before, a cancel ends the goal it names.  Messages *)
(* keep their order in either direction.                                   *)
(***************************************************************************)
EXTENDS Naturals, Sequences, FiniteSets

CONSTANT MaxGoals   \* goals sent in a run

ASSUME GoalAssumption == MaxGoals \in Nat

VARIABLES
    server,    \* lifecycle of bt_navigator, GONE while the process is down
    running,   \* the goal the cart drives to, or None
    requests,  \* from the client: goals and cancels
    replies    \* to the client: responses and results

nav2Vars == <<server, running, requests, replies>>

Goals == 1 .. MaxGoals
None == 0

Outcomes == {"SUCCEEDED", "ABORTED", "CANCELED"}

SendGoal(g)     == [kind |-> "GOAL", goal |-> g]
CancelGoal(g)   == [kind |-> "CANCEL", goal |-> g]
Response(g, ok) == [kind |-> "RESPONSE", goal |-> g, says |-> ok]
Result(g, out)  == [kind |-> "RESULT", goal |-> g, says |-> out]

Answers == {"ACCEPTED", "REJECTED"}

Request == [kind : {"GOAL", "CANCEL"}, goal : Goals]
ReplyMsg == [kind : {"RESPONSE"}, goal : Goals, says : Answers]
              \cup [kind : {"RESULT"}, goal : Goals, says : Outcomes]

server_is_ready == server # "GONE"

\* The result of the goal that stops running, if one runs.
Ended(out) == IF running = None THEN << >> ELSE <<Result(running, out)>>

Nav2Init == server = "ACTIVE" /\ running = None /\ requests = << >> /\ replies = << >>

-----------------------------------------------------------------------------
Next_Request(kind) ==
    /\ server_is_ready /\ requests # << >> /\ Head(requests).kind = kind
    /\ requests' = Tail(requests)
    /\ UNCHANGED server

Accept ==
    /\ server = "ACTIVE"
    /\ Next_Request("GOAL")
    /\ running' = Head(requests).goal
    /\ replies' = Append(replies, Response(running', "ACCEPTED")) \o Ended("ABORTED")

Reject ==
    /\ server = "INACTIVE"
    /\ Next_Request("GOAL")
    /\ replies' = Append(replies, Response(Head(requests).goal, "REJECTED"))
    /\ UNCHANGED running

HandleCancel ==
    /\ Next_Request("CANCEL")
    /\ IF running = Head(requests).goal
       THEN running' = None /\ replies' = replies \o Ended("CANCELED")
       ELSE UNCHANGED <<running, replies>>

Finish(out) ==
    /\ running # None
    /\ running' = None
    /\ replies' = replies \o Ended(out)
    /\ UNCHANGED <<server, requests>>

Activate ==
    /\ server = "INACTIVE" /\ server' = "ACTIVE"
    /\ UNCHANGED <<running, requests, replies>>

Deactivate ==
    /\ server = "ACTIVE" /\ server' = "INACTIVE"
    /\ running' = None
    /\ replies' = replies \o Ended("ABORTED")
    /\ UNCHANGED requests

\* The process dies, and with it the goal and every message on its way.
Crash ==
    /\ server_is_ready /\ server' = "GONE"
    /\ running' = None /\ requests' = << >> /\ replies' = << >>

Start ==
    /\ server = "GONE" /\ server' = "INACTIVE"
    /\ UNCHANGED <<running, requests, replies>>

Answer == Accept \/ Reject \/ HandleCancel
Lifecycle == Activate \/ Deactivate \/ Crash \/ Start

Nav2Step == Answer \/ Lifecycle \/ \E out \in {"SUCCEEDED", "ABORTED"} : Finish(out)

-----------------------------------------------------------------------------
Nav2TypeOK ==
    /\ server \in {"ACTIVE", "INACTIVE", "GONE"}
    /\ running \in Goals \cup {None}
    /\ requests \in Seq(Request)
    /\ replies \in Seq(ReplyMsg)
=============================================================================
