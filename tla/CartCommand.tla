---------------------------- MODULE CartCommand ----------------------------
(* The commands of topic cmd/move/cart: the records MoveCommand and        *)
(* FollowCommand of the backend, which parse_cart_command of the bridge    *)
(* takes apart.  A move carries the number of the navigation (requestId).  *)
EXTENDS Naturals, Sequences

CONSTANT MaxMoves   \* moves the backend accepts in a run

ASSUME MoveAssumption == MaxMoves \in Nat

Navigations == 1 .. MaxMoves
NoNavigation == 0

FollowActions == {"FOLLOW_START", "FOLLOW_PAUSE", "FOLLOW_STOP"}

Command == [command : {"MOVE", "CANCEL"}, requestId : Navigations]
             \cup [command : FollowActions, requestId : {NoNavigation}]

MoveCommand(n)   == [command |-> "MOVE", requestId |-> n]
CancelCommand(n) == [command |-> "CANCEL", requestId |-> n]
FollowCommand(a) == [command |-> a, requestId |-> NoNavigation]

\* What /cart/nav_status and status/nav-result say.
NavStatus == {"IDLE", "NAVIGATING", "SUCCEEDED", "ABORTED", "CANCELED",
              "REJECTED", "NAV2_UNAVAILABLE"}
=============================================================================
