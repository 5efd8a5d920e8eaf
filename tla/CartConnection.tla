--------------------------- MODULE CartConnection ---------------------------
(***************************************************************************)
(* The row of one cart in the database, and the transactions of the        *)
(* backend that read it whole and write it back whole: signs of life of    *)
(* the MQTT thread, the watchdog, and moves started, cancelled and ended.  *)
(* Cart has no version column, so a commit overwrites what was committed   *)
(* since the read.  The sessions of NavigationService are in memory and    *)
(* the events for the frontend leave at once: neither is rolled back.      *)
(* NavigationService.tla has the same requests as single steps, with the   *)
(* person follower and restarts.                                           *)
(***************************************************************************)
EXTENDS FiniteSets

CONSTANT Requests   \* threads that serve requests

ASSUME ConnectionAssumption == {"mqtt", "watchdog"} \cap Requests = {}

VARIABLES
    row,       \* connection_status and operation_status
    tx,        \* the transaction of each thread
    session,   \* activeByCartId holds a navigation
    shown,     \* the last CART_CONNECTION_UPDATED
    alive,     \* the cart sends signs of life
    will,      \* its last will ("offline") has not been delivered
    ordered,   \* the last command that has left for the cart is a MOVE
    crossed,   \* history: what transactions in each other's way have left behind
    robbed,    \* history: starts whose session was removed before their MOVE left
    orphaned   \* history: the session of the last MOVE was removed before it left,
               \* or by a report of the cart since

moveVars == <<session, ordered, robbed, orphaned>>
lifeVars == <<alive, will>>
vars == <<row, tx, moveVars, lifeVars, shown, crossed>>

Threads == {"mqtt", "watchdog"} \cup Requests
Row == [conn : {"ONLINE", "OFFLINE"}, op : {"IDLE", "NAVIGATING"}]
Moves == {"START", "CANCEL", "COMPLETE"}
Life == {"BEAT", "STALE"}
NoTx == [kind |-> "NONE"]

InFlight(kinds) == {t \in Threads : tx[t].kind \in kinds}
At(t, kind, at) == tx[t].kind = kind /\ tx[t].at = at

Init ==
    /\ row = [conn |-> "OFFLINE", op |-> "IDLE"]
    /\ tx = [t \in Threads |-> NoTx]
    /\ session = FALSE /\ ordered = FALSE
    /\ shown = FALSE /\ alive = TRUE /\ will = TRUE
    /\ crossed = {} /\ robbed = {} /\ orphaned = FALSE

-----------------------------------------------------------------------------
(* A transaction reads the row, does its work and commits.  The work on    *)
(* what is in memory that follows the read at once is one step with it.    *)

\* The column that a kind is there to change, and who else changes it.
Column(kind) == IF kind \in Moves THEN "op" ELSE "conn"
Peers(kind) == IF kind \in Moves THEN Moves ELSE Life

\* findById.  History: lone, no peer has overlapped with the transaction.
Read(t, kind, at) ==
    /\ tx[t] = NoTx
    /\ tx' = LET peers == InFlight(Peers(kind)) IN
             [p \in Threads |->
                CASE p = t -> [kind |-> kind, at |-> at, old |-> row, lone |-> peers = {}]
                  [] p \in peers -> [tx[p] EXCEPT !.lone = FALSE]
                  [] OTHER -> tx[p]]
    /\ UNCHANGED row

Step(t, kind, from, to) ==
    /\ At(t, kind, from)
    /\ tx' = [tx EXCEPT ![t].at = to]
    /\ UNCHANGED row

\* Mutant of Updated: a cart that is offline is idle.
UpdatedIdle(c) ==
    CASE c.kind = "BEAT" -> [c.old EXCEPT !.conn = "ONLINE"]
      [] c.kind = "START" -> [c.old EXCEPT !.op = "NAVIGATING"]
      [] c.kind = "STALE" -> [conn |-> "OFFLINE", op |-> "IDLE"]
      [] OTHER -> [c.old EXCEPT !.op = "IDLE"]

\* The arguments of Cart.updateStatus: the other column is the one that was read.
Updated(c) ==
    CASE c.kind = "BEAT" -> [c.old EXCEPT !.conn = "ONLINE"]
      [] c.kind = "STALE" -> [c.old EXCEPT !.conn = "OFFLINE"]
      [] c.kind = "START" -> [c.old EXCEPT !.op = "NAVIGATING"]
      [] OTHER -> [c.old EXCEPT !.op = "IDLE"]

\* Hibernate writes the row if a column of it has changed.  The time of a sign of
\* life always has.
Dirty(c) == c.kind = "BEAT" \/ Updated(c) # c.old

\* What a commit leaves behind.  A column that has changed since the read is
\* overwritten with what was read; one that meets no peer and finds its column as
\* it was puts in order again what others have left behind.  For the connection
\* it must be a transition: nothing else is published.
Overwrites(c) == {f \in {"conn", "op"} : Dirty(c) /\ c.old[f] # row[f]}
Overlaps(c) == IF c.lone THEN {} ELSE {Column(c.kind)}
Mends(c) == {f \in {Column(c.kind)} : /\ c.lone /\ c.old[f] = row[f]
                                      /\ f = "conn" => Updated(c)[f] # row[f]}

Ends(t) == /\ tx[t] # NoTx /\ tx[t].at = "done"
           /\ tx' = [tx EXCEPT ![t] = NoTx]
           /\ UNCHANGED <<moveVars, lifeVars, shown>>

Commit(t) ==
    /\ Ends(t)
    /\ row' = IF Dirty(tx[t]) THEN Updated(tx[t]) ELSE row
    /\ crossed' = (crossed \ Mends(tx[t])) \cup Overwrites(tx[t]) \cup Overlaps(tx[t])

\* Mutant of Rollback: the session goes with the transaction.
RollbackSession(t) ==
    /\ tx[t] # NoTx /\ tx[t].at = "done"
    /\ tx' = [tx EXCEPT ![t] = NoTx]
    /\ session' = (session /\ tx[t].kind # "START")
    /\ crossed' = crossed \cup {Column(tx[t].kind)}
    /\ UNCHANGED <<row, ordered, robbed, orphaned, lifeVars, shown>>

Rollback(t) ==
    /\ Ends(t)
    /\ crossed' = crossed \cup {Column(tx[t].kind)}
    /\ UNCHANGED row

-----------------------------------------------------------------------------
(* Signs of life, and their absence. *)

\* Mutant of MarkAlive: the row is changed before it is asked.
MarkAliveUnseen ==
    /\ alive \/ will
    /\ will' = (will /\ alive)
    /\ Read("mqtt", "BEAT", "done")
    /\ UNCHANGED <<moveVars, alive, shown, crossed>>

\* markAlive, for a heartbeat, a position or an event of a slot: a transition is
\* published.  Every message on the topic of the heartbeat is a sign of life, the
\* last will too.
MarkAlive ==
    /\ alive \/ will
    /\ will' = (will /\ alive)
    /\ Read("mqtt", "BEAT", "done")
    /\ shown' = (shown \/ row.conn = "OFFLINE")
    /\ UNCHANGED <<moveVars, alive, crossed>>

\* Mutant of MarkStale: a cart that drives is left alone.
MarkStaleAtRest ==
    /\ row.conn = "ONLINE" /\ row.op = "IDLE"
    /\ Read("watchdog", "STALE", "done")
    /\ shown' = FALSE
    /\ UNCHANGED <<moveVars, lifeVars, crossed>>

\* markStaleCartsOffline finds the cart and sees that its time is up, which may be
\* at any moment: the time between signs of life is not bounded.
MarkStale ==
    /\ row.conn = "ONLINE"
    /\ Read("watchdog", "STALE", "done")
    /\ shown' = FALSE
    /\ UNCHANGED <<moveVars, lifeVars, crossed>>

-----------------------------------------------------------------------------
(* Moves.  A start that is refused changes nothing. *)

\* start: its two conditions hold, ...
Start(t) ==
    /\ row.conn = "ONLINE" /\ ~session
    /\ Read(t, "START", "accepted")
    /\ UNCHANGED <<moveVars, lifeVars, shown, crossed>>

\* ... the session is stored ...
PutSession(t) ==
    /\ Step(t, "START", "accepted", "stored")
    /\ session' = TRUE
    /\ UNCHANGED <<ordered, robbed, orphaned, lifeVars, shown, crossed>>

\* ... and the command leaves.
PublishMove(t) ==
    /\ Step(t, "START", "stored", "done")
    /\ ordered' = TRUE
    /\ orphaned' = (t \in robbed) /\ robbed' = robbed \ {t}
    /\ UNCHANGED <<session, lifeVars, shown, crossed>>

\* activeByCartId.remove, of cancel and of completeFromCart.
RemoveSession ==
    /\ session' = FALSE
    /\ robbed' = robbed \cup {p \in Threads : session /\ At(p, "START", "stored")}

\* cancel: the session is removed ...
Cancel(t) ==
    /\ session
    /\ Read(t, "CANCEL", "removed")
    /\ RemoveSession
    /\ UNCHANGED <<ordered, orphaned, lifeVars, shown, crossed>>

\* ... and the command leaves.
PublishCancel(t) ==
    /\ Step(t, "CANCEL", "removed", "done")
    /\ ordered' = FALSE
    /\ UNCHANGED <<session, robbed, orphaned, lifeVars, shown, crossed>>

\* cancel without a session tidies up the status.
CancelNothing(t) ==
    /\ ~session
    /\ Read(t, "CANCEL", "done")
    /\ UNCHANGED <<moveVars, lifeVars, shown, crossed>>

\* completeFromCart, for a terminal status, which may come at any time and be about
\* any goal: whatever session there is has ended, and the cart is not asked.  Which
\* goal it is about is in CartMission.tla.
CompleteFromCart ==
    /\ Read("mqtt", "COMPLETE", "done")
    /\ RemoveSession
    /\ orphaned' = (orphaned \/ session)
    /\ UNCHANGED <<ordered, lifeVars, shown, crossed>>

-----------------------------------------------------------------------------
CartGoes == alive /\ alive' = FALSE /\ UNCHANGED <<row, tx, moveVars, will, shown, crossed>>

CartComes == ~alive /\ alive' = TRUE /\ will' = TRUE
             /\ UNCHANGED <<row, tx, moveVars, shown, crossed>>

Request(t) == \/ Start(t) \/ PutSession(t) \/ PublishMove(t)
              \/ Cancel(t) \/ PublishCancel(t) \/ CancelNothing(t)

Next == \/ MarkAlive \/ MarkStale \/ CompleteFromCart \/ CartGoes \/ CartComes
        \/ \E t \in Requests : Request(t)
        \/ \E t \in Threads : Commit(t) \/ Rollback(t)

Spec == Init /\ [][Next]_vars

\* The time of a cart that is silent is up some time, and not every commit of the
\* two threads that look after its connection fails.
LiveSpec ==
    /\ Spec
    /\ WF_vars(~alive /\ MarkStale)
    /\ \A t \in {"mqtt", "watchdog"} : SF_vars(Commit(t))

-----------------------------------------------------------------------------
TypeOK ==
    /\ row \in Row
    /\ \A t \in Threads : tx[t] # NoTx => tx[t].old \in Row /\ tx[t].lone \in BOOLEAN
    /\ {session, shown, alive, will, ordered, orphaned} \subseteq BOOLEAN
    /\ crossed \subseteq {"conn", "op"} /\ robbed \subseteq Threads

\* The frontend shows a cart as connected if and only if its row says so, unless a
\* sign of life overlapped with the watchdog, a transaction has written back a
\* connection that had changed since it was read, or one has failed after its
\* event.  The next transition on its own puts it right.
ShownIsStored ==
    InFlight(Life) = {} /\ "conn" \notin crossed => shown = (row.conn = "ONLINE")

\* With no request or report under way the row says NAVIGATING if and only if
\* there is a session, unless two of them overlapped, one failed, or a sign of
\* life wrote back the status of before.  Whatever went wrong, the next request or
\* report that meets no other puts it right.
StatusIsSession ==
    InFlight(Moves) = {} /\ "op" \notin crossed => (row.op = "NAVIGATING") = session

\* A move that has left can be cancelled: as long as no CANCEL has followed it, there
\* is a session, or a CANCEL is about to leave.  Two starts at once, a failed commit
\* and overwritten rows do not change that.  It takes a session that was removed
\* before its MOVE had left, or one that a report of the cart has removed since.
DriveCanBeCancelled ==
    ordered /\ ~orphaned => session \/ \E t \in Threads : At(t, "CANCEL", "removed")

\* When a cart falls silent for good and nobody asks anything of it any more, it is
\* OFFLINE for good, in the row and on the screen, whatever has overlapped before.
\* Only a "connected" whose transaction has failed may stay on the screen: nothing
\* takes it back.
SilenceShows ==
    <>[](~alive /\ InFlight({"START", "CANCEL"}) = {})
        => <>[](row.conn = "OFFLINE" /\ (shown => "conn" \in crossed))
=============================================================================
