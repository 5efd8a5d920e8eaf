----------------------------- MODULE EventQueue -----------------------------
(***************************************************************************)
(* What AppEventQueue (Application/App/app_event.c) promises: a bounded    *)
(* FIFO of events in which at most one SET_WHEEL_VELOCITY is pending, a    *)
(* newer one replacing its value in place.  AppEventQueue.tla is the ring  *)
(* buffer that implements it; CartFirmware.tla is built on it.             *)
(***************************************************************************)
EXTENDS AppEvent

VARIABLE queue

\* An event of the given type is waiting.
Pending(q, t) == \E i \in DOMAIN q : q[i].type = t

\* What AppEventQueue_Push(e) returns.
Accepted(q, e) == Len(q) < QueueSize \/ (IsVelocity(e) /\ Pending(q, e.type))

\* Mutant of Pushed: a full queue is not noticed.
PushedUnbounded(q, e) ==
    IF IsVelocity(e) /\ Pending(q, e.type)
    THEN [i \in DOMAIN q |-> IF IsVelocity(q[i]) THEN e ELSE q[i]]
    ELSE Append(q, e)

\* The queue after AppEventQueue_Push(e): coalesced, appended, or (full) dropped.
Pushed(q, e) ==
    IF IsVelocity(e) /\ Pending(q, e.type)
    THEN [i \in DOMAIN q |-> IF IsVelocity(q[i]) THEN e ELSE q[i]]
    ELSE IF Len(q) < QueueSize THEN Append(q, e) ELSE q

-----------------------------------------------------------------------------
QueueInit == queue = << >>

Push(e) == queue' = Pushed(queue, e)

Pop == /\ queue # << >>
       /\ queue' = Tail(queue)

QueueNext == Pop \/ \E e \in Event : Push(e)

QueueSpec == QueueInit /\ [][QueueNext]_queue

-----------------------------------------------------------------------------
\* At most one SET_WHEEL_VELOCITY waits, so a stream of velocity commands can
\* never take the slots of the stops (app_event.h, comment on the queue).
OnePendingVelocity ==
    \A i, j \in DOMAIN queue :
        IsVelocity(queue[i]) /\ IsVelocity(queue[j]) => i = j

QueueTypeOK == queue \in Seq(Event) /\ Len(queue) <= QueueSize
=============================================================================
