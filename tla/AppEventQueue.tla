--------------------------- MODULE AppEventQueue ---------------------------
(***************************************************************************)
(* The ring buffer of Application/App/app_event.c.  Pushes come from the   *)
(* main loop and from interrupts, pops from the main loop; each holds      *)
(* PRIMASK from its first to its last access, so each is one step.         *)
(***************************************************************************)
EXTENDS AppEvent

VARIABLES
    queue_buffer, queue_head, queue_tail, queue_count

vars == <<queue_buffer, queue_head, queue_tail, queue_count>>

Slots == 0 .. QueueSize - 1

\* What an unused slot holds: queue_buffer is static, so APP_EVENT_NONE.
Empty == [type |-> "NONE", vel |-> Zero]

\* The slot i places behind the head.
Slot(i) == (queue_head + i) % QueueSize

AppEventQueue_Init ==
    /\ queue_buffer = [s \in Slots |-> Empty]
    /\ queue_head = 0 /\ queue_tail = 0 /\ queue_count = 0

PendingAt(type) ==
    {i \in 0 .. queue_count - 1 : queue_buffer[Slot(i)].type = type}

\* Mutant of FindPendingIndex: the distance from the head instead of the slot.
FindPendingOffset(type) ==
    CHOOSE i \in PendingAt(type) : \A j \in PendingAt(type) : i <= j

\* The first pending event of the type, counted from the head.
FindPendingIndex(type) ==
    Slot(CHOOSE i \in PendingAt(type) : \A j \in PendingAt(type) : i <= j)

Coalesce(e) ==
    /\ IsVelocity(e) /\ PendingAt(e.type) # {}
    /\ queue_buffer' = [queue_buffer EXCEPT ![FindPendingIndex(e.type)] = e]
    /\ UNCHANGED <<queue_head, queue_tail, queue_count>>

Enqueue(e) ==
    /\ ~(IsVelocity(e) /\ PendingAt(e.type) # {})
    /\ queue_count < QueueSize
    /\ queue_buffer' = [queue_buffer EXCEPT ![queue_tail] = e]
    /\ queue_tail' = (queue_tail + 1) % QueueSize
    /\ queue_count' = queue_count + 1
    /\ UNCHANGED queue_head

\* AppEventQueue_Push and PushFromISR; a push into a full queue changes nothing.
PushInternal(e) == Coalesce(e) \/ Enqueue(e)

AppEventQueue_Pop ==
    /\ queue_count > 0
    /\ queue_head' = (queue_head + 1) % QueueSize
    /\ queue_count' = queue_count - 1
    /\ UNCHANGED <<queue_buffer, queue_tail>>

Next == AppEventQueue_Pop \/ \E e \in Event : PushInternal(e)

Spec == AppEventQueue_Init /\ [][Next]_vars

-----------------------------------------------------------------------------
\* The events that wait, oldest first.
Contents == [i \in 1 .. queue_count |-> queue_buffer[Slot(i - 1)]]

Abstract == INSTANCE EventQueue WITH queue <- Contents

\* The ring is the bounded, coalescing FIFO the controllers are written for:
\* no event is lost, invented or reordered when the indices wrap around.
ImplementsQueue == Abstract!QueueSpec

\* Head, tail and count agree, and live slots hold events.
RingTypeOK ==
    /\ queue_head \in Slots /\ queue_tail \in Slots
    /\ queue_count \in 0 .. QueueSize
    /\ queue_tail = (queue_head + queue_count) % QueueSize
    /\ Contents \in Seq(Event)
=============================================================================
