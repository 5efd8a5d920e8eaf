------------------------ MODULE AppEventQueueProofs ------------------------
(* Theorems about AppEventQueue, for every size of the ring and every set  *)
(* of velocities.                                                          *)
EXTENDS AppEventQueue, SequenceTheorems, TLAPS

Cell == Event \cup {Empty}

RingInv ==
    /\ queue_buffer \in [Slots -> Cell]
    /\ queue_head \in Slots /\ queue_tail \in Slots /\ queue_count \in 0 .. QueueSize
    /\ queue_tail = (queue_head + queue_count) % QueueSize
    /\ \A i \in 0 .. queue_count - 1 : queue_buffer[Slot(i)] \in Event

\* Of the events that wait at most one is a velocity.
OneWaits ==
    \A i, j \in 0 .. queue_count - 1 :
        IsVelocity(queue_buffer[Slot(i)]) /\ IsVelocity(queue_buffer[Slot(j)]) => i = j

-----------------------------------------------------------------------------
(* Indices modulo the size of the ring. *)

Around(n, a, i) == IF a + i < n THEN a + i ELSE a + i - n

LEMMA Wrap ==
    ASSUME NEW n \in Nat \ {0}, NEW a \in 0 .. n - 1, NEW i \in 0 .. n
    PROVE  (a + i) % n = Around(n, a, i) /\ Around(n, a, i) \in 0 .. n - 1
BY DEF Around

LEMMA AroundApart ==
    ASSUME NEW n \in Nat \ {0}, NEW a \in 0 .. n - 1, NEW i \in 0 .. n - 1, NEW j \in 0 .. n - 1,
           Around(n, a, i) = Around(n, a, j)
    PROVE  i = j
<1>1. CASE a + i < n
  BY <1>1 DEF Around
<1>2. CASE ~(a + i < n)
  BY <1>2 DEF Around
<1> QED BY <1>1, <1>2

LEMMA AroundNext ==
    ASSUME NEW n \in Nat \ {0}, NEW a \in 0 .. n - 1, NEW i \in 0 .. n - 1
    PROVE  Around(n, Around(n, a, 1), i) = Around(n, a, i + 1)
<1>1. CASE a + 1 < n
  BY <1>1 DEF Around
<1>2. CASE ~(a + 1 < n)
  BY <1>2 DEF Around
<1> QED BY <1>1, <1>2

RingTyped == QueueSize \in Nat \ {0} /\ queue_head \in 0 .. QueueSize - 1

\* The slots from the head on, as far as they are used.
LEMMA SlotIs ==
    ASSUME RingTyped, NEW i \in 0 .. QueueSize
    PROVE  Slot(i) = Around(QueueSize, queue_head, i) /\ Slot(i) \in Slots
BY Wrap DEF RingTyped, Slot, Slots

\* Two of them are different unless they are a round apart.
LEMMA SlotsApart ==
    ASSUME RingTyped, NEW i \in 0 .. QueueSize - 1, NEW j \in 0 .. QueueSize - 1,
           Slot(i) = Slot(j)
    PROVE  i = j
<1>1. Slot(i) = Around(QueueSize, queue_head, i) /\ Slot(j) = Around(QueueSize, queue_head, j)
  BY SlotIs DEF RingTyped
<1> QED BY <1>1, AroundApart DEF RingTyped

ContentsOK ==
    /\ Contents \in Seq(Event) /\ Len(Contents) = queue_count /\ queue_count \in 0 .. QueueSize
    /\ \A i \in 1 .. queue_count : Contents[i] = queue_buffer[Slot(i - 1)]

LEMMA ContentsSeq == RingInv => RingTyped /\ ContentsOK
<1> SUFFICES ASSUME RingInv PROVE RingTyped /\ ContentsOK
  OBVIOUS
<1>1. queue_count \in Nat /\ RingTyped
  BY QueueAssumption DEF RingInv, RingTyped, Slots
<1>2. \A i \in 1 .. queue_count : queue_buffer[Slot(i - 1)] \in Event
  BY <1>1 DEF RingInv
<1> QED BY <1>1, <1>2 DEF Contents, ContentsOK, RingInv

-----------------------------------------------------------------------------
(* The three steps of the ring are steps of the queue. *)

LEMMA PopStep == RingInv /\ OneWaits /\ AppEventQueue_Pop => RingInv' /\ OneWaits' /\ Abstract!Pop
<1> SUFFICES ASSUME RingInv, OneWaits, AppEventQueue_Pop
             PROVE  RingInv' /\ OneWaits' /\ Abstract!Pop
  OBVIOUS
<1>1. /\ QueueSize \in Nat \ {0} /\ queue_count \in 1 .. QueueSize
      /\ queue_head \in 0 .. QueueSize - 1
      /\ queue_count' = queue_count - 1 /\ UNCHANGED <<queue_buffer, queue_tail>>
      /\ queue_head' = Slot(1)
  BY QueueAssumption DEF AppEventQueue_Pop, RingInv, Slots, Slot
<1>2. queue_head' = Around(QueueSize, queue_head, 1) /\ queue_head' \in Slots
  BY <1>1, SlotIs DEF RingTyped
<1>3. \A i \in 0 .. QueueSize - 1 : Slot(i)' = Slot(i + 1)
  <2> SUFFICES ASSUME NEW i \in 0 .. QueueSize - 1 PROVE Slot(i)' = Slot(i + 1)
    OBVIOUS
  <2> DEFINE head == Around(QueueSize, queue_head, 1)
  <2>1. head \in 0 .. QueueSize - 1 /\ queue_head' = head
    BY <1>1, <1>2 DEF Slots
  <2>2. Around(QueueSize, head, i) = Around(QueueSize, queue_head, i + 1)
    BY <1>1, AroundNext
  <2> HIDE DEF head
  <2>3. (head + i) % QueueSize = Around(QueueSize, head, i)
    <3>1. i \in 0 .. QueueSize
      BY <1>1
    <3> QED BY <1>1, <2>1, <3>1, Wrap, Zenon
  <2>4. Slot(i + 1) = Around(QueueSize, queue_head, i + 1)
    BY <1>1, SlotIs DEF RingTyped
  <2>5. Slot(i)' = (head + i) % QueueSize
    BY <2>1 DEF Slot
  <2> QED BY <2>2, <2>3, <2>4, <2>5
<1>4. queue_tail' = (queue_head' + queue_count') % QueueSize
  <2>1. queue_tail = Slot(queue_count)
    BY DEF RingInv, Slot
  <2>2. queue_count' \in 0 .. QueueSize - 1 /\ queue_count' + 1 = queue_count
    BY <1>1
  <2>3. \A i : Slot(i)' = (queue_head' + i) % QueueSize
    BY DEF Slot
  <2>4. (queue_head' + queue_count') % QueueSize = Slot(queue_count' + 1)
    BY <1>3, <2>2, <2>3
  <2> QED BY <1>1, <2>1, <2>2, <2>4
<1>5. \A i \in 0 .. queue_count' - 1 :
        i + 1 \in 0 .. queue_count - 1 /\ queue_buffer'[Slot(i)'] = queue_buffer[Slot(i + 1)]
  BY <1>1, <1>3
<1>6. RingInv'
  BY <1>1, <1>2, <1>4, <1>5 DEF RingInv
<1>7. OneWaits'
  <2> SUFFICES ASSUME NEW i \in 0 .. queue_count' - 1, NEW j \in 0 .. queue_count' - 1,
                      IsVelocity(queue_buffer'[Slot(i)']), IsVelocity(queue_buffer'[Slot(j)'])
               PROVE  i = j
    BY DEF OneWaits
  <2>1. i + 1 = j + 1
    BY <1>5 DEF OneWaits
  <2> QED BY <1>1, <2>1
<1>8. ContentsOK /\ ContentsOK'
  BY <1>6, ContentsSeq, PTL
<1>9. Contents' = Tail(Contents) /\ Contents # << >>
  <2>1. Tail(Contents) \in Seq(Event) /\ Len(Tail(Contents)) = queue_count - 1
          /\ \A i \in 1 .. queue_count - 1 : Tail(Contents)[i] = Contents[i + 1]
    BY <1>1, <1>8 DEF ContentsOK
  <2>2. ASSUME NEW i \in 1 .. queue_count - 1 PROVE Contents'[i] = Contents[i + 1]
    <3>1. Contents'[i] = queue_buffer'[Slot(i - 1)']
      BY <1>1, <1>8 DEF ContentsOK
    <3>2. i - 1 \in 0 .. queue_count' - 1 /\ (i - 1) + 1 = i /\ (i + 1) - 1 = i
      BY <1>1
    <3>3. queue_buffer'[Slot(i - 1)'] = queue_buffer[Slot(i)]
      BY <1>5, <3>2
    <3>4. Contents[i + 1] = queue_buffer[Slot((i + 1) - 1)]
      BY <1>1, <1>8 DEF ContentsOK
    <3> QED BY <3>1, <3>2, <3>3, <3>4
  <2>3. Contents' \in Seq(Event) /\ Len(Contents') = queue_count - 1
    BY <1>1, <1>8 DEF ContentsOK
  <2> QED BY <1>1, <1>8, <2>1, <2>2, <2>3, SeqEqual DEF ContentsOK
<1> QED BY <1>6, <1>7, <1>9 DEF Abstract!Pop

\* An event of a type waits in the ring if it waits in the queue.
LEMMA PendingIs ==
    ASSUME RingInv, NEW type
    PROVE  PendingAt(type) # {} <=> Abstract!Pending(Contents, type)
<1>1. ContentsOK
  BY ContentsSeq
<1>2. ASSUME NEW i \in PendingAt(type) PROVE Abstract!Pending(Contents, type)
  <2>1. i + 1 \in 1 .. queue_count /\ (i + 1) - 1 = i /\ queue_buffer[Slot(i)].type = type
    BY <1>1 DEF PendingAt, ContentsOK
  <2>2. Contents[i + 1].type = type
    <3>1. Contents[i + 1] = queue_buffer[Slot((i + 1) - 1)]
      BY <1>1, <2>1 DEF ContentsOK
    <3> QED BY <2>1, <3>1
  <2>3. i + 1 \in DOMAIN Contents
    BY <1>1, <2>1 DEF Contents
  <2> QED BY <2>2, <2>3 DEF Abstract!Pending
<1>3. ASSUME Abstract!Pending(Contents, type) PROVE PendingAt(type) # {}
  <2>1. PICK i \in 1 .. queue_count : Contents[i].type = type
    BY <1>3 DEF Abstract!Pending, Contents
  <2>2. queue_buffer[Slot(i - 1)].type = type
    BY <1>1, <2>1 DEF ContentsOK
  <2>3. i - 1 \in 0 .. queue_count - 1
    BY <1>1, <2>1 DEF ContentsOK
  <2> QED BY <2>2, <2>3 DEF PendingAt
<1> QED BY <1>2, <1>3

LEMMA EnqueueStep ==
    ASSUME NEW e \in Event
    PROVE  RingInv /\ OneWaits /\ Enqueue(e) => RingInv' /\ OneWaits' /\ Abstract!Push(e)
<1> SUFFICES ASSUME RingInv, OneWaits, Enqueue(e)
             PROVE  RingInv' /\ OneWaits' /\ Abstract!Push(e)
  OBVIOUS
<1>1. /\ QueueSize \in Nat \ {0} /\ queue_count \in 0 .. QueueSize - 1
      /\ queue_head \in 0 .. QueueSize - 1 /\ queue_head' = queue_head
      /\ queue_count' = queue_count + 1 /\ queue_tail' = (queue_tail + 1) % QueueSize
      /\ queue_buffer' = [queue_buffer EXCEPT ![queue_tail] = e]
      /\ queue_tail = Slot(queue_count)
      /\ ~(IsVelocity(e) /\ PendingAt(e.type) # {})
  BY QueueAssumption DEF Enqueue, RingInv, Slots, Slot
<1>2. \A i : Slot(i)' = Slot(i)
  BY <1>1 DEF Slot
<1>3. queue_buffer'[Slot(queue_count)] = e
  BY <1>1 DEF RingInv
<1>4. ASSUME NEW i \in 0 .. queue_count - 1
      PROVE  queue_buffer'[Slot(i)] = queue_buffer[Slot(i)]
  <2>1. Slot(i) # Slot(queue_count) /\ Slot(i) \in Slots
    BY <1>1, SlotIs, SlotsApart DEF RingTyped
  <2> QED BY <1>1, <2>1 DEF RingInv
<1>5. queue_tail' = Slot(queue_count + 1) /\ queue_tail' \in Slots
  <2> DEFINE around == Around(QueueSize, queue_head, queue_count)
  <2>1. queue_tail = around /\ around \in 0 .. QueueSize - 1
    BY <1>1, SlotIs DEF RingTyped, Slots
  <2>2. Slot(queue_count + 1) = Around(QueueSize, queue_head, queue_count + 1)
          /\ Slot(queue_count + 1) \in Slots
    BY <1>1, SlotIs DEF RingTyped
  <2>3. Around(QueueSize, queue_head, queue_count + 1) = Around(QueueSize, around, 1)
    <3>1. CASE queue_head + queue_count < QueueSize
      BY <1>1, <3>1 DEF Around
    <3>2. CASE ~(queue_head + queue_count < QueueSize)
      BY <1>1, <3>2 DEF Around
    <3> QED BY <3>1, <3>2
  <2> HIDE DEF around
  <2>4. (around + 1) % QueueSize = Around(QueueSize, around, 1)
    <3>1. 1 \in 0 .. QueueSize
      BY <1>1
    <3> QED BY <1>1, <2>1, <3>1, Wrap, Zenon
  <2> QED BY <1>1, <2>1, <2>2, <2>3, <2>4
<1>6. RingInv'
  <2>1. queue_buffer' \in [Slots -> Cell] /\ queue_count' \in 0 .. QueueSize
          /\ queue_head' \in Slots
    BY <1>1 DEF RingInv, Cell
  <2>2. queue_tail' = (queue_head' + queue_count') % QueueSize
    BY <1>1, <1>5 DEF Slot
  <2>3. \A i \in 0 .. queue_count' - 1 : queue_buffer'[Slot(i)'] \in Event
    <3> SUFFICES ASSUME NEW i \in 0 .. queue_count' - 1 PROVE queue_buffer'[Slot(i)] \in Event
      BY <1>2
    <3>1. i = queue_count \/ i \in 0 .. queue_count - 1
      BY <1>1
    <3> QED BY <1>3, <1>4, <3>1 DEF RingInv
  <2> QED BY <1>5, <2>1, <2>2, <2>3 DEF RingInv
<1>7. OneWaits'
  <2> SUFFICES ASSUME NEW i \in 0 .. queue_count' - 1, NEW j \in 0 .. queue_count' - 1,
                      IsVelocity(queue_buffer'[Slot(i)]), IsVelocity(queue_buffer'[Slot(j)])
               PROVE  i = j
    BY <1>2 DEF OneWaits
  <2>1. (i = queue_count \/ i \in 0 .. queue_count - 1)
          /\ (j = queue_count \/ j \in 0 .. queue_count - 1)
    BY <1>1
  <2>2. ASSUME NEW k \in 0 .. queue_count - 1, IsVelocity(queue_buffer'[Slot(k)]), IsVelocity(e)
        PROVE  FALSE
    <3>1. queue_buffer[Slot(k)].type = e.type
      BY <1>4, <2>2 DEF IsVelocity
    <3> QED BY <1>1, <2>2, <3>1 DEF PendingAt
  <2> QED BY <1>3, <1>4, <2>1, <2>2 DEF OneWaits
<1>8. ContentsOK /\ ContentsOK'
  BY <1>6, ContentsSeq, PTL
<1>9. Contents' = Append(Contents, e)
  <2>1. /\ Append(Contents, e) \in Seq(Event) /\ Len(Append(Contents, e)) = queue_count + 1
        /\ \A i \in 1 .. queue_count : Append(Contents, e)[i] = Contents[i]
        /\ Append(Contents, e)[queue_count + 1] = e
    BY <1>8 DEF ContentsOK
  <2>2. ASSUME NEW i \in 1 .. queue_count + 1 PROVE Contents'[i] = Append(Contents, e)[i]
    <3>1. Contents'[i] = queue_buffer'[Slot(i - 1)]
      BY <1>1, <1>2, <1>8 DEF ContentsOK
    <3>2. CASE i = queue_count + 1
      <4>1. i - 1 = queue_count
        BY <1>1, <3>2
      <4> QED BY <1>3, <2>1, <3>1, <3>2, <4>1
    <3>3. CASE i \in 1 .. queue_count
      <4>1. i - 1 \in 0 .. queue_count - 1
        BY <1>1, <3>3
      <4> QED BY <1>4, <1>8, <2>1, <3>1, <3>3, <4>1 DEF ContentsOK
    <3>4. i = queue_count + 1 \/ i \in 1 .. queue_count
      BY <1>1
    <3> QED BY <3>2, <3>3, <3>4
  <2>3. Contents' \in Seq(Event) /\ Len(Contents') = queue_count + 1
    BY <1>1, <1>8 DEF ContentsOK
  <2> QED BY <1>1, <2>1, <2>2, <2>3, SeqEqual
<1>10. Abstract!Push(e)
  <2>1. ~(IsVelocity(e) /\ Abstract!Pending(Contents, e.type))
    BY <1>1, PendingIs
  <2>2. Len(Contents) < QueueSize
    BY <1>1, <1>8 DEF ContentsOK
  <2> QED BY <1>9, <2>1, <2>2 DEF Abstract!Push, Abstract!Pushed, IsVelocity, Abstract!IsVelocity
<1> QED BY <1>6, <1>7, <1>10

LEMMA CoalesceStep ==
    ASSUME NEW e \in Event
    PROVE  RingInv /\ OneWaits /\ Coalesce(e) => RingInv' /\ OneWaits' /\ Abstract!Push(e)
<1> SUFFICES ASSUME RingInv, OneWaits, Coalesce(e)
             PROVE  RingInv' /\ OneWaits' /\ Abstract!Push(e)
  OBVIOUS
<1>1. /\ QueueSize \in Nat \ {0} /\ queue_count \in 0 .. QueueSize /\ RingTyped
      /\ UNCHANGED <<queue_head, queue_tail, queue_count>>
      /\ IsVelocity(e) /\ PendingAt(e.type) # {}
      /\ queue_buffer' = [queue_buffer EXCEPT ![FindPendingIndex(e.type)] = e]
  BY QueueAssumption DEF Coalesce, RingInv, RingTyped, Slots
<1>2. \A i : Slot(i)' = Slot(i)
  BY <1>1 DEF Slot
<1>3. PICK k \in PendingAt(e.type) : TRUE
  BY <1>1
<1>4. k \in 0 .. queue_count - 1 /\ queue_buffer[Slot(k)].type = e.type
        /\ IsVelocity(queue_buffer[Slot(k)])
  BY <1>1, <1>3 DEF PendingAt, IsVelocity
<1>5. \A j \in PendingAt(e.type) : j = k
  BY <1>1, <1>4 DEF PendingAt, IsVelocity, OneWaits
<1>6. FindPendingIndex(e.type) = Slot(k)
  <2>1. \A j \in PendingAt(e.type) : k <= j
    BY <1>1, <1>4, <1>5
  <2>2. (CHOOSE i \in PendingAt(e.type) : \A j \in PendingAt(e.type) : i <= j) = k
    BY <1>3, <1>5, <2>1
  <2> QED BY <2>2 DEF FindPendingIndex
<1>7. \A i \in 0 .. queue_count - 1 :
        queue_buffer'[Slot(i)] = IF i = k THEN e ELSE queue_buffer[Slot(i)]
  <2> SUFFICES ASSUME NEW i \in 0 .. queue_count - 1
               PROVE  queue_buffer'[Slot(i)] = IF i = k THEN e ELSE queue_buffer[Slot(i)]
    OBVIOUS
  <2>1. Slot(i) \in Slots /\ (Slot(i) = Slot(k) <=> i = k)
    <3>1. /\ i \in 0 .. QueueSize - 1 /\ k \in 0 .. QueueSize - 1
          /\ i \in 0 .. QueueSize
      BY <1>1, <1>4
    <3> QED BY <1>1, <3>1, SlotIs, SlotsApart
  <2> QED BY <1>1, <1>6, <2>1 DEF RingInv
<1>8. RingInv'
  <2>1. queue_buffer' \in [Slots -> Cell]
    BY <1>1 DEF RingInv, Cell
  <2>2. \A i \in 0 .. queue_count - 1 : queue_buffer'[Slot(i)] \in Event
    BY <1>7 DEF RingInv
  <2> QED BY <1>1, <1>2, <2>1, <2>2 DEF RingInv
<1>9. \A i \in 0 .. queue_count - 1 :
        IsVelocity(queue_buffer'[Slot(i)]) <=> IsVelocity(queue_buffer[Slot(i)])
  BY <1>1, <1>4, <1>7
<1>10. OneWaits'
  BY <1>1, <1>2, <1>9 DEF OneWaits
<1>11. ContentsOK /\ ContentsOK'
  BY <1>8, ContentsSeq, PTL
<1>12. Contents' = [i \in DOMAIN Contents |-> IF IsVelocity(Contents[i]) THEN e ELSE Contents[i]]
  <2>1. DOMAIN Contents = 1 .. queue_count /\ DOMAIN Contents' = 1 .. queue_count
    BY <1>1 DEF Contents
  <2>2. ASSUME NEW i \in 1 .. queue_count
        PROVE  Contents'[i] = IF IsVelocity(Contents[i]) THEN e ELSE Contents[i]
    <3>1. i - 1 \in 0 .. queue_count - 1
      BY <1>1
    <3>2. Contents'[i] = queue_buffer'[Slot(i - 1)] /\ Contents[i] = queue_buffer[Slot(i - 1)]
      BY <1>1, <1>2, <1>11 DEF ContentsOK
    <3>3. IsVelocity(Contents[i]) <=> i - 1 = k
      BY <1>4, <3>1, <3>2 DEF OneWaits
    <3> QED BY <1>7, <3>1, <3>2, <3>3
  <2>3. Contents' = [i \in DOMAIN Contents' |-> Contents'[i]]
    BY DEF Contents
  <2> QED BY <2>1, <2>2, <2>3
<1>13. Abstract!Push(e)
  <2>1. Abstract!Pending(Contents, e.type)
    BY <1>1, PendingIs
  <2> QED BY <1>1, <1>12, <2>1 DEF Abstract!Push, Abstract!Pushed, IsVelocity, Abstract!IsVelocity
<1> QED BY <1>8, <1>10, <1>13

-----------------------------------------------------------------------------
LEMMA RingStep == RingInv /\ OneWaits /\ [Next]_vars
                    => RingInv' /\ OneWaits' /\ [Abstract!QueueNext]_Contents
<1> SUFFICES ASSUME RingInv, OneWaits, [Next]_vars
             PROVE  RingInv' /\ OneWaits' /\ [Abstract!QueueNext]_Contents
  OBVIOUS
<1>1. CASE AppEventQueue_Pop
  BY <1>1, PopStep DEF Abstract!QueueNext
<1>2. ASSUME NEW e \in Event, PushInternal(e)
      PROVE  RingInv' /\ OneWaits' /\ Abstract!QueueNext
  <2>1. Abstract!Push(e) /\ RingInv' /\ OneWaits'
    BY <1>2, EnqueueStep, CoalesceStep DEF PushInternal
  <2> QED BY <2>1 DEF Abstract!QueueNext, Event, Abstract!Event, StopTypes, Abstract!StopTypes
<1>3. CASE UNCHANGED vars
  <2>1. UNCHANGED <<queue_buffer, queue_head, queue_tail, queue_count>>
    BY <1>3 DEF vars
  <2>2. \A i : Slot(i)' = Slot(i)
    BY <2>1 DEF Slot
  <2>3. RingInv' /\ OneWaits'
    BY <2>1, <2>2 DEF RingInv, OneWaits
  <2>4. Contents' = Contents
    BY <2>1, <2>2 DEF Contents
  <2> QED BY <2>3, <2>4
<1> QED BY <1>1, <1>2, <1>3 DEF Next

LEMMA RingInit == AppEventQueue_Init => RingInv /\ OneWaits /\ Abstract!QueueInit
<1> SUFFICES ASSUME AppEventQueue_Init PROVE RingInv /\ OneWaits /\ Abstract!QueueInit
  OBVIOUS
<1>1. /\ QueueSize \in Nat \ {0} /\ queue_head = 0 /\ queue_tail = 0 /\ queue_count = 0
      /\ queue_buffer = [s \in Slots |-> Empty]
  BY QueueAssumption DEF AppEventQueue_Init
<1>2. (0 + 0) % QueueSize = 0
  BY <1>1, Wrap DEF Around
<1>3. RingInv /\ OneWaits
  BY <1>1, <1>2 DEF RingInv, OneWaits, Cell, Slots
<1>4. Contents = << >>
  BY <1>1 DEF Contents
<1> QED BY <1>3, <1>4 DEF Abstract!QueueInit

\* Whatever its size, the ring of app_event.c is the bounded queue in which a newer
\* velocity takes the place of the one that waits: no event is lost, invented or moved
\* when head and tail wrap.
THEOREM RingRefinement == Spec => ImplementsQueue
BY RingInit, RingStep, PTL DEF Spec, ImplementsQueue, Abstract!QueueSpec

\* Head, tail and count agree, and the slots in use hold events (RingTypeOK).
THEOREM RingTypes == Spec => []RingTypeOK
<1>1. RingInv => RingTypeOK
  BY ContentsSeq DEF RingInv, RingTypeOK, ContentsOK
<1> QED BY <1>1, RingInit, RingStep, PTL DEF Spec
=============================================================================
