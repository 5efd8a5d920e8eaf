-------------------------- MODULE SlotBoardProofs --------------------------
(* Theorems about SlotBoard, for every set of slots, books and zones and   *)
(* every bound on messages, moves and faults.                              *)
EXTENDS SlotBoard, SequenceTheorems, FiniteSetTheorems, TLAPS

Event == [event : {"DETECTED", "REMOVED"}, slot : Slots, uid : Books]

EventTypes ==
    /\ inside \in [Slots -> Tags] /\ present \in [Slots -> Tags]
    /\ events \in Seq(Event) /\ handled \in 0 .. Len(events)

BoardTypes == copy \in [Slots -> Registered \cup {NoBook}] /\ active \subseteq Registered

\* A copy is in one slot at most.
OneSlot == \A s, p \in Slots : copy[s] = copy[p] /\ copy[s] # NoBook => s = p

-----------------------------------------------------------------------------
LEMMA EmitTypes ==
    ASSUME EventTypes, NEW s \in Slots, NEW card \in Tags, NEW new \in Seq(Event),
           Emit(s, card, new)
    PROVE  EventTypes'
<1>1. events' = events \o new /\ present' = [present EXCEPT ![s] = card]
        /\ UNCHANGED <<inside, handled>>
  BY DEF Emit
<1>2. events' \in Seq(Event) /\ Len(events') = Len(events) + Len(new)
  BY <1>1, ConcatProperties DEF EventTypes
<1>3. Len(new) \in Nat /\ Len(events) \in Nat
  BY LenProperties DEF EventTypes
<1> QED BY <1>1, <1>2, <1>3 DEF EventTypes

LEMMA EventTypesInductive == EventTypes /\ [Next]_vars => EventTypes'
<1> SUFFICES ASSUME EventTypes, [Next]_vars PROVE EventTypes'
  OBVIOUS
<1>0. NoBook \in Tags /\ Books \subseteq Tags
  BY DEF Tags
<1>a. \A s \in Slots : Removed(s) \in Seq(Event) /\ (inside[s] # NoBook => inside[s] \in Books)
  <2> SUFFICES ASSUME NEW s \in Slots
               PROVE  Removed(s) \in Seq(Event) /\ (inside[s] # NoBook => inside[s] \in Books)
    OBVIOUS
  <2>1. inside[s] \in Tags /\ present[s] \in Tags
    BY DEF EventTypes
  <2>2. CASE present[s] = NoBook
    BY <2>1, <2>2 DEF Removed, Tags
  <2>3. CASE present[s] # NoBook
    <3>1. [event |-> "REMOVED", slot |-> s, uid |-> present[s]] \in Event
      BY <2>1, <2>3 DEF Event, Tags
    <3>2. Removed(s) = <<[event |-> "REMOVED", slot |-> s, uid |-> present[s]]>>
      BY <2>3 DEF Removed
    <3> QED BY <2>1, <3>1, <3>2 DEF Tags
  <2> QED BY <2>2, <2>3
<1>1. ASSUME NEW s \in Slots, Take(s) PROVE EventTypes'
  BY <1>0, <1>1 DEF Take, EventTypes, piVars, linkVars
<1>2. ASSUME NEW s \in Slots, NEW b \in Books, Place(b, s) PROVE EventTypes'
  BY <1>0, <1>2 DEF Place, EventTypes, piVars, linkVars
<1>3. ASSUME NEW s \in Slots, Seen(s) PROVE EventTypes'
  <2>1. inside[s] \in Books /\ Emit(s, inside[s], Removed(s) \o <<Detected(s, inside[s])>>)
    BY <1>3, <1>a DEF Seen
  <2>2. <<Detected(s, inside[s])>> \in Seq(Event)
    BY <2>1 DEF Detected, Event
  <2>3. Removed(s) \o <<Detected(s, inside[s])>> \in Seq(Event)
    BY <1>a, <2>2, ConcatProperties
  <2> QED BY <1>0, <2>1, <2>3, EmitTypes
<1>4. ASSUME NEW s \in Slots, NotSeen(s) PROVE EventTypes'
  BY <1>0, <1>4, <1>a, EmitTypes DEF NotSeen
<1>5. CASE PiRestart
  BY <1>0, <1>5 DEF PiRestart, EventTypes
<1>6. CASE Accept
  BY <1>6 DEF Accept, EventTypes, piVars
<1>7. CASE Acknowledge
  <2>1. events # << >> /\ Tail(events) \in Seq(Event) /\ Len(Tail(events)) = Len(events) - 1
    BY <1>7, HeadTailProperties DEF Acknowledge, EventTypes
  <2> QED BY <1>7, <2>1 DEF Acknowledge, EventTypes, piVars
<1>8. CASE Reconnect
  BY <1>8, LenProperties DEF Reconnect, EventTypes, piVars
<1>9. CASE EventLost
  <2>1. events # << >> /\ Tail(events) \in Seq(Event) /\ Len(Tail(events)) \in Nat
    BY <1>9, HeadTailProperties, LenProperties DEF EventLost, EventTypes
  <2> QED BY <1>9, <2>1 DEF EventLost, EventTypes, piVars
<1>10. CASE Lit \/ CommandLost
  BY <1>10 DEF Lit, CommandLost, EventTypes, piVars
<1>11. ASSUME NEW z \in Places, Position(z) PROVE EventTypes'
  BY <1>11 DEF Position, EventTypes, piVars
<1>12. CASE UNCHANGED vars
  BY <1>12 DEF vars, EventTypes, piVars, linkVars
<1> QED BY <1>1, <1>2, <1>3, <1>4, <1>5, <1>6, <1>7, <1>8, <1>9, <1>10, <1>11, <1>12 DEF Next

-----------------------------------------------------------------------------
TaskOK == BoardTypes /\ OneSlot /\ BookInSlotHasTask

LEMMA DetectTask ==
    ASSUME TaskOK, NEW s \in Slots, NEW b, Detect(s, b)
    PROVE  TaskOK'
<1>1. NoBook \notin Registered
  BY BoardAssumption
<1>2. CASE b \in Registered
  <2>1. /\ copy' = [p \in Slots |-> IF p = s THEN b ELSE IF copy[p] = b THEN NoBook ELSE copy[p]]
        /\ active' = active \cup {b}
    BY <1>2 DEF Detect, Assign
  <2>2. BoardTypes'
    BY <1>2, <2>1 DEF TaskOK, BoardTypes
  <2>3. OneSlot'
    BY <1>1, <1>2, <2>1 DEF TaskOK, OneSlot, BoardTypes
  <2>4. BookInSlotHasTask'
    BY <1>1, <1>2, <2>1 DEF TaskOK, BookInSlotHasTask, BoardTypes
  <2> QED BY <2>2, <2>3, <2>4 DEF TaskOK
<1>3. CASE b \notin Registered
  BY <1>3 DEF Detect, TaskOK, BoardTypes, OneSlot, BookInSlotHasTask
<1> QED BY <1>2, <1>3

LEMMA RemoveTask ==
    ASSUME TaskOK, NEW s \in Slots, Remove(s)
    PROVE  TaskOK'
<1>1. /\ copy' = [copy EXCEPT ![s] = NoBook] /\ active' = active \ {copy[s]}
      /\ \A p \in Slots : copy'[p] = IF p = s THEN NoBook ELSE copy[p]
  BY DEF Remove, TaskOK, BoardTypes
<1>2. BoardTypes'
  BY <1>1 DEF TaskOK, BoardTypes
<1>3. OneSlot'
  BY <1>1 DEF TaskOK, OneSlot
<1>4. BookInSlotHasTask'
  BY <1>1 DEF TaskOK, OneSlot, BookInSlotHasTask
<1> QED BY <1>2, <1>3, <1>4 DEF TaskOK

LEMMA TaskInductive == EventTypes /\ TaskOK /\ [Next]_vars => TaskOK'
<1> SUFFICES ASSUME EventTypes, TaskOK, [Next]_vars PROVE TaskOK'
  OBVIOUS
<1>1. CASE Accept
  <2> DEFINE e == events[handled + 1]
  <2>1. e \in Event
    <3>1. handled + 1 \in 1 .. Len(events)
      BY <1>1, LenProperties DEF Accept, EventTypes
    <3> QED BY <3>1, ElementOfSeq DEF EventTypes
  <2>2. Detect(e.slot, e.uid) \/ Remove(e.slot)
    BY <1>1 DEF Accept
  <2> HIDE DEF e
  <2>3. e.slot \in Slots
    BY <2>1 DEF Event
  <2> QED BY <2>2, <2>3, DetectTask, RemoveTask
<1>2. CASE UNCHANGED <<copy, active>>
  BY <1>2 DEF TaskOK, BoardTypes, OneSlot, BookInSlotHasTask
<1>3. ASSUME NEW s \in Slots,
             Take(s) \/ Seen(s) \/ NotSeen(s) \/ \E b \in Books : Place(b, s)
      PROVE  UNCHANGED <<copy, active>>
  BY <1>3 DEF Take, Seen, NotSeen, Place, Emit, boardVars
<1>4. CASE PiRestart \/ Acknowledge \/ Reconnect \/ EventLost \/ Lit \/ CommandLost
  BY <1>2, <1>4 DEF PiRestart, Acknowledge, Reconnect, EventLost, Lit, CommandLost, boardVars
<1>5. ASSUME NEW z \in Places, Position(z) PROVE UNCHANGED <<copy, active>>
  BY <1>5 DEF Position, boardVars
<1>6. CASE UNCHANGED vars
  BY <1>2, <1>6 DEF vars, boardVars
<1> QED BY <1>1, <1>2, <1>3, <1>4, <1>5, <1>6 DEF Next

\* A copy that is in a slot of the database has a task to be done, however the events of
\* the readers were lost, repeated or came late (SlotRfidEventService, TaskService): it
\* is in one slot only, so the removal that completes its task empties that slot.
THEOREM LoadedHasTask == Spec => []BookInSlotHasTask
<1>1. Init => EventTypes
  BY DEF Init, EventTypes, Tags
<1>2. Init => TaskOK
  BY DEF Init, TaskOK, BoardTypes, OneSlot, BookInSlotHasTask
<1>3. TaskOK => BookInSlotHasTask
  BY DEF TaskOK
<1> QED BY <1>1, <1>2, <1>3, EventTypesInductive, TaskInductive, PTL DEF Spec
-----------------------------------------------------------------------------
(* The events of a reader tell its story without a gap. *)

TailAt(q) == /\ Len(q) \in Nat \ {0} /\ Len(Tail(q)) = Len(q) - 1
             /\ \A i \in 1 .. Len(q) - 1 : Tail(q)[i] = q[i + 1]

LEMMA TailElements == ASSUME NEW q \in Seq(Event), q # << >> PROVE TailAt(q)
BY DEF TailAt

LEMMA AppendElements ==
    ASSUME NEW q \in Seq(Event), NEW e \in Event
    PROVE  /\ Append(q, e) \in Seq(Event)
           /\ Len(q) \in Nat /\ Len(Append(q, e)) = Len(q) + 1
           /\ Append(q, e)[Len(q) + 1] = e
           /\ \A i \in 1 .. Len(q) : Append(q, e)[i] = q[i]
OBVIOUS

\* What the reader saw in the slot before the event, and after it.
Before(e) == IF e.event = "DETECTED" THEN NoBook ELSE e.uid
After(e)  == IF e.event = "DETECTED" THEN e.uid ELSE NoBook

\* No event of the same slot follows the one at i.
IsLast(q, i) == \A j \in i + 1 .. Len(q) : q[j].slot # q[i].slot

\* The event at k is the one before that at j of the same slot, and j continues it.
Continues(q, k, j) ==
    /\ q[k].slot = q[j].slot /\ After(q[k]) = Before(q[j])
    /\ \A m \in k + 1 .. j - 1 : q[m].slot # q[j].slot

\* An event that is not the first of its slot continues another one.
Chained(q) ==
    \A j \in 1 .. Len(q) : \A i \in 1 .. j - 1 : q[i].slot = q[j].slot =>
        \E k \in i .. j - 1 : Continues(q, k, j)

HasLast(q) ==
    \A i \in 1 .. Len(q) : \E j \in i .. Len(q) : q[j].slot = q[i].slot /\ IsLast(q, j)

EndsAt(q, f) == \A i \in 1 .. Len(q) : IsLast(q, i) => f[q[i].slot] = After(q[i])

\* The events in q are the last ones of readers that now see f.
Tracks(q, f) == Chained(q) /\ HasLast(q) /\ EndsAt(q, f)

LEMMA TracksNone == ASSUME NEW f PROVE Tracks(<< >>, f)
BY DEF Tracks, Chained, HasLast, EndsAt

LEMMA TracksTail ==
    ASSUME NEW q \in Seq(Event), NEW f, q # << >>, Tracks(q, f)
    PROVE  Tracks(Tail(q), f)
<1> DEFINE r == Tail(q)
<1>1. /\ Len(q) \in Nat \ {0} /\ Len(r) = Len(q) - 1
      /\ \A i \in 1 .. Len(q) - 1 : r[i] = q[i + 1]
  BY TailElements DEF TailAt
<1> HIDE DEF r
<1>2. \A i \in 1 .. Len(r) : IsLast(r, i) <=> IsLast(q, i + 1)
  <2> SUFFICES ASSUME NEW i \in 1 .. Len(r) PROVE IsLast(r, i) <=> IsLast(q, i + 1)
    OBVIOUS
  <2>1. r[i] = q[i + 1]
    BY <1>1
  <2>2. IsLast(q, i + 1) => IsLast(r, i)
    BY <1>1, <2>1 DEF IsLast
  <2>3. ASSUME IsLast(r, i), NEW j \in i + 2 .. Len(q) PROVE q[j].slot # q[i + 1].slot
    <3>1. j - 1 \in i + 1 .. Len(r) /\ r[j - 1] = q[j]
      BY <1>1, <2>3
    <3> QED BY <2>1, <2>3, <3>1 DEF IsLast
  <2>4. i + 1 + 1 = i + 2
    BY <1>1
  <2> QED BY <2>2, <2>3, <2>4 DEF IsLast
<1>3. Chained(r)
  <2> SUFFICES ASSUME NEW j \in 1 .. Len(r), NEW i \in 1 .. j - 1, r[i].slot = r[j].slot
               PROVE  \E k \in i .. j - 1 : Continues(r, k, j)
    BY DEF Chained
  <2>1. j + 1 \in 1 .. Len(q) /\ i + 1 \in 1 .. (j + 1) - 1 /\ r[i] = q[i + 1] /\ r[j] = q[j + 1]
    BY <1>1
  <2>2. \E k \in i + 1 .. (j + 1) - 1 : Continues(q, k, j + 1)
    BY <2>1 DEF Tracks, Chained
  <2>3. PICK k \in i + 1 .. (j + 1) - 1 : Continues(q, k, j + 1)
    BY <2>2
  <2>4. k - 1 \in i .. j - 1 /\ r[k - 1] = q[k]
    BY <1>1, <2>3
  <2>5. ASSUME NEW m \in (k - 1) + 1 .. j - 1 PROVE r[m].slot # r[j].slot
    <3>1. m + 1 \in k + 1 .. (j + 1) - 1 /\ r[m] = q[m + 1]
      BY <1>1, <2>3, <2>5
    <3> QED BY <2>1, <2>3, <3>1 DEF Continues
  <2> QED BY <2>1, <2>3, <2>4, <2>5 DEF Continues
<1>4. HasLast(r)
  <2> SUFFICES ASSUME NEW i \in 1 .. Len(r)
               PROVE  \E j \in i .. Len(r) : r[j].slot = r[i].slot /\ IsLast(r, j)
    BY DEF HasLast
  <2>1. i + 1 \in 1 .. Len(q)
    BY <1>1
  <2>2. PICK j \in i + 1 .. Len(q) : q[j].slot = q[i + 1].slot /\ IsLast(q, j)
    BY <2>1 DEF Tracks, HasLast
  <2>3. j - 1 \in i .. Len(r) /\ r[j - 1] = q[j] /\ r[i] = q[i + 1] /\ (j - 1) + 1 = j
    BY <1>1, <2>2
  <2>4. j - 1 \in 1 .. Len(r)
    BY <2>3
  <2> QED BY <1>2, <2>2, <2>3, <2>4
<1>5. EndsAt(r, f)
  <2> SUFFICES ASSUME NEW i \in 1 .. Len(r), IsLast(r, i) PROVE f[r[i].slot] = After(r[i])
    BY DEF EndsAt
  <2>1. i + 1 \in 1 .. Len(q) /\ r[i] = q[i + 1] /\ IsLast(q, i + 1)
    BY <1>1, <1>2
  <2> QED BY <2>1 DEF Tracks, EndsAt
<1> QED BY <1>3, <1>4, <1>5 DEF Tracks, r

\* A reader that says what it saw before and what it sees now continues its story.
LEMMA TracksAppend ==
    ASSUME NEW q \in Seq(Event), NEW f \in [Slots -> Tags], NEW e \in Event, Tracks(q, f),
           Before(e) = f[e.slot]
    PROVE  Tracks(Append(q, e), [f EXCEPT ![e.slot] = After(e)])
<1> DEFINE r == Append(q, e)
           n == Len(q)
           g == [f EXCEPT ![e.slot] = After(e)]
<1>1. n \in Nat /\ Len(r) = n + 1 /\ r[n + 1] = e /\ \A i \in 1 .. n : r[i] = q[i]
  BY AppendElements
<1>2. e.slot \in Slots /\ \A i \in 1 .. n : q[i].slot \in Slots
  <2>1. \A i \in 1 .. n : q[i] \in Event
    BY ElementOfSeq
  <2> QED BY <2>1 DEF Event
<1> HIDE DEF r, n
<1>3. IsLast(r, n + 1)
  BY <1>1 DEF IsLast
<1>4. \A i \in 1 .. n : IsLast(r, i) <=> IsLast(q, i) /\ q[i].slot # e.slot
  <2> SUFFICES ASSUME NEW i \in 1 .. n
               PROVE  IsLast(r, i) <=> IsLast(q, i) /\ q[i].slot # e.slot
    OBVIOUS
  <2>1. \A j : j \in i + 1 .. n + 1 <=> j \in i + 1 .. n \/ j = n + 1
    BY <1>1
  <2> QED BY <1>1, <2>1 DEF IsLast, n
<1>5. Chained(r)
  <2> SUFFICES ASSUME NEW j \in 1 .. n + 1, NEW i \in 1 .. j - 1, r[i].slot = r[j].slot
               PROVE  \E k \in i .. j - 1 : Continues(r, k, j)
    BY <1>1 DEF Chained
  <2>1. CASE j \in 1 .. n
    <3>1. q[i].slot = q[j].slot
      BY <1>1, <2>1
    <3>2. PICK k \in i .. j - 1 : Continues(q, k, j)
      BY <2>1, <3>1 DEF Tracks, Chained, n
    <3> QED BY <1>1, <2>1, <3>2 DEF Continues
  <2>2. CASE j = n + 1
    <3>1. i \in 1 .. n /\ q[i].slot = e.slot
      BY <1>1, <2>2
    <3>2. PICK k \in i .. n : q[k].slot = q[i].slot /\ IsLast(q, k)
      BY <3>1 DEF Tracks, HasLast, n
    <3>3. After(q[k]) = Before(e)
      BY <1>1, <3>1, <3>2 DEF Tracks, EndsAt, n
    <3>4. \A m \in k + 1 .. n : q[m].slot # e.slot
      BY <3>1, <3>2 DEF IsLast, n
    <3> QED BY <1>1, <2>2, <3>1, <3>2, <3>3, <3>4 DEF Continues
  <2> QED BY <1>1, <2>1, <2>2
<1>6. HasLast(r)
  <2> SUFFICES ASSUME NEW i \in 1 .. n + 1
               PROVE  \E j \in i .. n + 1 : r[j].slot = r[i].slot /\ IsLast(r, j)
    BY <1>1 DEF HasLast
  <2>1. CASE r[i].slot = e.slot
    BY <1>1, <1>3, <2>1
  <2>2. CASE r[i].slot # e.slot
    <3>1. i \in 1 .. n
      BY <1>1, <2>2
    <3>2. PICK j \in i .. n : q[j].slot = q[i].slot /\ IsLast(q, j)
      BY <3>1 DEF Tracks, HasLast, n
    <3> QED BY <1>1, <1>4, <2>2, <3>1, <3>2
  <2> QED BY <2>1, <2>2
<1>7. EndsAt(r, g)
  <2> SUFFICES ASSUME NEW i \in 1 .. n + 1, IsLast(r, i) PROVE g[r[i].slot] = After(r[i])
    BY <1>1 DEF EndsAt
  <2>1. CASE i = n + 1
    BY <1>1, <1>2, <2>1
  <2>2. CASE i \in 1 .. n
    <3>1. IsLast(q, i) /\ q[i].slot # e.slot /\ r[i] = q[i]
      BY <1>1, <1>4, <2>2
    <3> QED BY <1>2, <2>2, <3>1 DEF Tracks, EndsAt, n
  <2> QED BY <1>1, <2>1, <2>2
<1> QED BY <1>5, <1>6, <1>7 DEF Tracks, r


Removal(s, b) == [event |-> "REMOVED", slot |-> s, uid |-> b]

\* What a reader adds to the events when it finds that what it saw has changed.
Added(s) ==
    /\ events' \in Seq(Event) /\ Len(events) \in Nat /\ Len(events') \in Nat
    /\ Len(events') > Len(events)
    /\ \A i \in 1 .. Len(events) : events'[i] = events[i]
    /\ \A i \in Len(events) + 1 .. Len(events') :
           \/ events'[i] = Removal(s, present[s]) /\ present[s] \in Books
           \/ events'[i] = Detected(s, inside[s]) /\ inside[s] \in Books
    /\ present[s] \in Books => events'[Len(events) + 1] = Removal(s, present[s])
    /\ inside[s] \in Books => events'[Len(events')] = Detected(s, inside[s])
                                /\ (present[s] \in Books => Len(events') = Len(events) + 2)

LEMMA AddedOne ==
    ASSUME EventTypes, NEW s \in Slots, NEW e \in Event, events' = Append(events, e),
           \/ e = Removal(s, present[s]) /\ inside[s] = NoBook /\ present[s] \in Books
           \/ e = Detected(s, inside[s]) /\ inside[s] \in Books /\ present[s] = NoBook
    PROVE  Added(s)
<1>1. /\ events' \in Seq(Event) /\ Len(events) \in Nat /\ Len(events') = Len(events) + 1
      /\ events'[Len(events) + 1] = e /\ \A i \in 1 .. Len(events) : events'[i] = events[i]
  BY AppendElements DEF EventTypes
<1>2. \A i \in Len(events) + 1 .. Len(events') : i = Len(events) + 1
  BY <1>1
<1>3. NoBook \notin Books
  BY BoardAssumption
<1> QED BY <1>1, <1>2, <1>3 DEF Added

LEMMA AddedTwo ==
    ASSUME EventTypes, NEW s \in Slots, present[s] \in Books, inside[s] \in Books,
           events' = Append(Append(events, Removal(s, present[s])), Detected(s, inside[s]))
    PROVE  Added(s)
<1> DEFINE r == Removal(s, present[s])
           d == Detected(s, inside[s])
           q == Append(events, r)
<1>1. r \in Event /\ d \in Event
  BY DEF Removal, Detected, Event
<1>2. /\ q \in Seq(Event) /\ Len(events) \in Nat /\ Len(q) = Len(events) + 1
      /\ q[Len(events) + 1] = r /\ \A i \in 1 .. Len(events) : q[i] = events[i]
  BY <1>1, AppendElements DEF EventTypes
<1> HIDE DEF q
<1>3. /\ events' \in Seq(Event) /\ Len(events') = Len(q) + 1
      /\ events'[Len(q) + 1] = d /\ \A i \in 1 .. Len(q) : events'[i] = q[i]
  BY <1>1, <1>2, AppendElements DEF q
<1>4. Len(events) + 1 \in 1 .. Len(q) /\ events'[Len(events) + 1] = r
        /\ \A i \in 1 .. Len(events) : events'[i] = events[i]
  BY <1>2, <1>3
<1>5. \A i \in Len(events) + 1 .. Len(events') : i = Len(events) + 1 \/ i = Len(q) + 1
  BY <1>2, <1>3
<1> QED BY <1>2, <1>3, <1>4, <1>5 DEF Added

LEMMA EmitTracks ==
    ASSUME EventTypes, Tracks(events, present), NEW s \in Slots, Seen(s) \/ NotSeen(s)
    PROVE  /\ Added(s) /\ Tracks(events', present')
           /\ inside[s] # present[s] /\ present' = [present EXCEPT ![s] = inside[s]]
           /\ elsewhere' = {p \in Slots \ {s} : p \in elsewhere
                                                  \/ present[p] \in {inside[s]} \ {NoBook}}
           /\ UNCHANGED <<inside, handled, boardVars, taken, doubtful, missed, hopped, repeated>>
<1>0. inside[s] \in Tags /\ present[s] \in Tags /\ NoBook \notin Books /\ Tags = Books \cup {NoBook}
  BY BoardAssumption DEF EventTypes, Tags
<1> DEFINE new == IF inside[s] = NoBook THEN Removed(s)
                  ELSE Removed(s) \o <<Detected(s, inside[s])>>
           r == Removal(s, present[s])
           d == Detected(s, inside[s])
<1>1. Emit(s, inside[s], new) /\ inside[s] # present[s]
  BY DEF Seen, NotSeen
<1>2. /\ events' = events \o new /\ present' = [present EXCEPT ![s] = inside[s]]
      /\ elsewhere' = {p \in Slots \ {s} : p \in elsewhere
                                             \/ present[p] \in {inside[s]} \ {NoBook}}
      /\ UNCHANGED <<inside, handled, boardVars, taken, doubtful, missed, hopped, repeated>>
  BY <1>1 DEF Emit
<1>3. events \in Seq(Event)
  BY DEF EventTypes
<1>4. CASE inside[s] = NoBook
  <2>1. present[s] \in Books /\ events' = Append(events, r)
    BY <1>0, <1>1, <1>2, <1>3, <1>4 DEF Removed, Removal
  <2>2. r \in Event /\ Before(r) = present[r.slot] /\ After(r) = inside[s] /\ r.slot = s
    BY <1>4, <2>1 DEF Removal, Event, Before, After
  <2>3. Added(s)
    BY <1>4, <2>1, <2>2, AddedOne
  <2>4. Tracks(events', present')
    BY <1>2, <1>3, <2>1, <2>2, TracksAppend DEF EventTypes
  <2> QED BY <1>1, <1>2, <2>3, <2>4
<1>5. CASE inside[s] # NoBook /\ present[s] = NoBook
  <2>1. inside[s] \in Books /\ events' = Append(events, d)
    BY <1>0, <1>2, <1>3, <1>5 DEF Removed
  <2>2. d \in Event /\ Before(d) = present[d.slot] /\ After(d) = inside[s] /\ d.slot = s
    BY <1>5, <2>1 DEF Detected, Event, Before, After
  <2>3. Added(s)
    BY <1>5, <2>1, <2>2, AddedOne
  <2>4. Tracks(events', present')
    BY <1>2, <1>3, <2>1, <2>2, TracksAppend DEF EventTypes
  <2> QED BY <1>1, <1>2, <2>3, <2>4
<1>6. CASE inside[s] # NoBook /\ present[s] # NoBook
  <2>1. inside[s] \in Books /\ present[s] \in Books /\ Removed(s) = <<r>>
    BY <1>0, <1>6 DEF Removed, Removal
  <2>2. r \in Event /\ Before(r) = present[r.slot] /\ After(r) = NoBook /\ r.slot = s
    BY <2>1 DEF Removal, Event, Before, After
  <2>3. d \in Event /\ Before(d) = NoBook /\ After(d) = inside[s] /\ d.slot = s
    BY <2>1 DEF Detected, Event, Before, After
  <2>4. events' = Append(Append(events, r), d)
    <3>1. events' = events \o (<<r>> \o <<d>>)
      BY <1>2, <1>6, <2>1
    <3> HIDE DEF r, d
    <3> QED BY <1>3, <2>2, <2>3, <3>1
  <2>5. Added(s)
    BY <2>1, <2>4, AddedTwo
  <2> DEFINE f == [present EXCEPT ![s] = NoBook]
  <2>6. f \in [Slots -> Tags] /\ f[s] = NoBook /\ [f EXCEPT ![s] = inside[s]] = present'
    BY <1>0, <1>2 DEF EventTypes
  <2>7. Append(events, r) \in Seq(Event) /\ Tracks(Append(events, r), f)
    BY <1>3, <2>2, TracksAppend, AppendElements DEF EventTypes
  <2> HIDE DEF f, r, d
  <2>8. Tracks(events', present')
    BY <2>3, <2>4, <2>6, <2>7, TracksAppend
  <2> QED BY <1>1, <1>2, <2>5, <2>8
<1> QED BY <1>4, <1>5, <1>6

-----------------------------------------------------------------------------
(* The readers, the librarian and the events between them. *)

readVars == <<inside, present, events, handled, boardVars, taken, doubtful, missed,
              elsewhere, hopped, repeated>>

\* The lamps and the zone leave the books alone.
LEMMA LampsStand ==
    Lit \/ CommandLost \/ (\E z \in Places : Position(z)) \/ UNCHANGED vars => UNCHANGED readVars
BY DEF Lit, CommandLost, Position, vars, readVars, faultVars, piVars, linkVars

\* The steps that the books see.
BookStep ==
    \/ \E s \in Slots : Seen(s) \/ NotSeen(s) \/ Take(s) \/ \E b \in Books : Place(b, s)
    \/ PiRestart \/ Accept \/ Acknowledge \/ Reconnect \/ EventLost
    \/ UNCHANGED readVars

LEMMA StepCases == [Next]_vars => BookStep
BY LampsStand DEF Next, BookStep

OnePlace == \A s, p \in Slots : inside[s] = inside[p] /\ inside[s] # NoBook => s = p

\* A reader that saw a card before it came to another slot says so later, or the
\* card is known to be elsewhere.
Overtaken ==
    \A i \in 1 .. Len(events) : events[i].event = "DETECTED" =>
        \A s \in Slots \ {events[i].slot} : present[s] = events[i].uid =>
            s \in elsewhere \/ \E j \in i + 1 .. Len(events) : events[j].slot = s

\* A card that is back in the slot it was seen to leave has hopped.
BackHasHopped ==
    \A s \in elsewhere \cap Slots :
        present[s] # NoBook /\ inside[s] = present[s] => present[s] \in hopped

ReaderInv == EventTypes /\ Tracks(events, present) /\ OnePlace /\ Overtaken /\ BackHasHopped

LEMMA OvertakenTail ==
    ASSUME EventTypes, Overtaken, events # << >>, events' = Tail(events),
           UNCHANGED <<present, elsewhere>>
    PROVE  Overtaken'
<1>1. TailAt(events)
  BY TailElements DEF EventTypes
<1> SUFFICES ASSUME NEW i \in 1 .. Len(events'), events'[i].event = "DETECTED",
                    NEW s \in Slots \ {events'[i].slot}, present[s] = events'[i].uid,
                    s \notin elsewhere
             PROVE  \E j \in i + 1 .. Len(events') : events'[j].slot = s
  BY DEF Overtaken
<1>2. i + 1 \in 1 .. Len(events) /\ events'[i] = events[i + 1]
  BY <1>1 DEF TailAt
<1>3. PICK j \in (i + 1) + 1 .. Len(events) : events[j].slot = s
  BY <1>2 DEF Overtaken
<1>4. j - 1 \in i + 1 .. Len(events') /\ events'[j - 1] = events[j]
  BY <1>1, <1>2, <1>3 DEF TailAt
<1> QED BY <1>3, <1>4

LEMMA ReaderSees ==
    ASSUME ReaderInv, NEW s \in Slots, Seen(s) \/ NotSeen(s)
    PROVE  OnePlace' /\ Overtaken' /\ BackHasHopped'
<1>1. /\ Added(s) /\ present' = [present EXCEPT ![s] = inside[s]]
      /\ elsewhere' = {p \in Slots \ {s} : p \in elsewhere
                                             \/ present[p] \in {inside[s]} \ {NoBook}}
      /\ UNCHANGED <<inside, hopped>>
  BY EmitTracks DEF ReaderInv
<1>2. NoBook \notin Books /\ inside[s] \in Tags
        /\ \A p \in Slots : present'[p] = IF p = s THEN inside[s] ELSE present[p]
  BY <1>1, BoardAssumption DEF ReaderInv, EventTypes
<1>3. OnePlace'
  BY <1>1 DEF ReaderInv, OnePlace
<1>4. BackHasHopped'
  <2> SUFFICES ASSUME NEW p \in elsewhere', p \in Slots, present'[p] # NoBook,
                      inside[p] = present'[p]
               PROVE  present'[p] \in hopped
    BY <1>1 DEF BackHasHopped
  <2>1. p # s /\ present'[p] = present[p]
    BY <1>1, <1>2
  <2>2. present[p] # inside[s]
    BY <2>1 DEF ReaderInv, OnePlace
  <2> QED BY <1>1, <2>1, <2>2 DEF ReaderInv, BackHasHopped
<1>5. Overtaken'
  <2> SUFFICES ASSUME NEW i \in 1 .. Len(events'), events'[i].event = "DETECTED",
                      NEW p \in Slots \ {events'[i].slot}, present'[p] = events'[i].uid,
                      p \notin elsewhere'
               PROVE  \E j \in i + 1 .. Len(events') : events'[j].slot = p
    BY DEF Overtaken
  <2>1. CASE i \in 1 .. Len(events) /\ p # s
    <3>1. events'[i] = events[i] /\ present[p] = events[i].uid /\ p \notin elsewhere
      BY <1>1, <1>2, <2>1 DEF Added
    <3>2. PICK j \in i + 1 .. Len(events) : events[j].slot = p
      BY <2>1, <3>1 DEF ReaderInv, Overtaken
    <3>3. j \in i + 1 .. Len(events') /\ events'[j] = events[j]
      BY <1>1, <2>1, <3>2 DEF Added
    <3> QED BY <3>2, <3>3
  <2>2. CASE i \in 1 .. Len(events) /\ p = s
    <3>1. Len(events') \in Len(events) + 1 .. Len(events')
      BY <1>1 DEF Added
    <3>2. events'[Len(events')].slot = s
      BY <1>1, <3>1 DEF Added, Removal, Detected
    <3> QED BY <1>1, <2>2, <3>1, <3>2 DEF Added
  <2>3. CASE i \in Len(events) + 1 .. Len(events')
    <3>1. events'[i] = Detected(s, inside[s]) /\ inside[s] \in Books
      BY <1>1, <2>3 DEF Added, Removal
    <3>2. p # s /\ present[p] = inside[s]
      BY <1>2, <3>1 DEF Detected
    <3> QED BY <1>1, <1>2, <3>1, <3>2
  <2> QED BY <1>1, <2>1, <2>2, <2>3 DEF Added
<1> QED BY <1>3, <1>4, <1>5

LEMMA ReaderInductive == ReaderInv /\ [Next]_vars => ReaderInv'
<1> SUFFICES ASSUME ReaderInv, [Next]_vars PROVE ReaderInv'
  OBVIOUS
<1>0. EventTypes'
  BY EventTypesInductive DEF ReaderInv
<1> USE DEF ReaderInv
<1>1. ASSUME NEW s \in Slots, Seen(s) \/ NotSeen(s) PROVE ReaderInv'
  BY <1>0, <1>1, EmitTracks, ReaderSees
<1>2. CASE UNCHANGED <<inside, present, events, elsewhere, hopped>>
  BY <1>0, <1>2 DEF OnePlace, Overtaken, BackHasHopped
<1>3. CASE UNCHANGED readVars \/ Accept \/ Reconnect
  BY <1>2, <1>3 DEF readVars, Accept, Reconnect, piVars, linkVars
<1>4. ASSUME NEW s \in Slots, Take(s) PROVE ReaderInv'
  <2>1. UNCHANGED <<present, events, elsewhere, hopped>> /\ inside' = [inside EXCEPT ![s] = NoBook]
    BY <1>4 DEF Take, piVars, linkVars, faultVars
  <2>2. \A p \in Slots : inside'[p] = IF p = s THEN NoBook ELSE inside[p]
    BY <2>1 DEF EventTypes
  <2> QED BY <1>0, <2>1, <2>2 DEF OnePlace, Overtaken, BackHasHopped
<1>5. ASSUME NEW s \in Slots, NEW b \in Books, Place(b, s) PROVE ReaderInv'
  <2>1. /\ UNCHANGED <<present, events, elsewhere>> /\ inside' = [inside EXCEPT ![s] = b]
        /\ hopped' = IF Hops(b, s) THEN hopped \cup {b} ELSE hopped
        /\ \A p \in Slots : inside[p] # b
    BY <1>5 DEF Place, piVars, linkVars
  <2>2. \A p \in Slots : inside'[p] = IF p = s THEN b ELSE inside[p]
    BY <2>1 DEF EventTypes
  <2>3. BackHasHopped'
    BY <2>1, <2>2 DEF BackHasHopped, Hops
  <2> QED BY <1>0, <2>1, <2>2, <2>3 DEF OnePlace, Overtaken
<1>6. CASE PiRestart
  <2>1. events' = << >> /\ elsewhere' = {} /\ UNCHANGED inside
    BY <1>6 DEF PiRestart
  <2> QED BY <1>0, <2>1, TracksNone DEF OnePlace, Overtaken, BackHasHopped
<1>7. CASE Acknowledge \/ EventLost
  <2>1. /\ events # << >> /\ events' = Tail(events)
        /\ UNCHANGED <<inside, present, elsewhere, hopped>>
    BY <1>7 DEF Acknowledge, EventLost, EventTypes, piVars, faultVars
  <2>2. Tracks(events', present')
    BY <2>1, TracksTail DEF EventTypes
  <2>3. Overtaken'
    BY <2>1, OvertakenTail
  <2> QED BY <1>0, <2>1, <2>2, <2>3 DEF OnePlace, BackHasHopped
<1> QED BY <1>1, <1>3, <1>4, <1>5, <1>6, <1>7, StepCases DEF BookStep

-----------------------------------------------------------------------------
(* What the backend shows of a slot of which nothing is on its way. *)

Waits(s) == \E i \in handled + 1 .. Len(events) : events[i].slot = s

\* Of a slot of which no event waits or was lost, the backend knows what the reader
\* sees, unless the book was detected in another slot since.
Shown ==
    \A s \in Slots \ doubtful : ~Waits(s) =>
        /\ present[s] \notin Registered => copy[s] = NoBook
        /\ present[s] \in Registered => copy[s] = present[s] \/ s \in elsewhere
        /\ s \in unreadable <=> present[s] \in Books \ Registered

\* An unknown tag that waits to be shown comes to an empty slot, or an event of the
\* slot waits before it.
UnknownToEmpty ==
    \A i \in handled + 1 .. Len(events) :
        /\ events[i].event = "DETECTED" /\ events[i].uid \notin Registered
        /\ events[i].slot \notin doubtful
        /\ IsLast(events, i)
        => copy[events[i].slot] = NoBook
             \/ \E j \in handled + 1 .. i - 1 : events[j].slot = events[i].slot

ShownInv == BoardTypes /\ Shown /\ UnknownToEmpty

LEMMA ShownSees ==
    ASSUME ReaderInv, ShownInv, NEW s \in Slots, Seen(s) \/ NotSeen(s)
    PROVE  Shown' /\ UnknownToEmpty'
<1>1. /\ Added(s) /\ present' = [present EXCEPT ![s] = inside[s]]
      /\ elsewhere' = {p \in Slots \ {s} : p \in elsewhere
                                             \/ present[p] \in {inside[s]} \ {NoBook}}
      /\ UNCHANGED <<handled, copy, unreadable, doubtful>>
  BY EmitTracks DEF ReaderInv, boardVars
<1>2. /\ handled \in Nat /\ handled <= Len(events) /\ NoBook \notin Books
      /\ \A p \in Slots \ {s} : present'[p] = present[p]
      /\ present[s] \in Books \cup {NoBook}
  BY <1>1, BoardAssumption DEF ReaderInv, EventTypes, Tags
<1>3. Len(events') \in handled + 1 .. Len(events') /\ events'[Len(events')].slot = s
  BY <1>1, <1>2 DEF Added, Removal, Detected
<1>4. \A p \in Slots : Waits(p) => Waits(p)'
  BY <1>1, <1>2 DEF Waits, Added
<1>5. Shown'
  <2> SUFFICES ASSUME NEW p \in Slots \ doubtful, ~Waits(p)'
               PROVE  /\ present'[p] \notin Registered => copy[p] = NoBook
                      /\ present'[p] \in Registered => copy[p] = present'[p] \/ p \in elsewhere'
                      /\ p \in unreadable <=> present'[p] \in Books \ Registered
    BY <1>1 DEF Shown
  <2>1. p # s
    BY <1>1, <1>3 DEF Waits
  <2>2. ~Waits(p)
    BY <1>4
  <2> QED BY <1>1, <1>2, <2>1, <2>2 DEF ShownInv, Shown
<1>6. UnknownToEmpty'
  <2> SUFFICES ASSUME NEW i \in handled + 1 .. Len(events'),
                      events'[i].event = "DETECTED", events'[i].uid \notin Registered,
                      events'[i].slot \notin doubtful, IsLast(events', i)
               PROVE  copy[events'[i].slot] = NoBook
                        \/ \E j \in handled + 1 .. i - 1 : events'[j].slot = events'[i].slot
    BY <1>1 DEF UnknownToEmpty
  <2>1. CASE i \in 1 .. Len(events)
    <3>1. events'[i] = events[i] /\ i \in handled + 1 .. Len(events)
      BY <1>1, <1>2, <2>1 DEF Added
    <3>2. IsLast(events, i)
      BY <1>1, <2>1, <3>1 DEF IsLast, Added
    <3>3. copy[events[i].slot] = NoBook
            \/ \E j \in handled + 1 .. i - 1 : events[j].slot = events[i].slot
      BY <3>1, <3>2, <1>1 DEF ShownInv, UnknownToEmpty
    <3>4. \A j \in handled + 1 .. i - 1 : events'[j] = events[j]
      BY <1>1, <1>2, <2>1 DEF Added
    <3> QED BY <3>1, <3>3, <3>4
  <2>2. CASE i \in Len(events) + 1 .. Len(events')
    <3>1. events'[i] = Detected(s, inside[s]) /\ inside[s] \in Books
      BY <1>1, <2>2 DEF Added, Removal
    <3>2. events'[i].slot = s
      BY <3>1 DEF Detected
    <3>3. CASE present[s] \in Books
      <4>1. events'[Len(events) + 1] = Removal(s, present[s])
        BY <1>1, <3>3 DEF Added
      <4>2. Len(events) + 1 # i
        BY <3>1, <4>1 DEF Removal, Detected
      <4>3. Len(events) + 1 \in handled + 1 .. i - 1
        BY <1>1, <1>2, <2>2, <4>2 DEF Added
      <4> QED BY <3>2, <4>1, <4>3 DEF Removal
    <3>4. CASE present[s] = NoBook /\ Waits(s)
      <4>1. PICK j \in handled + 1 .. Len(events) : events[j].slot = s
        BY <3>4 DEF Waits
      <4>2. j \in handled + 1 .. i - 1 /\ events'[j] = events[j]
        BY <1>1, <1>2, <2>2, <4>1 DEF Added
      <4> QED BY <3>2, <4>1, <4>2
    <3>5. CASE present[s] = NoBook /\ ~Waits(s)
      <4>1. NoBook \notin Registered
        BY BoardAssumption
      <4>2. s \notin doubtful
        BY <3>2, <1>1
      <4> QED BY <3>2, <3>5, <4>1, <4>2 DEF ShownInv, Shown
    <3> QED BY <1>2, <3>3, <3>4, <3>5
  <2> QED BY <1>1, <1>2, <2>1, <2>2 DEF Added
<1> QED BY <1>5, <1>6

\* An event that is handled is the one that the readers last sent of its slot, or
\* the next of them is on its way.
LEMMA NextOfSlot ==
    ASSUME EventTypes, Tracks(events, present), handled < Len(events)
    PROVE  LET e == events[handled + 1] IN
           /\ handled + 1 \in 1 .. Len(events) /\ e \in Event
           /\ ~IsLast(events, handled + 1) =>
                 \E j \in handled + 2 .. Len(events) : events[j].slot = e.slot
           /\ IsLast(events, handled + 1) => present[e.slot] = After(e)
<1>1. handled + 1 \in 1 .. Len(events) /\ (handled + 1) + 1 = handled + 2
  BY DEF EventTypes
<1>2. events[handled + 1] \in Event
  BY <1>1, ElementOfSeq DEF EventTypes
<1> QED BY <1>1, <1>2 DEF IsLast, Tracks, EndsAt

LEMMA AcceptCases ==
    ASSUME EventTypes, Accept
    PROVE  LET e == events[handled + 1] IN
           /\ handled < Len(events) /\ handled' = handled + 1
           /\ e.event = "DETECTED" => Detect(e.slot, e.uid)
           /\ e.event = "REMOVED" => Remove(e.slot)
           /\ UNCHANGED <<inside, present, events, elsewhere, hopped, repeated>>
BY DEF Accept, piVars

LEMMA ShownAccept ==
    ASSUME ReaderInv, ShownInv, Accept
    PROVE  Shown'
<1> DEFINE e == events[handled + 1]
           s == e.slot
<1>1. /\ handled + 1 \in 1 .. Len(events) /\ e \in Event
      /\ ~IsLast(events, handled + 1) => \E j \in handled + 2 .. Len(events) : events[j].slot = s
      /\ IsLast(events, handled + 1) => present[s] = After(e)
  BY NextOfSlot, AcceptCases DEF ReaderInv
<1>2. /\ handled < Len(events) /\ handled' = handled + 1
      /\ e.event = "DETECTED" => Detect(s, e.uid)
      /\ e.event = "REMOVED" => Remove(s)
      /\ UNCHANGED <<present, events, elsewhere>>
  BY AcceptCases DEF ReaderInv
<1>3. e.event \in {"DETECTED", "REMOVED"} /\ s \in Slots /\ e.uid \in Books
  BY <1>1 DEF Event
<1>4. NoBook \notin Books /\ NoBook \notin Registered /\ handled \in Nat /\ (handled + 1) + 1 = handled + 2
        /\ copy \in [Slots -> Registered \cup {NoBook}]
  BY BoardAssumption DEF ReaderInv, EventTypes, ShownInv, BoardTypes
<1>5. e.event = "DETECTED" /\ e.uid \notin Registered /\ s \notin doubtful
        /\ IsLast(events, handled + 1) => copy[s] = NoBook
  <2>1. handled + 1 \in handled + 1 .. Len(events)
    BY <1>1
  <2>2. \A j \in handled + 1 .. (handled + 1) - 1 : FALSE
    BY <1>4
  <2> QED BY <2>1, <2>2 DEF ShownInv, UnknownToEmpty
<1>6. e.event = "DETECTED" => \A p \in Slots \ {s} : present[p] = e.uid =>
          p \in elsewhere \/ \E j \in handled + 2 .. Len(events) : events[j].slot = p
  BY <1>1, <1>4 DEF ReaderInv, Overtaken
<1>7. \A p \in Slots : ~Waits(p)' => \A j \in handled + 2 .. Len(events) : events[j].slot # p
  BY <1>2, <1>4 DEF Waits
<1>8. \A p \in Slots \ {s} : ~Waits(p)' => ~Waits(p)
  <2> SUFFICES ASSUME NEW p \in Slots \ {s}, Waits(p)
               PROVE  \E j \in handled + 2 .. Len(events) : events[j].slot = p
    BY <1>7
  <2>1. PICK j \in handled + 1 .. Len(events) : events[j].slot = p
    BY DEF Waits
  <2> QED BY <1>4, <2>1
<1> HIDE DEF e, s
<1> SUFFICES ASSUME NEW p \in Slots, p \notin doubtful', ~Waits(p)'
             PROVE  /\ present[p] \notin Registered => copy'[p] = NoBook
                    /\ present[p] \in Registered => copy'[p] = present[p] \/ p \in elsewhere
                    /\ p \in unreadable' <=> present[p] \in Books \ Registered
  BY <1>2 DEF Shown
<1>9. CASE e.event = "DETECTED" /\ e.uid \in Registered
  <2>1. /\ copy' = Assign(s, e.uid) /\ doubtful' = doubtful \ {s}
        /\ unreadable' = unreadable \ ({s} \cup {q \in Slots : copy[q] = e.uid})
    BY <1>2, <1>9 DEF Detect
  <2>2. copy'[p] = IF p = s THEN e.uid ELSE IF copy[p] = e.uid THEN NoBook ELSE copy[p]
    BY <2>1 DEF Assign
  <2>3. CASE p = s
    <3>1. present[p] = e.uid
      BY <1>1, <1>7, <1>9, <2>3 DEF After
    <3> QED BY <1>9, <2>1, <2>2, <2>3, <3>1
  <2>4. CASE p # s
    <3>1. /\ present[p] \notin Registered => copy[p] = NoBook
          /\ present[p] \in Registered => copy[p] = present[p] \/ p \in elsewhere
          /\ p \in unreadable <=> present[p] \in Books \ Registered
      BY <1>8, <2>1, <2>4 DEF ShownInv, Shown
    <3>2. present[p] = e.uid => p \in elsewhere
      BY <1>6, <1>7, <1>9, <2>4
    <3>3. present[p] \notin Registered => copy[p] # e.uid
      BY <1>4, <1>9, <3>1
    <3> QED BY <1>4, <2>1, <2>2, <2>4, <3>1, <3>2, <3>3
  <2> QED BY <2>3, <2>4
<1>10. CASE e.event = "DETECTED" /\ e.uid \notin Registered
  <2>1. unreadable' = unreadable \cup {s} /\ UNCHANGED <<copy, doubtful>>
    BY <1>2, <1>10 DEF Detect
  <2>2. CASE p = s
    <3>1. IsLast(events, handled + 1)
      BY <1>1, <1>7, <2>2
    <3>2. present[p] = e.uid /\ copy[p] = NoBook
      BY <1>1, <1>5, <1>10, <2>1, <2>2, <3>1 DEF After
    <3> QED BY <1>3, <1>10, <2>1, <2>2, <3>2
  <2>3. CASE p # s
    BY <1>8, <2>1, <2>3 DEF ShownInv, Shown
  <2> QED BY <2>2, <2>3
<1>11. CASE e.event = "REMOVED"
  <2>1. copy' = [copy EXCEPT ![s] = NoBook] /\ unreadable' = unreadable \ {s}
          /\ doubtful' = doubtful \ {s}
    BY <1>2, <1>11 DEF Remove
  <2>2. CASE p = s
    <3>1. present[p] = NoBook
      BY <1>1, <1>7, <1>11, <2>2 DEF After
    <3> QED BY <1>4, <2>1, <2>2, <3>1
  <2>3. CASE p # s
    BY <1>4, <1>8, <2>1, <2>3 DEF ShownInv, Shown
  <2> QED BY <2>2, <2>3
<1> QED BY <1>3, <1>9, <1>10, <1>11
LEMMA UnknownAccept ==
    ASSUME ReaderInv, ShownInv, Accept
    PROVE  UnknownToEmpty'
<1> DEFINE e == events[handled + 1]
           s == e.slot
<1>1. handled + 1 \in 1 .. Len(events) /\ e \in Event
  BY NextOfSlot, AcceptCases DEF ReaderInv
<1>2. /\ handled' = handled + 1 /\ UNCHANGED events
      /\ e.event = "DETECTED" => Detect(s, e.uid)
      /\ e.event = "REMOVED" => Remove(s)
  BY AcceptCases DEF ReaderInv
<1>3. e.event \in {"DETECTED", "REMOVED"} /\ s \in Slots /\ e.uid \in Books
  BY <1>1 DEF Event
<1>4. NoBook \notin Books /\ handled \in Nat /\ (handled + 1) + 1 = handled + 2
        /\ copy \in [Slots -> Registered \cup {NoBook}]
  BY BoardAssumption DEF ReaderInv, EventTypes, ShownInv, BoardTypes
<1>5. \A p \in Slots \ {s} : (copy[p] = NoBook => copy'[p] = NoBook)
                               /\ (p \notin doubtful' => p \notin doubtful)
  BY <1>2, <1>3, <1>4 DEF Detect, Assign, Remove
<1>6. e.event = "REMOVED" => copy'[s] = NoBook
  BY <1>2, <1>3, <1>4 DEF Remove
<1> SUFFICES ASSUME NEW i \in handled + 2 .. Len(events),
                    events[i].event = "DETECTED", events[i].uid \notin Registered,
                    events[i].slot \notin doubtful', IsLast(events, i),
                    \A j \in handled + 2 .. i - 1 : events[j].slot # events[i].slot
             PROVE  copy'[events[i].slot] = NoBook
  BY <1>2, <1>4 DEF UnknownToEmpty
<1>7. i \in 1 .. Len(events) /\ events[i].slot \in Slots
  <2>1. i \in 1 .. Len(events)
    BY <1>4
  <2>2. events[i] \in Event
    BY <2>1, ElementOfSeq DEF ReaderInv, EventTypes
  <2> QED BY <2>1, <2>2 DEF Event
<1>8. \A j \in handled + 1 .. i - 1 : j = handled + 1 \/ j \in handled + 2 .. i - 1
  BY <1>4
<1>9. i \in handled + 1 .. Len(events) /\ handled + 1 \in 1 .. i - 1
  BY <1>4
<1>10. CASE events[i].slot # s
  <2>1. events[i].slot \notin doubtful
    BY <1>5, <1>7, <1>10
  <2>2. \A j \in handled + 1 .. i - 1 : events[j].slot # events[i].slot
    BY <1>8, <1>10
  <2>3. copy[events[i].slot] = NoBook
    BY <1>9, <2>1, <2>2 DEF ShownInv, UnknownToEmpty
  <2> HIDE DEF e, s
  <2> QED BY <1>5, <1>7, <1>10, <2>3
<1>11. CASE events[i].slot = s
  <2>1. \E k \in handled + 1 .. i - 1 : Continues(events, k, i)
    BY <1>7, <1>9, <1>11 DEF ReaderInv, Tracks, Chained
  <2>2. PICK k \in handled + 1 .. i - 1 : Continues(events, k, i)
    BY <2>1
  <2>3. k = handled + 1
    BY <1>8, <2>2 DEF Continues
  <2>4. After(e) = NoBook
    BY <2>2, <2>3 DEF Continues, Before
  <2> HIDE DEF e, s
  <2>5. e.event = "REMOVED"
    BY <1>3, <1>4, <2>4 DEF After
  <2> QED BY <1>6, <1>11, <2>5
<1> QED BY <1>10, <1>11

LEMMA LastOfTail ==
    ASSUME NEW q \in Seq(Event), q # << >>, NEW i \in 1 .. Len(Tail(q)), IsLast(Tail(q), i)
    PROVE  i + 1 \in 1 .. Len(q) /\ Tail(q)[i] = q[i + 1] /\ IsLast(q, i + 1)
<1> DEFINE r == Tail(q)
<1>1. /\ Len(q) \in Nat \ {0} /\ Len(r) = Len(q) - 1
      /\ \A k \in 1 .. Len(q) - 1 : r[k] = q[k + 1]
  BY TailElements DEF TailAt
<1>2. i + 1 \in 1 .. Len(q) /\ r[i] = q[i + 1] /\ (i + 1) + 1 = i + 2
  BY <1>1
<1>3. ASSUME NEW j \in i + 2 .. Len(q) PROVE q[j].slot # q[i + 1].slot
  <2>1. j - 1 \in i + 1 .. Len(r) /\ r[j - 1] = q[j]
    BY <1>1, <1>3
  <2> HIDE DEF r
  <2> QED BY <1>2, <2>1 DEF IsLast, r
<1> QED BY <1>2, <1>3 DEF IsLast

LEMMA ShownAcknowledge ==
    ASSUME ReaderInv, ShownInv, Acknowledge
    PROVE  Shown' /\ UnknownToEmpty'
<1>1. /\ events # << >> /\ events' = Tail(events) /\ handled' = handled - 1
      /\ handled \in Nat \ {0} /\ events \in Seq(Event)
      /\ UNCHANGED <<present, elsewhere, copy, unreadable, doubtful>>
  BY DEF Acknowledge, ReaderInv, EventTypes, piVars, boardVars, faultVars
<1>2. TailAt(events)
  BY <1>1, TailElements
<1>3. \A i \in handled + 1 .. Len(events) :
          i - 1 \in handled' + 1 .. Len(events') /\ events'[i - 1] = events[i]
  BY <1>1, <1>2 DEF TailAt
<1>4. \A p \in Slots : Waits(p) => Waits(p)'
  BY <1>3 DEF Waits
<1>5. Shown'
  BY <1>1, <1>4 DEF ShownInv, Shown
<1>6. UnknownToEmpty'
  <2> SUFFICES ASSUME NEW i \in handled' + 1 .. Len(events'),
                      events'[i].event = "DETECTED", events'[i].uid \notin Registered,
                      events'[i].slot \notin doubtful, IsLast(events', i)
               PROVE  copy[events'[i].slot] = NoBook
                        \/ \E j \in handled' + 1 .. i - 1 : events'[j].slot = events'[i].slot
    BY <1>1 DEF UnknownToEmpty
  <2>1. i \in 1 .. Len(events')
    BY <1>1, <1>2 DEF TailAt
  <2>2. i + 1 \in handled + 1 .. Len(events) /\ events'[i] = events[i + 1] /\ IsLast(events, i + 1)
    BY <1>1, <1>2, <2>1, LastOfTail DEF TailAt
  <2>3. CASE copy[events[i + 1].slot] = NoBook
    BY <2>2, <2>3
  <2>4. CASE \E j \in handled + 1 .. (i + 1) - 1 : events[j].slot = events[i + 1].slot
    <3>1. PICK j \in handled + 1 .. (i + 1) - 1 : events[j].slot = events[i + 1].slot
      BY <2>4
    <3>2. j \in handled + 1 .. Len(events) /\ j - 1 \in handled' + 1 .. i - 1
      BY <1>1, <2>2, <3>1
    <3> QED BY <1>3, <2>2, <3>1, <3>2
  <2> QED BY <2>2, <2>3, <2>4 DEF ShownInv, UnknownToEmpty
<1> QED BY <1>5, <1>6

LEMMA ShownReconnect ==
    ASSUME ReaderInv, ShownInv, Reconnect
    PROVE  Shown' /\ UnknownToEmpty'
<1>1. /\ handled' = 0 /\ handled \in 0 .. Len(events) /\ events \in Seq(Event)
      /\ UNCHANGED <<present, events, elsewhere, copy, unreadable, doubtful>>
  BY DEF Reconnect, ReaderInv, EventTypes, piVars, boardVars
<1>2. \A p \in Slots : Waits(p) => Waits(p)'
  BY <1>1 DEF Waits
<1>3. Shown'
  BY <1>1, <1>2 DEF ShownInv, Shown
<1>4. UnknownToEmpty'
  <2> SUFFICES ASSUME NEW i \in 1 .. Len(events),
                      events[i].event = "DETECTED", events[i].uid \notin Registered,
                      events[i].slot \notin doubtful, IsLast(events, i)
               PROVE  copy[events[i].slot] = NoBook
                        \/ \E j \in 1 .. i - 1 : events[j].slot = events[i].slot
    BY <1>1 DEF UnknownToEmpty
  <2>1. CASE i \in handled + 1 .. Len(events)
    <3>1. copy[events[i].slot] = NoBook
            \/ \E j \in handled + 1 .. i - 1 : events[j].slot = events[i].slot
      BY <2>1 DEF ShownInv, UnknownToEmpty
    <3>2. \A j \in handled + 1 .. i - 1 : j \in 1 .. i - 1
      BY <1>1, <2>1
    <3> QED BY <3>1, <3>2
  <2>2. CASE i \in 1 .. handled
    <3>1. events[i] \in Event
      BY <1>1, ElementOfSeq
    <3>2. \A j \in handled + 1 .. Len(events) : j \in i + 1 .. Len(events)
      BY <1>1, <2>2
    <3>3. ~Waits(events[i].slot)
      BY <3>2 DEF Waits, IsLast
    <3>4. present[events[i].slot] = events[i].uid
      BY DEF ReaderInv, Tracks, EndsAt, After
    <3> QED BY <3>1, <3>3, <3>4 DEF ShownInv, Shown, Event
  <2> QED BY <1>1, <2>1, <2>2
<1> QED BY <1>3, <1>4

LEMMA ShownLost ==
    ASSUME ReaderInv, ShownInv, EventLost
    PROVE  Shown' /\ UnknownToEmpty'
<1>1. /\ events # << >> /\ events' = Tail(events) /\ handled = 0 /\ handled' = 0
      /\ doubtful' = doubtful \cup {events[1].slot} /\ events \in Seq(Event)
      /\ UNCHANGED <<present, elsewhere, copy, unreadable>>
  BY DEF EventLost, ReaderInv, EventTypes, piVars, boardVars
<1>2. TailAt(events)
  BY <1>1, TailElements
<1>3. \A i \in 1 .. Len(events) : i # 1 =>
          i - 1 \in 1 .. Len(events') /\ events'[i - 1] = events[i]
  BY <1>1, <1>2 DEF TailAt
<1>4. \A p \in Slots \ doubtful' : Waits(p) => Waits(p)'
  <2> SUFFICES ASSUME NEW p \in Slots \ doubtful', Waits(p) PROVE Waits(p)'
    OBVIOUS
  <2>1. PICK i \in 1 .. Len(events) : events[i].slot = p
    BY <1>1 DEF Waits
  <2>2. i # 1
    BY <1>1, <2>1
  <2>3. i - 1 \in 1 .. Len(events') /\ events'[i - 1].slot = p
    BY <1>3, <2>1, <2>2
  <2> QED BY <1>1, <2>3 DEF Waits
<1>5. Shown'
  BY <1>1, <1>4 DEF ShownInv, Shown
<1>6. UnknownToEmpty'
  <2> SUFFICES ASSUME NEW i \in 1 .. Len(events'),
                      events'[i].event = "DETECTED", events'[i].uid \notin Registered,
                      events'[i].slot \notin doubtful', IsLast(events', i)
               PROVE  copy[events'[i].slot] = NoBook
                        \/ \E j \in 1 .. i - 1 : events'[j].slot = events'[i].slot
    BY <1>1 DEF UnknownToEmpty
  <2>1. i + 1 \in 1 .. Len(events) /\ events'[i] = events[i + 1] /\ IsLast(events, i + 1)
    BY <1>1, LastOfTail
  <2>2. i + 1 \in handled + 1 .. Len(events) /\ events[i + 1].slot \notin doubtful
    BY <1>1, <2>1
  <2>3. CASE \E j \in handled + 1 .. (i + 1) - 1 : events[j].slot = events[i + 1].slot
    <3>1. PICK j \in handled + 1 .. (i + 1) - 1 : events[j].slot = events[i + 1].slot
      BY <2>3
    <3>2. j # 1
      BY <1>1, <2>1, <3>1
    <3>3. j \in 1 .. Len(events) /\ j - 1 \in 1 .. i - 1
      BY <1>1, <2>1, <3>1, <3>2
    <3> QED BY <1>3, <2>1, <3>1, <3>2, <3>3
  <2>4. CASE copy[events[i + 1].slot] = NoBook
    BY <2>1, <2>4
  <2> QED BY <2>1, <2>2, <2>3, <2>4 DEF ShownInv, UnknownToEmpty
<1> QED BY <1>5, <1>6

LEMMA ShownRestart ==
    ASSUME ReaderInv, ShownInv, PiRestart
    PROVE  Shown' /\ UnknownToEmpty'
<1>1. /\ present' = [s \in Slots |-> NoBook] /\ events' = << >> /\ handled' = 0
      /\ doubtful' = doubtful \cup {s \in Slots : present[s] # NoBook}
           \cup {e.slot : e \in {events[i] : i \in handled + 1 .. Len(events)}}
      /\ UNCHANGED <<copy, unreadable>>
  BY DEF PiRestart, boardVars
<1>2. NoBook \notin Books /\ NoBook \notin Registered
  BY BoardAssumption
<1>3. Shown'
  <2> SUFFICES ASSUME NEW p \in Slots, p \notin doubtful'
               PROVE  copy[p] = NoBook /\ p \notin unreadable
    BY <1>1, <1>2 DEF Shown
  <2>1. ~Waits(p)
    BY <1>1 DEF Waits
  <2>2. present[p] = NoBook /\ p \notin doubtful
    BY <1>1
  <2> QED BY <1>2, <2>1, <2>2 DEF ShownInv, Shown
<1>4. UnknownToEmpty'
  BY <1>1 DEF UnknownToEmpty
<1> QED BY <1>3, <1>4

LEMMA ShownInductive == ReaderInv /\ TaskOK /\ ShownInv /\ [Next]_vars => ShownInv'
<1> SUFFICES ASSUME ReaderInv, TaskOK, ShownInv, [Next]_vars PROVE ShownInv'
  OBVIOUS
<1>1. BoardTypes'
  BY TaskInductive DEF ReaderInv, TaskOK
<1>2. CASE UNCHANGED <<present, events, handled, copy, unreadable, doubtful, elsewhere>>
  <2>1. \A p : Waits(p)' <=> Waits(p)
    BY <1>2 DEF Waits
  <2> QED BY <1>1, <1>2, <2>1 DEF ShownInv, Shown, UnknownToEmpty
<1>3. ASSUME NEW s \in Slots, Take(s) \/ \E b \in Books : Place(b, s)
      PROVE  ShownInv'
  BY <1>2, <1>3 DEF Take, Place, piVars, linkVars, boardVars, faultVars
<1>4. CASE UNCHANGED readVars
  BY <1>2, <1>4 DEF readVars, boardVars
<1>5. CASE PiRestart \/ Accept \/ Acknowledge \/ Reconnect \/ EventLost
  BY <1>1, <1>5, ShownRestart, ShownAccept, UnknownAccept, ShownAcknowledge, ShownReconnect,
     ShownLost DEF ShownInv
<1>6. ASSUME NEW s \in Slots, Seen(s) \/ NotSeen(s) PROVE ShownInv'
  BY <1>1, <1>6, ShownSees DEF ShownInv
<1> QED BY <1>3, <1>4, <1>5, <1>6, StepCases DEF BookStep

LEMMA ReaderInit == Init => ReaderInv /\ TaskOK /\ ShownInv
<1> SUFFICES ASSUME Init PROVE ReaderInv /\ TaskOK /\ ShownInv
  OBVIOUS
<1>1. /\ inside = [s \in Slots |-> NoBook] /\ present = inside /\ copy = inside
      /\ unreadable = {} /\ active = {} /\ events = << >> /\ handled = 0 /\ elsewhere = {}
  BY DEF Init
<1>2. NoBook \notin Books /\ NoBook \notin Registered
  BY BoardAssumption
<1>3. EventTypes /\ OnePlace /\ Overtaken /\ BackHasHopped
  BY <1>1 DEF EventTypes, Tags, OnePlace, Overtaken, BackHasHopped
<1>4. Tracks(events, present)
  BY <1>1, TracksNone
<1>5. TaskOK
  BY <1>1 DEF TaskOK, BoardTypes, OneSlot, BookInSlotHasTask
<1>6. Shown
  BY <1>1, <1>2 DEF Shown
<1>7. UnknownToEmpty
  BY <1>1 DEF UnknownToEmpty
<1> QED BY <1>3, <1>4, <1>5, <1>6, <1>7 DEF ReaderInv, ShownInv, TaskOK

LEMMA TrueWhenSettled == ReaderInv /\ ShownInv => BoardIsTrue
<1> SUFFICES ASSUME ReaderInv, ShownInv, events = << >>, present = inside,
                    NEW s \in Slots \ doubtful, inside[s] \notin hopped
             PROVE  /\ copy[s] = IF inside[s] \in Registered THEN inside[s] ELSE NoBook
                    /\ s \in unreadable <=> inside[s] \in Books \ Registered
  BY DEF BoardIsTrue, Settled
<1>1. ~Waits(s)
  BY DEF Waits, ReaderInv, EventTypes
<1>2. NoBook \notin Registered
  BY BoardAssumption
<1>3. inside[s] # NoBook => s \notin elsewhere
  BY DEF ReaderInv, BackHasHopped
<1> QED BY <1>1, <1>2, <1>3 DEF ShownInv, Shown

\* Once the backend has handled every event of the readers, each slot of the database
\* holds the book that is in the slot of the cart, or is marked as unreadable for a tag
\* that the catalogue does not know (SlotRfidEventService, rfid_controller.py), for any
\* interleaving of moves, deliveries and redeliveries; but for the slots and books to
\* which a named fault has happened (doubtful, hopped).
THEOREM BoardTrue == Spec => []BoardIsTrue
<1> QED BY ReaderInit, ReaderInductive, TaskInductive, ShownInductive, TrueWhenSettled, PTL
        DEF Spec, ReaderInv

-----------------------------------------------------------------------------
(* The books with a task are those on the cart. *)

\* The events that the backend has not handled.
Waiting == {events[i] : i \in handled + 1 .. Len(events)}

\* A reader that has told of a book still sees it, or says that it is gone.
Told ==
    \A i \in 1 .. Len(events) : events[i].event = "DETECTED" =>
        \/ present[events[i].slot] = events[i].uid
        \/ \E j \in i + 1 .. Len(events) : events[j] = Removal(events[i].slot, events[i].uid)

\* The reader sees the book that the backend has in the slot, or its removal waits.
CopyIsSeen ==
    \A s \in Slots : copy[s] # NoBook /\ copy[s] \notin missed =>
        present[s] = copy[s] \/ Removal(s, copy[s]) \in Waiting

\* A book with a task has a slot, or waits to get one.
TaskHasSlot ==
    \A b \in active \ missed : \E s \in Slots : copy[s] = b \/ Detected(s, b) \in Waiting

\* A book that a reader sees is in the slot for the backend, or waits to be.
SeenIsShown ==
    \A s \in Slots \ elsewhere : present[s] \in Registered \ missed =>
        copy[s] = present[s] \/ Detected(s, present[s]) \in Waiting

BookInv == CopyIsSeen /\ TaskHasSlot /\ SeenIsShown

LEMMA ToldSees ==
    ASSUME ReaderInv, Told, NEW s \in Slots, Seen(s) \/ NotSeen(s)
    PROVE  Told'
<1>1. Added(s) /\ present' = [present EXCEPT ![s] = inside[s]]
  BY EmitTracks DEF ReaderInv
<1>2. /\ present \in [Slots -> Tags] /\ events \in Seq(Event)
      /\ Tags = Books \cup {NoBook} /\ NoBook \notin Books
  BY BoardAssumption DEF ReaderInv, EventTypes, Tags
<1> SUFFICES ASSUME NEW i \in 1 .. Len(events'), events'[i].event = "DETECTED"
             PROVE  \/ present'[events'[i].slot] = events'[i].uid
                    \/ \E j \in i + 1 .. Len(events') :
                           events'[j] = Removal(events'[i].slot, events'[i].uid)
  BY DEF Told
<1>3. CASE i \in 1 .. Len(events)
  <2>1. events'[i] = events[i] /\ events[i] \in Event
    BY <1>1, <1>2, <1>3, ElementOfSeq DEF Added
  <2>2. events[i].slot \in Slots /\ events[i].uid \in Books
    BY <2>1 DEF Event
  <2>3. CASE present[events[i].slot] = events[i].uid /\ events[i].slot = s
    <3>1. events'[Len(events) + 1] = Removal(s, present[s])
      BY <1>1, <2>2, <2>3 DEF Added
    <3>2. Len(events) + 1 \in i + 1 .. Len(events')
      BY <1>1, <1>3 DEF Added
    <3> QED BY <2>1, <2>3, <3>1, <3>2
  <2>4. CASE present[events[i].slot] = events[i].uid /\ events[i].slot # s
    BY <1>1, <1>2, <2>1, <2>2, <2>4
  <2>5. CASE \E j \in i + 1 .. Len(events) : events[j] = Removal(events[i].slot, events[i].uid)
    <3>1. PICK j \in i + 1 .. Len(events) : events[j] = Removal(events[i].slot, events[i].uid)
      BY <2>5
    <3>2. j \in i + 1 .. Len(events') /\ events'[j] = events[j]
      BY <1>1, <1>3, <3>1 DEF Added
    <3> QED BY <2>1, <3>1, <3>2
  <2> QED BY <1>3, <2>1, <2>3, <2>4, <2>5 DEF Told
<1>4. CASE i \in Len(events) + 1 .. Len(events')
  <2>1. events'[i] = Detected(s, inside[s])
    BY <1>1, <1>4 DEF Added, Removal
  <2> QED BY <1>1, <1>2, <2>1 DEF Detected
<1> QED BY <1>1, <1>3, <1>4 DEF Added

LEMMA ToldTail ==
    ASSUME EventTypes, Told, events # << >>, events' = Tail(events), UNCHANGED present
    PROVE  Told'
<1>1. TailAt(events)
  BY TailElements DEF EventTypes
<1> SUFFICES ASSUME NEW i \in 1 .. Len(events'), events'[i].event = "DETECTED",
                    present[events'[i].slot] # events'[i].uid
             PROVE  \E j \in i + 1 .. Len(events') :
                        events'[j] = Removal(events'[i].slot, events'[i].uid)
  BY DEF Told
<1>2. i + 1 \in 1 .. Len(events) /\ events'[i] = events[i + 1]
  BY <1>1 DEF TailAt
<1>3. PICK j \in (i + 1) + 1 .. Len(events) :
             events[j] = Removal(events[i + 1].slot, events[i + 1].uid)
  BY <1>2 DEF Told
<1>4. j - 1 \in i + 1 .. Len(events') /\ events'[j - 1] = events[j]
  BY <1>1, <1>2, <1>3 DEF TailAt
<1> QED BY <1>2, <1>3, <1>4

LEMMA ToldInductive == ReaderInv /\ Told /\ [Next]_vars => Told'
<1> SUFFICES ASSUME ReaderInv, Told, [Next]_vars PROVE Told'
  OBVIOUS
<1>1. ASSUME NEW s \in Slots, Seen(s) \/ NotSeen(s) PROVE Told'
  BY <1>1, ToldSees
<1>2. CASE UNCHANGED <<present, events>>
  BY <1>2 DEF Told
<1>3. CASE UNCHANGED readVars \/ Accept \/ Reconnect
  BY <1>2, <1>3 DEF readVars, Accept, Reconnect, piVars, linkVars
<1>4. ASSUME NEW s \in Slots, Take(s) \/ \E b \in Books : Place(b, s) PROVE Told'
  BY <1>2, <1>4 DEF Take, Place, piVars, linkVars
<1>5. CASE PiRestart
  BY <1>5 DEF PiRestart, Told
<1>6. CASE Acknowledge \/ EventLost
  <2>1. events # << >> /\ events' = Tail(events) /\ UNCHANGED present
    BY <1>6 DEF Acknowledge, EventLost, ReaderInv, EventTypes, piVars
  <2> QED BY <2>1, ToldTail DEF ReaderInv
<1> QED BY <1>1, <1>3, <1>4, <1>5, <1>6, StepCases DEF BookStep

\* Messages that are lost make their books missed ones; others go on waiting.
LEMMA BooksKept ==
    ASSUME BookInv, UNCHANGED <<present, copy, active, elsewhere>>, missed \subseteq missed',
           \A e \in Waiting : e \in Waiting' \/ e.uid \in missed'
    PROVE  BookInv'
<1>1. CopyIsSeen'
  BY DEF BookInv, CopyIsSeen, Removal
<1>2. TaskHasSlot'
  BY DEF BookInv, TaskHasSlot, Detected
<1>3. SeenIsShown'
  BY DEF BookInv, SeenIsShown, Detected
<1> QED BY <1>1, <1>2, <1>3 DEF BookInv

LEMMA WaitingTail ==
    ASSUME EventTypes, events # << >>, events' = Tail(events),
           \/ handled' = handled - 1 /\ handled > 0
           \/ handled = 0 /\ handled' = 0
    PROVE  \A e \in Waiting : e \in Waiting' \/ (e = events[1] /\ handled = 0)
<1>1. TailAt(events)
  BY TailElements DEF EventTypes
<1> SUFFICES ASSUME NEW i \in handled + 1 .. Len(events), i # 1
             PROVE  events[i] \in Waiting'
  BY DEF Waiting, EventTypes
<1>2. i - 1 \in handled' + 1 .. Len(events') /\ events'[i - 1] = events[i]
  BY <1>1 DEF TailAt, EventTypes
<1> QED BY <1>2 DEF Waiting

LEMMA BooksSee ==
    ASSUME ReaderInv, BookInv, NEW s \in Slots, Seen(s) \/ NotSeen(s)
    PROVE  BookInv'
<1>1. /\ Added(s) /\ present' = [present EXCEPT ![s] = inside[s]]
      /\ elsewhere' = {p \in Slots \ {s} : p \in elsewhere
                                             \/ present[p] \in {inside[s]} \ {NoBook}}
      /\ UNCHANGED <<handled, copy, active, missed>>
  BY EmitTracks DEF ReaderInv, boardVars
<1>2. /\ handled \in Nat /\ handled <= Len(events)
      /\ NoBook \notin Books /\ Registered \subseteq Books
      /\ \A p \in Slots : present'[p] = IF p = s THEN inside[s] ELSE present[p]
      /\ present[s] \in Books \cup {NoBook}
  BY <1>1, BoardAssumption DEF ReaderInv, EventTypes, Tags
<1>3. Waiting \subseteq Waiting'
  <2> SUFFICES ASSUME NEW i \in handled + 1 .. Len(events) PROVE events[i] \in Waiting'
    BY DEF Waiting
  <2>1. i \in handled' + 1 .. Len(events') /\ events'[i] = events[i]
    BY <1>1, <1>2 DEF Added
  <2> QED BY <2>1 DEF Waiting
<1>4. present[s] \in Books => Removal(s, present[s]) \in Waiting'
  <2>1. Len(events) + 1 \in handled' + 1 .. Len(events')
    BY <1>1, <1>2 DEF Added
  <2> QED BY <1>1, <2>1 DEF Added, Waiting
<1>5. inside[s] \in Books => Detected(s, inside[s]) \in Waiting'
  <2>1. Len(events') \in handled' + 1 .. Len(events')
    BY <1>1, <1>2 DEF Added
  <2> QED BY <1>1, <2>1 DEF Added, Waiting
<1>6. CopyIsSeen'
  <2> SUFFICES ASSUME NEW p \in Slots, copy[p] # NoBook, copy[p] \notin missed
               PROVE  present'[p] = copy[p] \/ Removal(p, copy[p]) \in Waiting'
    BY <1>1 DEF CopyIsSeen
  <2>1. present[p] = copy[p] \/ Removal(p, copy[p]) \in Waiting
    BY DEF BookInv, CopyIsSeen
  <2> QED BY <1>2, <1>3, <1>4, <2>1
<1>7. TaskHasSlot'
  BY <1>1, <1>3 DEF BookInv, TaskHasSlot
<1>8. SeenIsShown'
  BY <1>1, <1>2, <1>3, <1>5 DEF BookInv, SeenIsShown
<1> QED BY <1>6, <1>7, <1>8 DEF BookInv

\* What waits of the slots once the event e of the slot s is handled.
StillWaits(e, s) ==
    /\ \A x \in Waiting : x = e \/ x \in Waiting'
    /\ present[s] # NoBook /\ After(e) # present[s] => Detected(s, present[s]) \in Waiting'
    /\ e.event = "DETECTED" =>
         /\ \A c \in Books \ {e.uid} : Removal(s, c) \in Waiting' => Detected(s, c) \in Waiting'
         /\ \A p \in Slots \ {s} : present[p] = e.uid =>
                p \in elsewhere \/ Detected(p, e.uid) \in Waiting'
         /\ present[s] = e.uid \/ Removal(s, e.uid) \in Waiting'

LEMMA WaitingAccept ==
    ASSUME ReaderInv, Told, Accept
    PROVE  StillWaits(events[handled + 1], events[handled + 1].slot)
<1> DEFINE e == events[handled + 1]
           s == e.slot
<1>1. /\ handled + 1 \in 1 .. Len(events) /\ e \in Event
      /\ ~IsLast(events, handled + 1) => \E j \in handled + 2 .. Len(events) : events[j].slot = s
      /\ IsLast(events, handled + 1) => present[s] = After(e)
  BY NextOfSlot, AcceptCases DEF ReaderInv
<1>2. handled' = handled + 1 /\ UNCHANGED <<present, events, elsewhere>>
  BY AcceptCases DEF ReaderInv
<1>3. /\ events \in Seq(Event) /\ handled \in Nat /\ (handled + 1) + 1 = handled + 2
      /\ NoBook \notin Books
  BY BoardAssumption DEF ReaderInv, EventTypes
<1>4. Waiting' = {events[i] : i \in handled + 2 .. Len(events)}
  BY <1>2, <1>3 DEF Waiting
<1>5. s \in Slots /\ e.uid \in Books
  BY <1>1 DEF Event
<1>6. ASSUME NEW p \in Slots, present[p] # NoBook,
             NEW i \in handled + 2 .. Len(events), events[i].slot = p
      PROVE  Detected(p, present[p]) \in Waiting'
  <2>1. i \in 1 .. Len(events)
    BY <1>3
  <2>2. PICK j \in i .. Len(events) : events[j].slot = events[i].slot /\ IsLast(events, j)
    BY <2>1 DEF ReaderInv, Tracks, HasLast
  <2>3. j \in 1 .. Len(events) /\ j \in handled + 2 .. Len(events)
    BY <1>3, <2>1, <2>2
  <2>4. events[j] \in Event /\ events[j].slot = p
    BY <1>3, <1>6, <2>2, <2>3, ElementOfSeq
  <2>5. present[p] = After(events[j])
    BY <2>2, <2>3, <2>4 DEF ReaderInv, Tracks, EndsAt
  <2>6. events[j] = Detected(p, present[p])
    BY <1>6, <2>4, <2>5 DEF Event, After, Detected
  <2> QED BY <1>4, <2>3, <2>6
<1>7. \A x \in Waiting : x = e \/ x \in Waiting'
  BY <1>3, <1>4 DEF Waiting
<1>8. present[s] # NoBook /\ After(e) # present[s] => Detected(s, present[s]) \in Waiting'
  BY <1>1, <1>5, <1>6
<1>9. ASSUME e.event = "DETECTED", NEW c \in Books \ {e.uid}, Removal(s, c) \in Waiting'
      PROVE  Detected(s, c) \in Waiting'
  <2>1. PICK j \in handled + 2 .. Len(events) : events[j] = Removal(s, c)
    BY <1>4, <1>9
  <2>2. j \in 1 .. Len(events) /\ handled + 1 \in 1 .. j - 1 /\ events[j].slot = s
    BY <1>3, <2>1 DEF Removal
  <2>3. \E k \in handled + 1 .. j - 1 : Continues(events, k, j)
    BY <2>2 DEF ReaderInv, Tracks, Chained
  <2>4. PICK k \in handled + 1 .. j - 1 : Continues(events, k, j)
    BY <2>3
  <2>5. k \in 1 .. Len(events) /\ (k = handled + 1 \/ k \in handled + 2 .. Len(events))
    BY <1>3, <2>2, <2>4
  <2>6. events[k] \in Event /\ events[k].slot = s /\ After(events[k]) = c
    BY <1>3, <2>1, <2>2, <2>4, <2>5, ElementOfSeq DEF Continues, Before, Removal
  <2>7. events[k] = Detected(s, c)
    BY <1>3, <1>9, <2>6 DEF Event, After, Detected
  <2>8. k # handled + 1
    BY <1>9, <2>7 DEF Detected
  <2> QED BY <1>4, <2>5, <2>7, <2>8
<1>10. ASSUME e.event = "DETECTED", NEW p \in Slots \ {s}, present[p] = e.uid, p \notin elsewhere
       PROVE  Detected(p, e.uid) \in Waiting'
  <2>1. \E j \in handled + 2 .. Len(events) : events[j].slot = p
    BY <1>1, <1>3, <1>10 DEF ReaderInv, Overtaken
  <2> QED BY <1>3, <1>5, <1>6, <1>10, <2>1
<1>11. e.event = "DETECTED" => present[s] = e.uid \/ Removal(s, e.uid) \in Waiting'
  <2>1. e.event = "DETECTED" => present[s] = e.uid
          \/ \E j \in handled + 2 .. Len(events) : events[j] = Removal(s, e.uid)
    BY <1>1, <1>3 DEF Told
  <2> QED BY <1>4, <2>1
<1> QED BY <1>7, <1>8, <1>9, <1>10, <1>11 DEF StillWaits

LEMMA BooksDetect ==
    ASSUME BookInv, BoardTypes, NEW e \in Event, NEW s \in Slots,
           e = Detected(s, e.uid), Detect(s, e.uid), StillWaits(e, s),
           present \in [Slots -> Tags], UNCHANGED <<present, elsewhere>>
    PROVE  BookInv'
<1> DEFINE b == e.uid
<1>1. /\ NoBook \notin Books /\ Registered \subseteq Books /\ b \in Books
      /\ copy \in [Slots -> Registered \cup {NoBook}] /\ active \subseteq Registered
      /\ e.event = "DETECTED"
  BY BoardAssumption DEF Event, BoardTypes, Detected
<1>2. /\ \A x \in Waiting : x = e \/ x \in Waiting'
      /\ present[s] # NoBook /\ b # present[s] => Detected(s, present[s]) \in Waiting'
      /\ \A c \in Books \ {b} : Removal(s, c) \in Waiting' => Detected(s, c) \in Waiting'
      /\ \A p \in Slots \ {s} : present[p] = b => p \in elsewhere \/ Detected(p, b) \in Waiting'
      /\ present[s] = b \/ Removal(s, b) \in Waiting'
  BY <1>1 DEF StillWaits, After
<1>3. \A p, c : Removal(p, c) \in Waiting => Removal(p, c) \in Waiting'
  BY <1>1, <1>2 DEF Removal
<1>4. \A p, c : Detected(p, c) \in Waiting /\ c # b => Detected(p, c) \in Waiting'
  BY <1>2 DEF Detected
<1>5. \A p \in Slots : Detected(p, b) \in Waiting /\ p # s => Detected(p, b) \in Waiting'
  BY <1>2 DEF Detected
<1>6. CASE b \notin Registered
  <2>1. UNCHANGED <<copy, active, missed>>
    BY <1>6 DEF Detect
  <2>2. CopyIsSeen'
    BY <1>3, <2>1 DEF BookInv, CopyIsSeen
  <2>3. TaskHasSlot'
    BY <1>1, <1>4, <1>6, <2>1 DEF BookInv, TaskHasSlot
  <2>4. SeenIsShown'
    BY <1>4, <1>6, <2>1 DEF BookInv, SeenIsShown
  <2> QED BY <2>2, <2>3, <2>4 DEF BookInv
<1>7. CASE b \in Registered
  <2>1. copy' = Assign(s, b) /\ active' = active \cup {b} /\ missed' = missed \ {b}
    BY <1>7 DEF Detect
  <2>2. \A p \in Slots : copy'[p] = IF p = s THEN b ELSE IF copy[p] = b THEN NoBook ELSE copy[p]
    BY <2>1 DEF Assign
  <2>3. CopyIsSeen'
    <3> SUFFICES ASSUME NEW p \in Slots, copy'[p] # NoBook, copy'[p] \notin missed'
                 PROVE  present[p] = copy'[p] \/ Removal(p, copy'[p]) \in Waiting'
      BY DEF CopyIsSeen
    <3>1. CASE p = s
      BY <1>2, <2>2, <3>1
    <3>2. CASE p # s
      <4>1. copy'[p] = copy[p] /\ copy[p] # b /\ copy[p] \notin missed
        BY <2>1, <2>2, <3>2
      <4>2. present[p] = copy[p] \/ Removal(p, copy[p]) \in Waiting
        BY <4>1 DEF BookInv, CopyIsSeen
      <4> QED BY <1>3, <4>1, <4>2
    <3> QED BY <3>1, <3>2
  <2>4. TaskHasSlot'
    <3> SUFFICES ASSUME NEW c \in active', c \notin missed'
                 PROVE  \E p \in Slots : copy'[p] = c \/ Detected(p, c) \in Waiting'
      BY DEF TaskHasSlot
    <3>1. CASE c = b
      BY <2>2, <3>1
    <3>2. CASE c # b
      <4>1. c \in active \ missed /\ c \in Books
        BY <1>1, <2>1, <3>2
      <4>2. PICK p \in Slots : copy[p] = c \/ Detected(p, c) \in Waiting
        BY <4>1 DEF BookInv, TaskHasSlot
      <4>3. CASE Detected(p, c) \in Waiting
        BY <1>4, <3>2, <4>3
      <4>4. CASE copy[p] = c /\ p # s
        BY <2>2, <3>2, <4>4
      <4>5. CASE copy[p] = c /\ p = s
        <5>1. present[s] = c \/ Removal(s, c) \in Waiting
          BY <1>1, <4>1, <4>5 DEF BookInv, CopyIsSeen
        <5>2. Detected(s, c) \in Waiting'
          BY <1>1, <1>2, <1>3, <3>2, <4>1, <5>1
        <5> QED BY <5>2
      <4> QED BY <4>2, <4>3, <4>4, <4>5
    <3> QED BY <3>1, <3>2
  <2>5. SeenIsShown'
    <3> SUFFICES ASSUME NEW p \in Slots, p \notin elsewhere, present[p] \in Registered,
                        present[p] \notin missed'
                 PROVE  copy'[p] = present[p] \/ Detected(p, present[p]) \in Waiting'
      BY DEF SeenIsShown
    <3>1. CASE p = s
      <4>1. present[s] # NoBook
        BY <1>1, <3>1
      <4> QED BY <1>2, <2>2, <3>1, <4>1
    <3>2. CASE p # s /\ present[p] = b
      BY <1>2, <3>2
    <3>3. CASE p # s /\ present[p] # b
      <4>1. present[p] \notin missed
        BY <2>1, <3>3
      <4>2. copy[p] = present[p] \/ Detected(p, present[p]) \in Waiting
        BY <4>1 DEF BookInv, SeenIsShown
      <4> QED BY <1>4, <2>2, <3>3, <4>2
    <3> QED BY <3>1, <3>2, <3>3
  <2> QED BY <2>3, <2>4, <2>5 DEF BookInv
<1> QED BY <1>6, <1>7

LEMMA BooksRemove ==
    ASSUME BookInv, BoardTypes, NEW e \in Event, NEW s \in Slots,
           e = Removal(s, e.uid), Remove(s), StillWaits(e, s),
           present \in [Slots -> Tags], UNCHANGED <<present, elsewhere>>
    PROVE  BookInv'
<1>1. /\ NoBook \notin Books /\ Registered \subseteq Books
      /\ copy \in [Slots -> Registered \cup {NoBook}] /\ active \subseteq Registered
      /\ e.event = "REMOVED"
  BY BoardAssumption DEF BoardTypes, Removal
<1>2. /\ \A x \in Waiting : x = e \/ x \in Waiting'
      /\ present[s] # NoBook => Detected(s, present[s]) \in Waiting'
  BY <1>1 DEF StillWaits, After
<1>3. \A p \in Slots \ {s} : \A c : Removal(p, c) \in Waiting => Removal(p, c) \in Waiting'
  BY <1>2 DEF Removal
<1>4. \A p, c : Detected(p, c) \in Waiting => Detected(p, c) \in Waiting'
  BY <1>1, <1>2 DEF Detected
<1>5. /\ \A p \in Slots : copy'[p] = IF p = s THEN NoBook ELSE copy[p]
      /\ active' = active \ {copy[s]} /\ missed' = missed
  BY <1>1 DEF Remove
<1>6. CopyIsSeen'
  BY <1>3, <1>5 DEF BookInv, CopyIsSeen
<1>7. TaskHasSlot'
  <2> SUFFICES ASSUME NEW c \in active \ missed, c # copy[s]
               PROVE  \E p \in Slots : copy'[p] = c \/ Detected(p, c) \in Waiting'
    BY <1>5 DEF TaskHasSlot
  <2>1. PICK p \in Slots : copy[p] = c \/ Detected(p, c) \in Waiting
    BY DEF BookInv, TaskHasSlot
  <2> QED BY <1>4, <1>5, <2>1
<1>8. SeenIsShown'
  <2> SUFFICES ASSUME NEW p \in Slots, p \notin elsewhere, present[p] \in Registered \ missed
               PROVE  copy'[p] = present[p] \/ Detected(p, present[p]) \in Waiting'
    BY <1>5 DEF SeenIsShown
  <2>1. CASE p = s
    <3>1. present[s] # NoBook
      BY <1>1, <2>1
    <3> QED BY <1>2, <2>1, <3>1
  <2>2. CASE p # s
    BY <1>4, <1>5, <2>2 DEF BookInv, SeenIsShown
  <2> QED BY <2>1, <2>2
<1> QED BY <1>6, <1>7, <1>8 DEF BookInv

LEMMA BooksInductive == ReaderInv /\ TaskOK /\ Told /\ BookInv /\ [Next]_vars => BookInv'
<1> SUFFICES ASSUME ReaderInv, TaskOK, Told, BookInv, [Next]_vars PROVE BookInv'
  OBVIOUS
<1>1. ASSUME NEW s \in Slots, Seen(s) \/ NotSeen(s) PROVE BookInv'
  BY <1>1, BooksSee
<1>2. CASE UNCHANGED <<present, copy, active, elsewhere, missed, events, handled>>
  BY <1>2, BooksKept DEF Waiting
<1>3. ASSUME NEW s \in Slots, Take(s) \/ \E b \in Books : Place(b, s) PROVE BookInv'
  BY <1>2, <1>3 DEF Take, Place, piVars, linkVars, boardVars, faultVars
<1>4. CASE UNCHANGED readVars
  BY <1>2, <1>4 DEF readVars, boardVars
<1>5. CASE PiRestart
  <2>1. /\ present' = [s \in Slots |-> NoBook] /\ UNCHANGED <<copy, active>>
        /\ missed' = missed \cup {present[s] : s \in Slots}
             \cup {e.uid : e \in {events[i] : i \in handled + 1 .. Len(events)}}
    BY <1>5 DEF PiRestart, boardVars
  <2>2. \A e \in Waiting : e.uid \in missed'
    BY <2>1 DEF Waiting
  <2>3. CopyIsSeen'
    <3> SUFFICES ASSUME NEW p \in Slots, copy[p] # NoBook, copy[p] \notin missed' PROVE FALSE
      BY <2>1 DEF CopyIsSeen
    <3>1. present[p] # copy[p] /\ copy[p] \notin missed
      BY <2>1
    <3>2. Removal(p, copy[p]) \in Waiting
      BY <3>1 DEF BookInv, CopyIsSeen
    <3> QED BY <2>2, <3>2 DEF Removal
  <2>4. TaskHasSlot'
    <3> SUFFICES ASSUME NEW c \in active, c \notin missed'
                 PROVE  \E p \in Slots : copy[p] = c
      BY <2>1 DEF TaskHasSlot
    <3>1. c \in active \ missed
      BY <2>1
    <3>2. PICK p \in Slots : copy[p] = c \/ Detected(p, c) \in Waiting
      BY <3>1 DEF BookInv, TaskHasSlot
    <3>3. Detected(p, c) \notin Waiting
      BY <2>2 DEF Detected
    <3> QED BY <3>2, <3>3
  <2>5. SeenIsShown'
    BY <2>1, BoardAssumption DEF SeenIsShown
  <2> QED BY <2>3, <2>4, <2>5 DEF BookInv
<1>6. CASE Accept
  <2> DEFINE e == events[handled + 1]
  <2>1. /\ e \in Event /\ StillWaits(e, e.slot) /\ UNCHANGED <<present, elsewhere>>
        /\ e.event = "DETECTED" => Detect(e.slot, e.uid)
        /\ e.event = "REMOVED" => Remove(e.slot)
    BY <1>6, NextOfSlot, AcceptCases, WaitingAccept DEF ReaderInv
  <2> HIDE DEF e
  <2>2. e.slot \in Slots /\ (e = Detected(e.slot, e.uid) \/ e = Removal(e.slot, e.uid))
    BY <2>1 DEF Event, Detected, Removal
  <2>3. CASE e = Detected(e.slot, e.uid)
    <3>1. e.event = "DETECTED"
      BY <2>3 DEF Detected
    <3> QED BY <2>1, <2>2, <2>3, <3>1, BooksDetect DEF ReaderInv, EventTypes, TaskOK
  <2>4. CASE e = Removal(e.slot, e.uid)
    <3>1. e.event = "REMOVED"
      BY <2>4 DEF Removal
    <3> QED BY <2>1, <2>2, <2>4, <3>1, BooksRemove DEF ReaderInv, EventTypes, TaskOK
  <2> QED BY <2>2, <2>3, <2>4
<1>7. CASE Acknowledge
  <2>1. /\ events # << >> /\ events' = Tail(events) /\ handled' = handled - 1 /\ handled > 0
        /\ UNCHANGED <<present, copy, active, elsewhere, missed>>
    BY <1>7 DEF Acknowledge, ReaderInv, EventTypes, piVars, boardVars, faultVars
  <2>2. \A e \in Waiting : e \in Waiting'
    BY <2>1, WaitingTail DEF ReaderInv
  <2> QED BY <2>1, <2>2, BooksKept
<1>8. CASE Reconnect
  <2>1. /\ handled' = 0 /\ handled \in Nat
        /\ UNCHANGED <<events, present, copy, active, elsewhere, missed>>
    BY <1>8 DEF Reconnect, ReaderInv, EventTypes, piVars, boardVars
  <2>2. \A e \in Waiting : e \in Waiting'
    BY <2>1 DEF Waiting
  <2> QED BY <2>1, <2>2, BooksKept
<1>9. CASE EventLost
  <2>1. /\ events # << >> /\ events' = Tail(events) /\ handled = 0 /\ handled' = 0
        /\ missed' = missed \cup {events[1].uid}
        /\ UNCHANGED <<present, copy, active, elsewhere>>
    BY <1>9 DEF EventLost, ReaderInv, EventTypes, piVars, boardVars
  <2>2. \A e \in Waiting : e \in Waiting' \/ e = events[1]
    BY <2>1, WaitingTail DEF ReaderInv
  <2> QED BY <2>1, <2>2, BooksKept
<1> QED BY <1>1, <1>3, <1>4, <1>5, <1>6, <1>7, <1>8, <1>9, StepCases DEF BookStep

LEMMA BooksInit == Init => Told /\ BookInv
<1> SUFFICES ASSUME Init PROVE Told /\ BookInv
  OBVIOUS
<1>1. /\ present = [s \in Slots |-> NoBook] /\ copy = present /\ active = {} /\ events = << >>
  BY DEF Init
<1> QED BY <1>1, BoardAssumption DEF Told, BookInv, CopyIsSeen, TaskHasSlot, SeenIsShown

LEMMA TasksWhenSettled == ReaderInv /\ TaskOK /\ BookInv => TaskForEachBook
<1> SUFFICES ASSUME ReaderInv, TaskOK, BookInv, events = << >>, present = inside,
                    NEW b \in Registered, b \notin missed, b \notin hopped
             PROVE  b \in active <=> \E s \in Slots : inside[s] = b
  BY DEF TaskForEachBook, Settled
<1>1. Waiting = {} /\ NoBook \notin Registered
  BY BoardAssumption DEF Waiting, ReaderInv, EventTypes
<1>2. ASSUME b \in active PROVE \E s \in Slots : inside[s] = b
  <2>1. PICK s \in Slots : copy[s] = b
    BY <1>1, <1>2 DEF BookInv, TaskHasSlot
  <2> QED BY <1>1, <2>1 DEF BookInv, CopyIsSeen
<1>3. ASSUME NEW s \in Slots, inside[s] = b PROVE b \in active
  <2>1. s \notin elsewhere
    BY <1>1, <1>3 DEF ReaderInv, BackHasHopped
  <2>2. copy[s] = b
    BY <1>1, <1>3, <2>1 DEF BookInv, SeenIsShown
  <2> QED BY <1>1, <2>2 DEF TaskOK, BookInSlotHasTask
<1> QED BY <1>2, <1>3

\* Once every event has been handled, the books with a task to be sorted are those on
\* the cart (SlotRfidEventService.detect and remove, TaskService), although a removal
\* completes the task of whatever book the backend has in the slot; but for the books
\* to which a named fault has happened (missed, hopped).
THEOREM TasksTrue == Spec => []TaskForEachBook
<1> QED BY ReaderInit, BooksInit, ReaderInductive, TaskInductive, ToldInductive, BooksInductive,
           TasksWhenSettled, PTL DEF Spec, ReaderInv

-----------------------------------------------------------------------------
(* The lamps blink at the books of the zone. *)

\* The slots to blink, each with the book it is for.
Command == UNION {[D -> Registered] : D \in SUBSET Slots}

LampTypes == zone \in Places /\ commands \in Seq(Command) /\ blink \subseteq Slots

BlinksKnown == \A s \in blink \ ghosts : present[s] \in Registered

\* The last command on its way is for the zone that the cart is in.
LastIsForZone ==
    commands # << >> => LET c == commands[Len(commands)]
                        IN \A s \in DOMAIN c : Home[c[s]] = zone

\* When none is, the lamps show that zone.
LampsAtZone == commands = << >> => \A s \in blink \ ghosts : Home[present[s]] = zone

LampInv == LampTypes /\ BlinksKnown /\ LastIsForZone /\ LampsAtZone

LEMMA CommandBooks ==
    ASSUME NEW c \in Command
    PROVE  DOMAIN c \subseteq Slots /\ \A s \in DOMAIN c : c[s] \in Registered
<1>1. PICK D \in SUBSET Slots : c \in [D -> Registered]
  BY DEF Command
<1> QED BY <1>1

LEMMA TargetsAreCommand ==
    ASSUME BoardTypes, NEW z
    PROVE  LET c == [s \in Targets(z) |-> copy[s]]
           IN c \in Command /\ \A s \in DOMAIN c : Home[c[s]] = z
<1> DEFINE c == [s \in Targets(z) |-> copy[s]]
<1>1. Targets(z) \in SUBSET Slots
  BY DEF Targets
<1>2. c \in [Targets(z) -> Registered] /\ \A s \in DOMAIN c : Home[c[s]] = z
  BY DEF Targets, BoardTypes
<1> QED BY <1>1, <1>2 DEF Command

LEMMA CommandElements ==
    ASSUME NEW q \in Seq(Command)
    PROVE  /\ \A c \in Command : /\ Append(q, c) \in Seq(Command) /\ Append(q, c) # << >>
                                 /\ Append(q, c)[Len(Append(q, c))] = c
           /\ q # << >> => /\ Head(q) \in Command /\ Tail(q) \in Seq(Command)
                           /\ q[Len(q)] \in Command
                           /\ Tail(q) = << >> => Head(q) = q[Len(q)]
                           /\ Tail(q) # << >> => Tail(q)[Len(Tail(q))] = q[Len(q)]
<1>1. \A c \in Command : /\ Append(q, c) \in Seq(Command) /\ Append(q, c) # << >>
                         /\ Append(q, c)[Len(Append(q, c))] = c
  BY AppendProperties
<1>2. q # << >> => /\ Head(q) \in Command /\ Tail(q) \in Seq(Command) /\ q[Len(q)] \in Command
  BY ElementOfSeq
<1>3. ASSUME q # << >>, Tail(q) = << >> PROVE Head(q) = q[Len(q)]
  <2>1. Len(Tail(q)) = Len(q) - 1 /\ Len(Tail(q)) = 0 /\ Len(q) \in Nat
    BY <1>3, HeadTailProperties, LenProperties
  <2>2. Len(q) = 1
    BY <2>1
  <2> QED BY <2>2
<1>4. q # << >> /\ Tail(q) # << >> => Tail(q)[Len(Tail(q))] = q[Len(q)]
  OBVIOUS
<1> QED BY <1>1, <1>2, <1>3, <1>4

LEMMA LampsMoved ==
    ASSUME LampInv, BoardTypes, NEW z \in Places, Position(z)
    PROVE  LampInv'
<1>1. UNCHANGED <<present, blink, ghosts, copy>> /\ (zone' = zone \/ zone' = z)
        /\ (zone' = zone => UNCHANGED commands)
        /\ (zone' # zone => SyncZoneLighting(zone, zone'))
  BY DEF Position, piVars, boardVars, faultVars
<1>2. NoBook \notin Registered /\ Outside \notin Zones /\ \A b \in Registered : Home[b] \in Zones
  BY BoardAssumption
<1>3. CASE zone' = zone
  BY <1>1, <1>3 DEF LampInv, LampTypes, BlinksKnown, LastIsForZone, LampsAtZone
<1>4. CASE zone' # zone /\ UNCHANGED commands /\ zone = Outside
  <2>1. LampTypes' /\ BlinksKnown'
    BY <1>1, <1>4 DEF LampInv, LampTypes, BlinksKnown
  <2>2. LastIsForZone'
    <3> SUFFICES ASSUME commands # << >>, NEW s \in DOMAIN commands[Len(commands)] PROVE FALSE
      BY <1>4 DEF LastIsForZone
    <3>1. commands[Len(commands)] \in Command
      BY CommandElements DEF LampInv, LampTypes
    <3>2. commands[Len(commands)][s] \in Registered
      BY <3>1, CommandBooks
    <3> QED BY <1>2, <1>4, <3>2 DEF LampInv, LastIsForZone
  <2>3. LampsAtZone'
    BY <1>1, <1>2, <1>4 DEF LampInv, BlinksKnown, LampsAtZone
  <2> QED BY <2>1, <2>2, <2>3 DEF LampInv
<1>5. CASE commands' = Append(commands, [s \in Targets(zone') |-> copy[s]])
  <2> DEFINE c == [s \in Targets(zone') |-> copy[s]]
  <2>1. c \in Command /\ \A s \in DOMAIN c : Home[c[s]] = zone'
    BY TargetsAreCommand
  <2> HIDE DEF c
  <2>2. commands' \in Seq(Command) /\ commands' # << >> /\ commands'[Len(commands')] = c
    BY <1>5, <2>1, CommandElements DEF LampInv, LampTypes, c
  <2>3. LampTypes'
    BY <1>1, <2>2 DEF LampInv, LampTypes
  <2>4. BlinksKnown'
    BY <1>1 DEF LampInv, BlinksKnown
  <2>5. LastIsForZone' /\ LampsAtZone'
    BY <2>1, <2>2 DEF LastIsForZone, LampsAtZone
  <2> QED BY <2>3, <2>4, <2>5 DEF LampInv
<1> QED BY <1>1, <1>3, <1>4, <1>5 DEF SyncZoneLighting

LEMMA LampsLit ==
    ASSUME LampInv, Lit
    PROVE  LampInv'
<1>1. /\ commands # << >> /\ commands' = Tail(commands) /\ blink' = DOMAIN Head(commands)
      /\ ghosts' = {s \in blink' : present[s] # Head(commands)[s]}
      /\ UNCHANGED <<present, zone>>
  BY DEF Lit, zoneVars
<1>2. /\ Head(commands) \in Command /\ commands' \in Seq(Command)
      /\ commands' = << >> => Head(commands) = commands[Len(commands)]
      /\ commands' # << >> => commands'[Len(commands')] = commands[Len(commands)]
  BY <1>1, CommandElements DEF LampInv, LampTypes
<1>3. blink' \subseteq Slots /\ \A s \in blink' : Head(commands)[s] \in Registered
  BY <1>1, <1>2, CommandBooks
<1>4. LampTypes' /\ BlinksKnown'
  BY <1>1, <1>2, <1>3 DEF LampInv, LampTypes, BlinksKnown
<1>5. LastIsForZone'
  BY <1>1, <1>2 DEF LampInv, LastIsForZone
<1>6. LampsAtZone'
  <2> SUFFICES ASSUME commands' = << >>, NEW s \in blink', s \notin ghosts'
               PROVE  Home[present[s]] = zone
    BY <1>1 DEF LampsAtZone
  <2>1. present[s] = Head(commands)[s] /\ s \in DOMAIN Head(commands)
    BY <1>1
  <2> QED BY <1>1, <1>2, <2>1 DEF LampInv, LastIsForZone
<1> QED BY <1>4, <1>5, <1>6 DEF LampInv

LEMMA LampsInductive == ReaderInv /\ TaskOK /\ LampInv /\ [Next]_vars => LampInv'
<1> SUFFICES ASSUME ReaderInv, TaskOK, LampInv, [Next]_vars PROVE LampInv'
  OBVIOUS
<1>1. ASSUME NEW s \in Slots, Seen(s) \/ NotSeen(s) PROVE LampInv'
  <2>1. UNCHANGED <<commands, zone, ghosts>> /\ present' = [present EXCEPT ![s] = inside[s]]
    BY <1>1 DEF Seen, NotSeen, Emit, zoneVars
  <2>2. blink' \subseteq blink /\ (present[s] # NoBook => s \notin blink') /\ NoBook \notin Registered
    BY <1>1, BoardAssumption DEF Seen, NotSeen
  <2>3. \A p \in blink' \ ghosts' : p \in blink \ ghosts /\ present'[p] = present[p]
    BY <2>1, <2>2 DEF LampInv, LampTypes, BlinksKnown, ReaderInv, EventTypes
  <2>4. LampTypes' /\ BlinksKnown' /\ LampsAtZone'
    BY <2>1, <2>2, <2>3 DEF LampInv, LampTypes, BlinksKnown, LampsAtZone
  <2>5. LastIsForZone'
    BY <2>1 DEF LampInv, LastIsForZone
  <2> QED BY <2>4, <2>5 DEF LampInv
<1>2. CASE UNCHANGED <<present, blink, ghosts, commands, zone>>
  BY <1>2 DEF LampInv, LampTypes, BlinksKnown, LastIsForZone, LampsAtZone
<1>3. ASSUME NEW s \in Slots, Take(s) \/ \E b \in Books : Place(b, s) PROVE LampInv'
  BY <1>2, <1>3 DEF Take, Place, piVars, linkVars, zoneVars, faultVars
<1>4. CASE Accept \/ Acknowledge \/ Reconnect \/ EventLost \/ UNCHANGED vars
  BY <1>2, <1>4 DEF Accept, Acknowledge, Reconnect, EventLost, vars, piVars, linkVars,
                    zoneVars, faultVars
<1>5. CASE PiRestart
  <2>1. blink' = {} /\ commands' = << >> /\ UNCHANGED zone
    BY <1>5 DEF PiRestart, zoneVars
  <2> QED BY <2>1 DEF LampInv, LampTypes, BlinksKnown, LastIsForZone, LampsAtZone
<1>6. CASE Lit
  BY <1>6, LampsLit
<1>7. CASE CommandLost
  <2>1. /\ commands # << >> /\ commands' = Tail(commands) /\ ghosts' = Slots
        /\ UNCHANGED <<present, blink, zone>>
    BY <1>7 DEF CommandLost, piVars, zoneVars
  <2>2. /\ commands' \in Seq(Command)
        /\ commands' # << >> => commands'[Len(commands')] = commands[Len(commands)]
    BY <2>1, CommandElements DEF LampInv, LampTypes
  <2>3. LampTypes' /\ BlinksKnown' /\ LampsAtZone'
    BY <2>1, <2>2 DEF LampInv, LampTypes, BlinksKnown, LampsAtZone
  <2>4. LastIsForZone'
    BY <2>1, <2>2 DEF LampInv, LastIsForZone
  <2> QED BY <2>3, <2>4 DEF LampInv
<1>8. ASSUME NEW z \in Places, Position(z) PROVE LampInv'
  BY <1>8, LampsMoved DEF TaskOK
<1> QED BY <1>1, <1>3, <1>4, <1>5, <1>6, <1>7, <1>8 DEF Next

\* When the readers have settled and no command is on its way, each lamp that blinks is
\* at a book of the zone the cart is in (CartPositionTelemetryService, syncZoneLighting,
\* set_blink), unless the book left while the command was on its way or one was lost.
THEOREM LampsTrue == Spec => []BlinkIsTarget
<1>1. Init => LampInv
  BY DEF Init, LampInv, LampTypes, BlinksKnown, LastIsForZone, LampsAtZone, Places
<1>2. LampInv => BlinkIsTarget
  BY DEF LampInv, BlinksKnown, LampsAtZone, BlinkIsTarget, Settled
<1> QED BY <1>1, <1>2, ReaderInit, ReaderInductive, TaskInductive, LampsInductive, PTL
        DEF Spec, ReaderInv

-----------------------------------------------------------------------------
(* What a queue of events says of a book. *)

Loads(q, b) == {i \in 1 .. Len(q) : q[i].event = "DETECTED" /\ q[i].uid = b}

In(q, e) == \E i \in 1 .. Len(q) : q[i] = e

SpeaksOf(q, s) == \E i \in 1 .. Len(q) : q[i].slot = s

Removes(q, s) == \E i \in 1 .. Len(q) : q[i].slot = s /\ q[i].event = "REMOVED"

\* The first event of the slot in q says that the book is there.
FirstSays(q, s, b, i) == q[i] = Detected(s, b) /\ \A j \in 1 .. i - 1 : q[j].slot # s

Reloads(q, s, b) == \E i \in 1 .. Len(q) : FirstSays(q, s, b, i)

LEMMA LoadsFinite ==
    ASSUME NEW q \in Seq(Event), NEW b
    PROVE  IsFiniteSet(Loads(q, b)) /\ Cardinality(Loads(q, b)) \in Nat
<1>1. Len(q) \in Nat
  BY LenProperties
<1>2. IsFiniteSet(1 .. Len(q)) /\ Loads(q, b) \in SUBSET (1 .. Len(q))
  BY <1>1, FS_Interval DEF Loads
<1> QED BY <1>2, FS_Subset, FS_CardinalityType

LEMMA LoadsAppend ==
    ASSUME NEW q \in Seq(Event), NEW e \in Event, NEW b
    PROVE  Cardinality(Loads(Append(q, e), b)) =
               IF e.event = "DETECTED" /\ e.uid = b THEN Cardinality(Loads(q, b)) + 1
               ELSE Cardinality(Loads(q, b))
<1> DEFINE r == Append(q, e)
           n == Len(q) + 1
<1>1. /\ Len(q) \in Nat /\ Len(r) = n /\ r[n] = e /\ \A i \in 1 .. Len(q) : r[i] = q[i]
  BY AppendElements
<1> HIDE DEF r
<1>2. n \notin Loads(q, b)
  BY <1>1 DEF Loads
<1>3. \A i : i \in 1 .. n <=> i \in 1 .. Len(q) \/ i = n
  BY <1>1
<1>4. CASE e.event = "DETECTED" /\ e.uid = b
  <2>1. Loads(r, b) = Loads(q, b) \cup {n}
    BY <1>1, <1>3, <1>4 DEF Loads
  <2>2. IsFiniteSet(Loads(q, b))
    BY LoadsFinite
  <2> HIDE DEF n
  <2>3. Cardinality(Loads(q, b) \cup {n}) = Cardinality(Loads(q, b)) + 1
    BY <1>2, <2>2, FS_AddElement
  <2> QED BY <1>4, <2>1, <2>3 DEF r
<1>5. CASE ~(e.event = "DETECTED" /\ e.uid = b)
  <2>1. Loads(r, b) = Loads(q, b)
    BY <1>1, <1>3, <1>5 DEF Loads
  <2> QED BY <1>5, <2>1 DEF r
<1> QED BY <1>4, <1>5

LEMMA LoadsTail ==
    ASSUME NEW q \in Seq(Event), q # << >>, NEW b
    PROVE  Cardinality(Loads(q, b)) =
               IF q[1].event = "DETECTED" /\ q[1].uid = b THEN Cardinality(Loads(Tail(q), b)) + 1
               ELSE Cardinality(Loads(Tail(q), b))
<1> DEFINE r == Tail(q)
           S == Loads(q, b) \ {1}
           T == Loads(r, b)
           f == [i \in S |-> i - 1]
<1>1. /\ Len(q) \in Nat \ {0} /\ Len(r) = Len(q) - 1 /\ r \in Seq(Event)
      /\ \A i \in 1 .. Len(q) - 1 : r[i] = q[i + 1]
  BY TailElements, HeadTailProperties DEF TailAt
<1> HIDE DEF r
<1>2. \A i \in S : i \in Int /\ i - 1 \in T
  BY <1>1 DEF Loads
<1>3. \A j \in T : j + 1 \in S /\ (j + 1) - 1 = j
  BY <1>1 DEF Loads
<1> HIDE DEF S, T
<1>4. f \in Bijection(S, T)
  <2>1. f \in [S -> T]
    BY <1>2
  <2>2. \A i, j \in S : f[i] = f[j] => i = j
    BY <1>2
  <2>3. \A j \in T : \E i \in S : f[i] = j
    <3> SUFFICES ASSUME NEW j \in T PROVE \E i \in S : f[i] = j
      OBVIOUS
    <3>1. j + 1 \in S /\ f[j + 1] = j
      BY <1>3
    <3> QED BY <3>1
  <2> HIDE DEF f
  <2> QED BY <2>1, <2>2, <2>3 DEF Bijection, Injection, Surjection, IsInjective
<1>5. IsFiniteSet(T) /\ Cardinality(T) \in Nat /\ IsFiniteSet(Loads(q, b))
        /\ Cardinality(Loads(q, b)) \in Nat
  BY <1>1, LoadsFinite DEF T
<1>6. IsFiniteSet(S) /\ Cardinality(S) = IF 1 \in Loads(q, b) THEN Cardinality(Loads(q, b)) - 1
                                         ELSE Cardinality(Loads(q, b))
  BY <1>5, FS_RemoveElement DEF S
<1>7. Cardinality(T) = Cardinality(S)
  BY <1>4, <1>6, FS_Bijection DEF ExistsBijection
<1>8. 1 \in Loads(q, b) <=> q[1].event = "DETECTED" /\ q[1].uid = b
  BY <1>1 DEF Loads
<1> QED BY <1>5, <1>6, <1>7, <1>8 DEF T, r

LEMMA QueueAppend ==
    ASSUME NEW q \in Seq(Event), NEW e \in Event
    PROVE  LET r == Append(q, e) IN
           /\ \A x : In(r, x) <=> In(q, x) \/ x = e
           /\ \A s : SpeaksOf(r, s) <=> SpeaksOf(q, s) \/ e.slot = s
           /\ \A s : Removes(r, s) <=> Removes(q, s) \/ (e.slot = s /\ e.event = "REMOVED")
           /\ \A s, b : Reloads(q, s, b) => Reloads(r, s, b)
           /\ \A s, b : ~SpeaksOf(q, s) /\ e = Detected(s, b) => Reloads(r, s, b)
<1> DEFINE r == Append(q, e)
           n == Len(q) + 1
<1>1. /\ Len(q) \in Nat /\ Len(r) = n /\ r[n] = e /\ \A i \in 1 .. Len(q) : r[i] = q[i]
  BY AppendElements
<1> HIDE DEF r
<1>2. \A i : i \in 1 .. n <=> i \in 1 .. Len(q) \/ i = n
  BY <1>1
<1>3. \A x : In(r, x) <=> In(q, x) \/ x = e
  BY <1>1, <1>2 DEF In
<1>4. \A s : SpeaksOf(r, s) <=> SpeaksOf(q, s) \/ e.slot = s
  BY <1>1, <1>2 DEF SpeaksOf
<1>5. \A s : Removes(r, s) <=> Removes(q, s) \/ (e.slot = s /\ e.event = "REMOVED")
  BY <1>1, <1>2 DEF Removes
<1>6. ASSUME NEW s, NEW b, Reloads(q, s, b) PROVE Reloads(r, s, b)
  <2>1. PICK i \in 1 .. Len(q) : FirstSays(q, s, b, i)
    BY <1>6 DEF Reloads
  <2>2. i \in 1 .. n /\ r[i] = q[i] /\ \A j \in 1 .. i - 1 : j \in 1 .. Len(q)
    BY <1>1, <2>1
  <2>3. FirstSays(r, s, b, i)
    BY <1>1, <2>1, <2>2 DEF FirstSays
  <2> QED BY <1>1, <2>2, <2>3 DEF Reloads
<1>7. ASSUME NEW s, NEW b, ~SpeaksOf(q, s), e = Detected(s, b) PROVE Reloads(r, s, b)
  <2>1. n \in 1 .. Len(r) /\ \A j \in 1 .. n - 1 : j \in 1 .. Len(q)
    BY <1>1
  <2>2. FirstSays(r, s, b, n)
    BY <1>1, <1>7, <2>1 DEF FirstSays, SpeaksOf
  <2> QED BY <2>1, <2>2 DEF Reloads
<1> QED BY <1>3, <1>4, <1>5, <1>6, <1>7 DEF r

LEMMA QueueTail ==
    ASSUME NEW q \in Seq(Event), q # << >>
    PROVE  LET r == Tail(q)
               e == q[1] IN
           /\ e \in Event /\ r \in Seq(Event)
           /\ \A x : In(q, x) <=> x = e \/ In(r, x)
           /\ \A s : Removes(q, s) <=> (e.slot = s /\ e.event = "REMOVED") \/ Removes(r, s)
           /\ \A s, b : s # e.slot => (Reloads(q, s, b) <=> Reloads(r, s, b))
           /\ \A b : Reloads(q, e.slot, b) <=> e = Detected(e.slot, b)
           /\ SpeaksOf(q, e.slot)
<1> DEFINE r == Tail(q)
           e == q[1]
<1>1. /\ Len(q) \in Nat \ {0} /\ Len(r) = Len(q) - 1 /\ r \in Seq(Event) /\ e \in Event
      /\ \A i \in 1 .. Len(q) - 1 : r[i] = q[i + 1]
  BY TailElements, HeadTailProperties, ElementOfSeq DEF TailAt
<1> HIDE DEF r
<1>2. \A i \in 1 .. Len(r) : i + 1 \in 1 .. Len(q) /\ r[i] = q[i + 1]
  BY <1>1
<1>3. \A i \in 1 .. Len(q) : i = 1 \/ (i - 1 \in 1 .. Len(r) /\ r[i - 1] = q[i])
  BY <1>1
<1>4. 1 \in 1 .. Len(q) /\ \A j \in 1 .. 1 - 1 : FALSE
  BY <1>1
<1>5. \A x : In(q, x) <=> x = e \/ In(r, x)
  BY <1>2, <1>3, <1>4 DEF In
<1>6. \A s : Removes(q, s) <=> (e.slot = s /\ e.event = "REMOVED") \/ Removes(r, s)
  BY <1>2, <1>3, <1>4 DEF Removes
<1>7. ASSUME NEW s, NEW b, s # e.slot, Reloads(q, s, b) PROVE Reloads(r, s, b)
  <2>1. PICK i \in 1 .. Len(q) : FirstSays(q, s, b, i)
    BY <1>7 DEF Reloads
  <2>2. i # 1
    BY <1>7, <2>1 DEF FirstSays, Detected
  <2>3. i - 1 \in 1 .. Len(r) /\ r[i - 1] = q[i]
    BY <1>3, <2>2
  <2>4. \A j \in 1 .. (i - 1) - 1 : j + 1 \in 1 .. i - 1 /\ r[j] = q[j + 1]
    BY <1>1, <2>1, <2>2
  <2>5. FirstSays(r, s, b, i - 1)
    BY <2>1, <2>3, <2>4 DEF FirstSays
  <2> QED BY <2>3, <2>5 DEF Reloads
<1>8. ASSUME NEW s, NEW b, s # e.slot, Reloads(r, s, b) PROVE Reloads(q, s, b)
  <2>1. PICK i \in 1 .. Len(r) : FirstSays(r, s, b, i)
    BY <1>8 DEF Reloads
  <2>2. i + 1 \in 1 .. Len(q) /\ r[i] = q[i + 1]
    BY <1>2
  <2>3. \A j \in 1 .. (i + 1) - 1 : j = 1 \/ (j - 1 \in 1 .. i - 1 /\ r[j - 1] = q[j])
    BY <1>1, <2>1
  <2>4. FirstSays(q, s, b, i + 1)
    BY <1>8, <2>1, <2>2, <2>3 DEF FirstSays
  <2> QED BY <2>2, <2>4 DEF Reloads
<1>9. ASSUME NEW b, e = Detected(e.slot, b) PROVE Reloads(q, e.slot, b)
  <2>1. FirstSays(q, e.slot, b, 1)
    BY <1>4, <1>9 DEF FirstSays
  <2> QED BY <1>4, <2>1 DEF Reloads
<1>10. ASSUME NEW b, Reloads(q, e.slot, b) PROVE e = Detected(e.slot, b)
  <2>1. PICK i \in 1 .. Len(q) : FirstSays(q, e.slot, b, i)
    BY <1>10 DEF Reloads
  <2>2. i = 1 \/ 1 \in 1 .. i - 1
    BY <2>1
  <2> QED BY <2>1, <2>2 DEF FirstSays
<1>11. SpeaksOf(q, e.slot)
  BY <1>4 DEF SpeaksOf
<1> QED BY <1>1, <1>5, <1>6, <1>7, <1>8, <1>9, <1>10, <1>11 DEF r

-----------------------------------------------------------------------------
(* The queue of the events that the backend has not handled. *)

Rest(q, h) == SubSeq(q, h + 1, Len(q))

Unhandled == Rest(events, handled)

LEMMA RestElements ==
    ASSUME NEW q \in Seq(Event), NEW h \in 0 .. Len(q)
    PROVE  /\ Rest(q, h) \in Seq(Event) /\ Len(Rest(q, h)) = Len(q) - h
           /\ \A i \in 1 .. Len(q) - h : Rest(q, h)[i] = q[h + i]
<1>1. Len(q) \in Nat /\ h \in Nat /\ h <= Len(q)
  BY LenProperties
<1>2. \A i \in h + 1 .. Len(q) : q[i] \in Event
  BY <1>1, ElementOfSeq
<1>3. Rest(q, h) \in Seq(Event)
  BY <1>1, <1>2, SubSeqProperties DEF Rest
<1>4. Len(Rest(q, h)) = IF h + 1 <= Len(q) THEN Len(q) - (h + 1) + 1 ELSE 0
  BY <1>1, <1>2, SubSeqProperties DEF Rest
<1>5. \A i \in 1 .. Len(q) - (h + 1) + 1 : Rest(q, h)[i] = q[(h + 1) + i - 1]
  BY <1>1, <1>2, SubSeqProperties DEF Rest
<1>6. \A i \in 1 .. Len(q) - h : (h + 1) + i - 1 = h + i
  BY <1>1
<1>7. Len(q) - (h + 1) + 1 = Len(q) - h
  BY <1>1
<1>8. \A i \in 1 .. Len(q) - h : Rest(q, h)[i] = q[h + i]
  BY <1>5, <1>6, <1>7
<1> QED BY <1>1, <1>3, <1>4, <1>8

LEMMA RestAppend ==
    ASSUME NEW q \in Seq(Event), NEW h \in 0 .. Len(q), NEW e \in Event
    PROVE  Rest(Append(q, e), h) = Append(Rest(q, h), e)
<1> DEFINE r == Append(q, e)
           u == Rest(q, h)
           v == Rest(r, h)
           w == Append(u, e)
<1>1. /\ r \in Seq(Event) /\ Len(q) \in Nat /\ Len(r) = Len(q) + 1 /\ r[Len(q) + 1] = e
      /\ \A i \in 1 .. Len(q) : r[i] = q[i]
  BY AppendElements
<1>2. u \in Seq(Event) /\ Len(u) = Len(q) - h /\ \A i \in 1 .. Len(q) - h : u[i] = q[h + i]
  BY RestElements
<1> HIDE DEF r, u
<1>3. h \in 0 .. Len(r)
  BY <1>1
<1>4. v \in Seq(Event) /\ Len(v) = Len(r) - h /\ \A i \in 1 .. Len(r) - h : v[i] = r[h + i]
  BY <1>1, <1>3, RestElements
<1>5. /\ w \in Seq(Event) /\ Len(w) = Len(u) + 1 /\ w[Len(u) + 1] = e
      /\ \A i \in 1 .. Len(u) : w[i] = u[i]
  BY <1>2, AppendElements
<1> HIDE DEF v, w
<1>6. Len(v) = Len(w) /\ Len(v) = Len(q) - h + 1 /\ Len(u) = Len(q) - h
  BY <1>1, <1>2, <1>4, <1>5
<1>7. ASSUME NEW i \in 1 .. Len(v) PROVE v[i] = w[i]
  <2>1. CASE i \in 1 .. Len(u)
    <3>1. h + i \in 1 .. Len(q) /\ i \in 1 .. Len(r) - h /\ i \in 1 .. Len(q) - h
      BY <1>1, <1>6, <2>1
    <3> QED BY <1>1, <1>2, <1>4, <1>5, <2>1, <3>1
  <2>2. CASE i = Len(u) + 1
    <3>1. i \in 1 .. Len(r) - h /\ h + i = Len(q) + 1
      BY <1>1, <1>6, <2>2
    <3> QED BY <1>1, <1>4, <1>5, <2>2, <3>1
  <2> QED BY <1>1, <1>6, <2>1, <2>2
<1>8. v = w
  BY <1>4, <1>5, <1>6, <1>7, SeqEqual
<1> QED BY <1>8 DEF r, u, v, w

LEMMA RestTail ==
    ASSUME NEW q \in Seq(Event), NEW h \in 0 .. Len(q), h < Len(q)
    PROVE  /\ Rest(q, h) # << >> /\ Rest(q, h)[1] = q[h + 1]
           /\ Rest(q, h + 1) = Tail(Rest(q, h))
<1> DEFINE u == Rest(q, h)
           v == Rest(q, h + 1)
           w == Tail(u)
<1>1. u \in Seq(Event) /\ Len(u) = Len(q) - h /\ \A i \in 1 .. Len(q) - h : u[i] = q[h + i]
  BY RestElements
<1>2. Len(q) \in Nat /\ h \in Nat /\ h + 1 \in 0 .. Len(q)
  BY LenProperties
<1>3. v \in Seq(Event) /\ Len(v) = Len(q) - (h + 1)
        /\ \A i \in 1 .. Len(q) - (h + 1) : v[i] = q[(h + 1) + i]
  BY <1>2, RestElements
<1> HIDE DEF u, v
<1>4. u # << >> /\ u[1] = q[h + 1]
  BY <1>1, <1>2
<1>5. w \in Seq(Event) /\ Len(w) = Len(u) - 1 /\ \A i \in 1 .. Len(u) - 1 : w[i] = u[i + 1]
  BY <1>1, <1>4, TailElements, HeadTailProperties DEF TailAt
<1> HIDE DEF w
<1>6. Len(v) = Len(w)
  BY <1>1, <1>2, <1>3, <1>5
<1>7. ASSUME NEW i \in 1 .. Len(v) PROVE v[i] = w[i]
  <2>1. /\ i \in 1 .. Len(q) - (h + 1) /\ i \in 1 .. Len(u) - 1 /\ i + 1 \in 1 .. Len(q) - h
        /\ (h + 1) + i = h + (i + 1)
    BY <1>1, <1>2, <1>3
  <2> QED BY <1>1, <1>3, <1>5, <2>1
<1>8. v = w
  BY <1>3, <1>5, <1>6, <1>7, SeqEqual
<1> QED BY <1>4, <1>8 DEF u, v, w

\* An acknowledgement changes nothing of what is left to do.
LEMMA RestOfTail ==
    ASSUME NEW q \in Seq(Event), NEW h \in 1 .. Len(q)
    PROVE  Rest(Tail(q), h - 1) = Rest(q, h)
<1> DEFINE r == Tail(q)
           u == Rest(q, h)
           v == Rest(r, h - 1)
<1>1. Len(q) \in Nat /\ q # << >> /\ h \in 0 .. Len(q) /\ h \in Nat
  BY LenProperties
<1>2. r \in Seq(Event) /\ Len(r) = Len(q) - 1 /\ \A i \in 1 .. Len(q) - 1 : r[i] = q[i + 1]
  BY <1>1, TailElements, HeadTailProperties DEF TailAt
<1>3. u \in Seq(Event) /\ Len(u) = Len(q) - h /\ \A i \in 1 .. Len(q) - h : u[i] = q[h + i]
  BY <1>1, RestElements
<1> HIDE DEF r, u
<1>4. h - 1 \in 0 .. Len(r)
  BY <1>1, <1>2
<1>5. v \in Seq(Event) /\ Len(v) = Len(r) - (h - 1)
        /\ \A i \in 1 .. Len(r) - (h - 1) : v[i] = r[(h - 1) + i]
  BY <1>2, <1>4, RestElements
<1> HIDE DEF v
<1>6. Len(v) = Len(u)
  BY <1>1, <1>2, <1>3, <1>5
<1>7. ASSUME NEW i \in 1 .. Len(v) PROVE v[i] = u[i]
  <2>1. /\ i \in 1 .. Len(r) - (h - 1) /\ i \in 1 .. Len(q) - h
        /\ (h - 1) + i \in 1 .. Len(q) - 1 /\ ((h - 1) + i) + 1 = h + i
    BY <1>1, <1>2, <1>5
  <2> QED BY <1>2, <1>3, <1>5, <2>1
<1>8. v = u
  BY <1>3, <1>5, <1>6, <1>7, SeqEqual
<1> QED BY <1>8 DEF r, u, v

\* What is left to do ends with what the readers see.
LEMMA RestSpeaks ==
    ASSUME NEW q \in Seq(Event), NEW h \in 0 .. Len(q), NEW f, Tracks(q, f),
           NEW s \in Slots, SpeaksOf(Rest(q, h), s)
    PROVE  /\ f[s] = NoBook => Removes(Rest(q, h), s)
           /\ f[s] # NoBook => In(Rest(q, h), Detected(s, f[s]))
<1> DEFINE u == Rest(q, h)
<1>1. u \in Seq(Event) /\ Len(u) = Len(q) - h /\ \A i \in 1 .. Len(q) - h : u[i] = q[h + i]
  BY RestElements
<1>2. Len(q) \in Nat /\ h \in Nat /\ h <= Len(q) /\ NoBook \notin Books
  BY LenProperties, BoardAssumption
<1> HIDE DEF u
<1>3. PICK i \in 1 .. Len(u) : u[i].slot = s
  BY DEF SpeaksOf, u
<1>4. h + i \in 1 .. Len(q) /\ q[h + i].slot = s
  BY <1>1, <1>2, <1>3
<1>5. PICK j \in h + i .. Len(q) : q[j].slot = q[h + i].slot /\ IsLast(q, j)
  BY <1>4 DEF Tracks, HasLast
<1>6. j \in 1 .. Len(q) /\ j - h \in 1 .. Len(u) /\ h + (j - h) = j
  BY <1>1, <1>2, <1>3, <1>5
<1>7. u[j - h] = q[j] /\ q[j] \in Event /\ q[j].slot = s
  BY <1>1, <1>4, <1>5, <1>6, ElementOfSeq
<1>8. f[s] = After(q[j])
  BY <1>5, <1>6, <1>7 DEF Tracks, EndsAt
<1>9. q[j].event \in {"DETECTED", "REMOVED"} /\ q[j].uid \in Books
        /\ q[j] = [event |-> q[j].event, slot |-> q[j].slot, uid |-> q[j].uid]
  BY <1>7 DEF Event
<1>10. f[s] = NoBook => Removes(u, s)
  BY <1>2, <1>6, <1>7, <1>8, <1>9 DEF After, Removes
<1>11. f[s] # NoBook => In(u, Detected(s, f[s]))
  BY <1>6, <1>7, <1>8, <1>9 DEF After, In, Detected
<1> QED BY <1>10, <1>11 DEF u

-----------------------------------------------------------------------------
(* A book is shelved for each time that it is taken out, at most. *)

\* The backend has the book in a slot and does not wait to hear that it is there.
Held(b) == \E s \in Slots : copy[s] = b /\ ~Reloads(Unhandled, s, b)

\* The book is in the slot where the backend has it or will have it.
InPlace(b) ==
    \E s \in Slots : inside[s] = b /\
        \/ present[s] = b /\ In(Unhandled, Detected(s, b))
        \/ copy[s] = b /\ present[s] \in {b, NoBook} /\ ~Removes(Unhandled, s)

Coming(b) == Cardinality(Loads(Unhandled, b))

\* How often a book was taken out, and once more when it is in place, is no less than
\* how often it will be loaded, and once more when it is held.
Credit(b) ==
    /\ taken[b] + 1 >= Coming(b)
    /\ Held(b) \/ ~InPlace(b) => taken[b] >= Coming(b)
    /\ Held(b) /\ ~InPlace(b) => taken[b] > Coming(b)

CreditInv == taken \in [Books -> Nat] /\ (~repeated => \A b \in Registered : Credit(b))

LEMMA UnhandledTypes ==
    ASSUME EventTypes PROVE Unhandled \in Seq(Event) /\ \A b : Coming(b) \in Nat
<1>1. Unhandled \in Seq(Event)
  BY RestElements DEF EventTypes, Unhandled
<1> QED BY <1>1, LoadsFinite DEF Coming

\* The last that waits to be handled of a slot is what the reader sees now.
LEMMA UnhandledSpeaks ==
    ASSUME ReaderInv, NEW s \in Slots, SpeaksOf(Unhandled, s)
    PROVE  /\ present[s] = NoBook => Removes(Unhandled, s)
           /\ present[s] # NoBook => In(Unhandled, Detected(s, present[s]))
BY RestSpeaks DEF ReaderInv, EventTypes, Unhandled

LEMMA CreditKept ==
    ASSUME EventTypes, EventTypes', NEW b \in Books, taken \in [Books -> Nat],
           taken' \in [Books -> Nat], Credit(b), taken'[b] >= taken[b], Coming(b)' <= Coming(b),
           Held(b)' => Held(b), InPlace(b) => InPlace(b)'
    PROVE  Credit(b)'
<1>1. /\ Coming(b) \in Nat /\ Coming(b)' \in Nat
      /\ taken[b] \in Nat /\ taken'[b] \in Nat
  <2>1. Unhandled' \in Seq(Event)
    BY RestElements DEF EventTypes, Unhandled
  <2>2. Coming(b)' \in Nat
    BY <2>1, LoadsFinite DEF Coming
  <2> QED BY <2>2, UnhandledTypes
<1>2. taken'[b] + 1 >= Coming(b)'
  BY <1>1 DEF Credit
<1>3. taken[b] >= Coming(b) => taken'[b] >= Coming(b)'
  BY <1>1
<1>4. taken[b] > Coming(b) => taken'[b] > Coming(b)'
  BY <1>1
<1> QED BY <1>2, <1>3, <1>4 DEF Credit

\* What a reader adds to the queue.
SeesQueue(s) ==
    LET q == Unhandled
        r == Unhandled' IN
    /\ r \in Seq(Event)
    /\ \A x : In(q, x) => In(r, x)
    /\ inside[s] # NoBook => In(r, Detected(s, inside[s]))
    /\ \A p \in Slots \ {s} : Removes(r, p) => Removes(q, p)
    /\ \A p, c : Reloads(q, p, c) => Reloads(r, p, c)
    /\ present[s] = NoBook /\ ~SpeaksOf(q, s) => Reloads(r, s, inside[s])
    /\ \A c \in Books : Cardinality(Loads(r, c)) =
                        IF c = inside[s] THEN Cardinality(Loads(q, c)) + 1
                        ELSE Cardinality(Loads(q, c))

LEMMA SeenQueue ==
    ASSUME EventTypes, NEW s \in Slots, Seen(s) \/ NotSeen(s)
    PROVE  SeesQueue(s)
<1> DEFINE q == Unhandled
           r == Unhandled'
           o == Removal(s, present[s])
           d == Detected(s, inside[s])
<1>0. inside[s] \in Tags /\ present[s] \in Tags /\ NoBook \notin Books /\ Tags = Books \cup {NoBook}
  BY BoardAssumption DEF EventTypes, Tags
<1>1. events \in Seq(Event) /\ handled \in 0 .. Len(events) /\ handled' = handled
  BY DEF EventTypes, Seen, NotSeen, Emit
<1>2. q \in Seq(Event)
  BY UnhandledTypes
<1>3. /\ present[s] # NoBook => o \in Event /\ Removed(s) = <<o>>
      /\ present[s] = NoBook => Removed(s) = << >>
      /\ inside[s] # NoBook => d \in Event
      /\ o.slot = s /\ o.event = "REMOVED" /\ d.slot = s /\ d.event = "DETECTED" /\ d.uid = inside[s]
  BY <1>0 DEF Removed, Removal, Detected, Event
<1>4. CASE inside[s] = NoBook
  <2>1. present[s] # NoBook /\ events' = Append(events, o)
    <3>1. present[s] # NoBook /\ events' = events \o Removed(s)
      BY <1>4 DEF Seen, NotSeen, Emit
    <3>2. o \in Event /\ events' = events \o <<o>>
      BY <1>3, <3>1
    <3> HIDE DEF o
    <3> QED BY <1>1, <3>1, <3>2, AppendIsConcat
  <2>2. o \in Event /\ r = Append(q, o)
    BY <1>1, <1>3, <2>1, RestAppend DEF Unhandled
  <2> HIDE DEF o, d, q, r
  <2>3. \A c : Cardinality(Loads(r, c)) = Cardinality(Loads(q, c))
    BY <1>2, <1>3, <2>2, LoadsAppend
  <2>4. r \in Seq(Event)
    BY <1>2, <2>2, AppendElements
  <2> QED BY <1>0, <1>2, <1>3, <1>4, <2>1, <2>2, <2>3, <2>4, QueueAppend DEF SeesQueue, q, r
<1>5. CASE inside[s] # NoBook /\ present[s] = NoBook
  <2>1. events' = Append(events, d)
    BY <1>1, <1>3, <1>5 DEF Seen, NotSeen, Emit
  <2>2. d \in Event /\ r = Append(q, d)
    BY <1>1, <1>3, <1>5, <2>1, RestAppend DEF Unhandled
  <2> HIDE DEF o, q, r
  <2>3. \A c : Cardinality(Loads(r, c)) = IF c = inside[s] THEN Cardinality(Loads(q, c)) + 1
                                          ELSE Cardinality(Loads(q, c))
    BY <1>2, <1>3, <2>2, LoadsAppend
  <2>4. r \in Seq(Event)
    BY <1>2, <2>2, AppendElements
  <2>5. /\ \A x : In(r, x) <=> In(q, x) \/ x = d
        /\ \A p : Removes(r, p) <=> Removes(q, p)
        /\ \A p, c : Reloads(q, p, c) => Reloads(r, p, c)
        /\ ~SpeaksOf(q, s) => Reloads(r, s, inside[s])
    BY <1>2, <1>3, <2>2, QueueAppend
  <2> QED BY <2>3, <2>4, <2>5 DEF SeesQueue, q, r
<1>6. CASE inside[s] # NoBook /\ present[s] # NoBook
  <2> DEFINE m == Append(q, o)
             n == Append(events, o)
  <2>1. o \in Event /\ d \in Event /\ events' = Append(n, d)
    <3>1. events' = events \o (<<o>> \o <<d>>) /\ o \in Event /\ d \in Event
      BY <1>3, <1>6 DEF Seen, NotSeen, Emit
    <3> HIDE DEF o, d
    <3> QED BY <1>1, <3>1
  <2>2. n \in Seq(Event) /\ handled \in 0 .. Len(n) /\ Rest(n, handled) = m
    <3>1. n \in Seq(Event) /\ Len(n) = Len(events) + 1 /\ Len(events) \in Nat
      BY <1>1, <2>1, AppendElements
    <3> HIDE DEF o, n
    <3> QED BY <1>1, <2>1, <3>1, RestAppend DEF Unhandled, n
  <2>3. m \in Seq(Event)
    BY <1>2, <2>1, AppendElements
  <2> HIDE DEF n
  <2>4. r = Append(m, d)
    BY <1>1, <2>1, <2>2, RestAppend DEF Unhandled
  <2> HIDE DEF o, q, r, m
  <2>5. \A c : Cardinality(Loads(m, c)) = Cardinality(Loads(q, c))
    BY <1>2, <1>3, <2>1, LoadsAppend DEF m
  <2>6. \A c : Cardinality(Loads(r, c)) = IF c = inside[s] THEN Cardinality(Loads(m, c)) + 1
                                          ELSE Cardinality(Loads(m, c))
    BY <1>3, <2>1, <2>3, <2>4, LoadsAppend
  <2>7. /\ \A x : In(q, x) => In(m, x)
        /\ \A p : Removes(m, p) <=> Removes(q, p) \/ p = s
        /\ \A p, c : Reloads(q, p, c) => Reloads(m, p, c)
    BY <1>2, <1>3, <2>1, QueueAppend DEF m
  <2>8. /\ \A x : In(r, x) <=> In(m, x) \/ x = d
        /\ \A p : Removes(r, p) <=> Removes(m, p)
        /\ \A p, c : Reloads(m, p, c) => Reloads(r, p, c)
    BY <1>3, <2>1, <2>3, <2>4, QueueAppend
  <2>9. r \in Seq(Event)
    BY <2>1, <2>3, <2>4, AppendElements
  <2> QED BY <1>6, <2>5, <2>6, <2>7, <2>8, <2>9 DEF SeesQueue, q, r
<1> QED BY <1>4, <1>5, <1>6

LEMMA CreditTypes ==
    ASSUME EventTypes, EventTypes', NEW b \in Books, taken \in [Books -> Nat],
           taken' \in [Books -> Nat]
    PROVE  Coming(b) \in Nat /\ Coming(b)' \in Nat /\ taken[b] \in Nat /\ taken'[b] \in Nat
<1>1. Unhandled' \in Seq(Event)
  BY RestElements DEF EventTypes, Unhandled
<1>2. Coming(b)' \in Nat
  BY <1>1, LoadsFinite DEF Coming
<1> QED BY <1>2, UnhandledTypes

\* One event that loads the book is no longer to come.
LEMMA CreditLoaded ==
    ASSUME EventTypes, EventTypes', NEW b \in Books, taken \in [Books -> Nat],
           taken' = taken, Credit(b), Coming(b) = Coming(b)' + 1,
           InPlace(b) /\ Held(b)' => InPlace(b)' \/ Held(b)
    PROVE  Credit(b)'
<1>1. Coming(b) \in Nat /\ Coming(b)' \in Nat /\ taken[b] \in Nat
  BY CreditTypes
<1>2. taken[b] + 1 >= Coming(b)' + 1
  BY DEF Credit
<1>3. Held(b)' /\ ~InPlace(b)' => taken[b] >= Coming(b)' + 1
  BY DEF Credit
<1>4. taken[b] + 1 >= Coming(b)' + 1 => taken[b] >= Coming(b)' /\ taken[b] + 1 >= Coming(b)'
  BY <1>1
<1>5. taken[b] >= Coming(b)' + 1 => taken[b] > Coming(b)'
  BY <1>1
<1> QED BY <1>2, <1>3, <1>4, <1>5 DEF Credit

LEMMA CreditTaken ==
    ASSUME EventTypes, EventTypes', NEW b \in Books, taken \in [Books -> Nat],
           taken' \in [Books -> Nat], taken'[b] = taken[b] + 1, Credit(b),
           Coming(b)' = Coming(b), Held(b)' => Held(b)
    PROVE  Credit(b)'
<1>1. Coming(b) \in Nat /\ Coming(b)' = Coming(b) /\ taken[b] \in Nat
  BY CreditTypes
<1>2. taken'[b] + 1 >= Coming(b) /\ taken'[b] >= Coming(b)
  <2>1. taken[b] + 1 >= Coming(b)
    BY DEF Credit
  <2> QED BY <1>1, <2>1
<1>3. Held(b) => taken'[b] > Coming(b)
  <2>1. Held(b) => taken[b] >= Coming(b)
    BY DEF Credit
  <2>2. taken[b] >= Coming(b) => taken'[b] > Coming(b)
    BY <1>1
  <2> QED BY <2>1, <2>2
<1> QED BY <1>1, <1>2, <1>3 DEF Credit

\* A book is shelved that the backend held.
LEMMA CreditShelved ==
    ASSUME EventTypes, EventTypes', NEW b \in Books, taken \in [Books -> Nat],
           taken' \in [Books -> Nat], Credit(b), Held(b), ~Held(b)', InPlace(b) => InPlace(b)',
           Coming(b)' = Coming(b), taken'[b] = IF taken[b] > 0 THEN taken[b] - 1 ELSE taken[b]
    PROVE  Credit(b)'
<1>1. Coming(b) \in Nat /\ Coming(b)' = Coming(b) /\ taken[b] \in Nat
  BY CreditTypes
<1>2. taken'[b] + 1 >= Coming(b)
  <2>1. taken[b] >= Coming(b)
    BY DEF Credit
  <2> QED BY <1>1, <2>1
<1>3. ~InPlace(b)' => taken'[b] >= Coming(b)
  <2>1. ~InPlace(b)' => taken[b] > Coming(b)
    BY DEF Credit
  <2>2. taken[b] > Coming(b) => taken'[b] >= Coming(b)
    BY <1>1
  <2> QED BY <2>1, <2>2
<1> QED BY <1>1, <1>2, <1>3 DEF Credit

LEMMA CreditSees ==
    ASSUME ReaderInv, EventTypes', TaskOK, NEW b \in Registered, taken \in [Books -> Nat],
           Credit(b), NEW s \in Slots, Seen(s) \/ NotSeen(s)
    PROVE  Credit(b)'
<1>1. /\ SeesQueue(s) /\ inside[s] # present[s] /\ UNCHANGED <<inside, copy, taken>>
      /\ \A p \in Slots : present'[p] = IF p = s THEN inside[s] ELSE present[p]
  BY EmitTracks, SeenQueue DEF ReaderInv, EventTypes, boardVars
<1>2. /\ b \in Books /\ b # NoBook
  BY BoardAssumption
<1>3. /\ \A x : In(Unhandled, x) => In(Unhandled', x)
      /\ inside[s] # NoBook => In(Unhandled', Detected(s, inside[s]))
      /\ \A p \in Slots \ {s} : Removes(Unhandled', p) => Removes(Unhandled, p)
      /\ \A p, c : Reloads(Unhandled, p, c) => Reloads(Unhandled', p, c)
      /\ present[s] = NoBook /\ ~SpeaksOf(Unhandled, s) => Reloads(Unhandled', s, inside[s])
      /\ Coming(b)' = IF b = inside[s] THEN Coming(b) + 1 ELSE Coming(b)
  BY <1>1, <1>2 DEF SeesQueue, Coming
<1>4. Held(b)' => Held(b)
  BY <1>1, <1>3 DEF Held
<1>5. EventTypes
  BY DEF ReaderInv
<1>6. CASE b # inside[s]
  <2>1. InPlace(b) => InPlace(b)'
    <3> SUFFICES ASSUME NEW p \in Slots, inside[p] = b,
                        \/ present[p] = b /\ In(Unhandled, Detected(p, b))
                        \/ copy[p] = b /\ present[p] \in {b, NoBook} /\ ~Removes(Unhandled, p)
                 PROVE  InPlace(b)'
      BY DEF InPlace
    <3>1. p # s /\ present'[p] = present[p] /\ inside'[p] = inside[p] /\ copy'[p] = copy[p]
      BY <1>1, <1>6
    <3> QED BY <1>3, <3>1 DEF InPlace
  <2>2. Coming(b)' <= Coming(b) /\ taken'[b] >= taken[b]
    BY <1>1, <1>2, <1>3, <1>5, <1>6, CreditTypes
  <2> QED BY <1>1, <1>2, <1>4, <1>5, <2>1, <2>2, CreditKept
<1>7. CASE b = inside[s]
  <2>1. InPlace(b)'
    BY <1>1, <1>2, <1>3, <1>7 DEF InPlace
  <2>2. ASSUME InPlace(b) PROVE Held(b) /\ ~Held(b)'
    <3>1. PICK p \in Slots : inside[p] = b /\
              (\/ present[p] = b /\ In(Unhandled, Detected(p, b))
               \/ copy[p] = b /\ present[p] \in {b, NoBook} /\ ~Removes(Unhandled, p))
      BY <2>2 DEF InPlace
    <3>2. p = s
      BY <1>2, <1>7, <3>1 DEF ReaderInv, OnePlace
    <3>3. copy[s] = b /\ present[s] = NoBook /\ ~Removes(Unhandled, s)
      BY <1>1, <1>7, <3>1, <3>2
    <3>4. ~SpeaksOf(Unhandled, s)
      BY <3>3, UnhandledSpeaks
    <3>5. Reloads(Unhandled', s, b)
      BY <1>3, <1>7, <3>3, <3>4
    <3>6. ~Reloads(Unhandled, s, b)
      BY <3>4 DEF Reloads, FirstSays, SpeaksOf, Detected
    <3>7. \A q \in Slots : copy[q] = b => q = s
      BY <1>2, <3>3 DEF TaskOK, OneSlot
    <3> QED BY <1>1, <3>3, <3>5, <3>6, <3>7 DEF Held
  <2>3. Coming(b) \in Nat /\ taken[b] \in Nat /\ Coming(b)' = Coming(b) + 1 /\ taken' = taken
    BY <1>1, <1>2, <1>3, <1>5, <1>7, CreditTypes
  <2>4. taken[b] >= Coming(b)
    BY <2>2 DEF Credit
  <2>5. Held(b)' => taken[b] > Coming(b)
    BY <1>4, <2>2 DEF Credit
  <2>6. taken[b] + 1 >= Coming(b) + 1
    BY <2>3, <2>4
  <2>7. taken[b] > Coming(b) => taken[b] >= Coming(b) + 1
    BY <2>3
  <2> QED BY <2>1, <2>3, <2>5, <2>6, <2>7 DEF Credit
<1> QED BY <1>6, <1>7

\* The first event that waits is handled, or lost.
FirstGone(e) ==
    LET q == Unhandled
        r == Unhandled' IN
    /\ e \in Event
    /\ \A x : In(q, x) <=> x = e \/ In(r, x)
    /\ \A s : Removes(q, s) <=> (e.slot = s /\ e.event = "REMOVED") \/ Removes(r, s)
    /\ \A s, b : s # e.slot => (Reloads(q, s, b) <=> Reloads(r, s, b))
    /\ \A b : Reloads(q, e.slot, b) <=> e = Detected(e.slot, b)
    /\ \A b : Coming(b) = IF e.event = "DETECTED" /\ e.uid = b THEN Coming(b)' + 1 ELSE Coming(b)'

LEMMA FirstGoes ==
    ASSUME EventTypes, Unhandled # << >>, Unhandled' = Tail(Unhandled)
    PROVE  FirstGone(Unhandled[1])
<1>1. Unhandled \in Seq(Event)
  BY UnhandledTypes
<1>2. \A b : Coming(b) = IF Unhandled[1].event = "DETECTED" /\ Unhandled[1].uid = b
                         THEN Coming(b)' + 1 ELSE Coming(b)'
  BY <1>1, LoadsTail DEF Coming
<1> QED BY <1>1, <1>2, QueueTail DEF FirstGone

LEMMA AcceptQueue ==
    ASSUME EventTypes, Accept
    PROVE  FirstGone(events[handled + 1])
<1>1. /\ events \in Seq(Event) /\ handled \in 0 .. Len(events) /\ handled < Len(events)
      /\ handled' = handled + 1 /\ UNCHANGED events
  BY DEF Accept, EventTypes
<1>2. /\ Rest(events, handled) # << >> /\ Rest(events, handled)[1] = events[handled + 1]
      /\ Rest(events, handled + 1) = Tail(Rest(events, handled))
  BY <1>1, RestTail
<1>3. Unhandled' = Tail(Unhandled)
  BY <1>1, <1>2 DEF Unhandled
<1> QED BY <1>2, <1>3, FirstGoes DEF Unhandled

LEMMA LostQueue ==
    ASSUME EventTypes, EventLost
    PROVE  FirstGone(events[1])
<1>1. /\ events \in Seq(Event) /\ events # << >> /\ handled = 0 /\ handled' = 0
      /\ events' = Tail(events)
  BY DEF EventLost, EventTypes
<1>2. 0 \in 0 .. Len(events) /\ 0 < Len(events) /\ 1 \in 1 .. Len(events)
        /\ 0 + 1 = 1 /\ 1 - 1 = 0
  BY <1>1, LenProperties
<1>3. /\ Rest(events, 0) # << >> /\ Rest(events, 0)[1] = events[0 + 1]
      /\ Rest(events, 0 + 1) = Tail(Rest(events, 0))
  BY <1>1, <1>2, RestTail
<1>4. Rest(Tail(events), 1 - 1) = Rest(events, 1)
  BY <1>1, <1>2, RestOfTail
<1>5. Unhandled' = Tail(Unhandled)
  BY <1>1, <1>2, <1>3, <1>4 DEF Unhandled
<1> QED BY <1>1, <1>2, <1>3, <1>5, FirstGoes DEF Unhandled

LEMMA AcknowledgedQueue ==
    ASSUME EventTypes, Acknowledge
    PROVE  Unhandled' = Unhandled
<1>1. /\ events \in Seq(Event) /\ handled \in 1 .. Len(events)
      /\ handled' = handled - 1 /\ events' = Tail(events)
  BY DEF Acknowledge, EventTypes
<1> QED BY <1>1, RestOfTail DEF Unhandled

\* A book that the reader sees where it is and the backend has is in place.
LEMMA SeenInPlace ==
    ASSUME ReaderInv', NEW s \in Slots, NEW b \in Books, inside'[s] = b, present'[s] = b,
           copy'[s] = b
    PROVE  InPlace(b)'
<1>1. /\ events' \in Seq(Event) /\ handled' \in 0 .. Len(events') /\ Tracks(events', present')
      /\ b # NoBook
  BY BoardAssumption DEF ReaderInv, EventTypes
<1>2. CASE SpeaksOf(Unhandled', s)
  <2>1. In(Unhandled', Detected(s, present'[s]))
    BY <1>1, <1>2, RestSpeaks DEF Unhandled
  <2> QED BY <2>1 DEF InPlace
<1>3. CASE ~SpeaksOf(Unhandled', s)
  <2>1. ~Removes(Unhandled', s)
    BY <1>3 DEF SpeaksOf, Removes
  <2> QED BY <2>1 DEF InPlace
<1> QED BY <1>2, <1>3

LEMMA CreditAccept ==
    ASSUME ReaderInv, ReaderInv', TaskOK, NEW b \in Registered, taken \in [Books -> Nat],
           taken' \in [Books -> Nat], Credit(b), Accept
    PROVE  Credit(b)'
<1> DEFINE e == events[handled + 1]
           s == e.slot
<1>1. /\ FirstGone(e) /\ UNCHANGED <<inside, present>>
      /\ e.event = "DETECTED" => Detect(s, e.uid)
      /\ e.event = "REMOVED" => Remove(s)
  BY AcceptQueue, AcceptCases DEF ReaderInv
<1> HIDE DEF e
<1>2. /\ e.event \in {"DETECTED", "REMOVED"} /\ s \in Slots /\ e.uid \in Books
      /\ e = [event |-> e.event, slot |-> e.slot, uid |-> e.uid]
  BY <1>1 DEF FirstGone, Event
<1>3. /\ \A x : In(Unhandled, x) <=> x = e \/ In(Unhandled', x)
      /\ \A p : Removes(Unhandled, p) <=> (s = p /\ e.event = "REMOVED") \/ Removes(Unhandled', p)
      /\ \A p, c : p # s => (Reloads(Unhandled, p, c) <=> Reloads(Unhandled', p, c))
      /\ \A c : Reloads(Unhandled, s, c) <=> e = Detected(s, c)
      /\ Coming(b) = IF e.event = "DETECTED" /\ e.uid = b THEN Coming(b)' + 1 ELSE Coming(b)'
  BY <1>1 DEF FirstGone
<1>4. /\ b \in Books /\ b # NoBook /\ EventTypes /\ EventTypes'
      /\ copy \in [Slots -> Registered \cup {NoBook}]
  BY BoardAssumption DEF ReaderInv, TaskOK, BoardTypes
<1>5. Coming(b) \in Nat /\ Coming(b)' \in Nat /\ taken[b] \in Nat /\ taken'[b] \in Nat
  BY <1>4, CreditTypes
<1> HIDE DEF s
<1>6. \A p, c : In(Unhandled, Detected(p, c)) /\ (c # e.uid \/ p # s) => In(Unhandled', Detected(p, c))
  BY <1>3 DEF Detected, s
<1>7. CASE e.event = "DETECTED" /\ e.uid \notin Registered
  <2>1. UNCHANGED <<copy, taken>> /\ e.uid # b /\ Coming(b)' = Coming(b)
    BY <1>1, <1>3, <1>7 DEF Detect
  <2>2. Held(b)' => Held(b)
    <3> SUFFICES ASSUME NEW p \in Slots, copy[p] = b, ~Reloads(Unhandled', p, b) PROVE Held(b)
      BY <2>1 DEF Held
    <3>1. ~Reloads(Unhandled, p, b)
      BY <1>3, <2>1 DEF Detected
    <3> QED BY <3>1 DEF Held
  <2>3. InPlace(b) => InPlace(b)'
    <3> SUFFICES ASSUME NEW p \in Slots, inside[p] = b,
                        \/ present[p] = b /\ In(Unhandled, Detected(p, b))
                        \/ copy[p] = b /\ present[p] \in {b, NoBook} /\ ~Removes(Unhandled, p)
                 PROVE  InPlace(b)'
      BY DEF InPlace
    <3> QED BY <1>1, <1>3, <1>6, <2>1 DEF InPlace
  <2>4. Coming(b)' <= Coming(b) /\ taken'[b] >= taken[b]
    BY <1>5, <2>1
  <2> QED BY <1>4, <2>2, <2>3, <2>4, CreditKept
<1>8. CASE e.event = "DETECTED" /\ e.uid \in Registered
  <2>1. copy' = Assign(s, e.uid) /\ UNCHANGED taken
    BY <1>1, <1>8 DEF Detect
  <2>2. \A p \in Slots : copy'[p] = IF p = s THEN e.uid ELSE IF copy[p] = e.uid THEN NoBook
                                    ELSE copy[p]
    BY <2>1 DEF Assign
  <2>3. CASE b = e.uid
    <3>1. InPlace(b) => InPlace(b)' \/ Held(b)
      <4> SUFFICES ASSUME NEW p \in Slots, inside[p] = b,
                          \/ present[p] = b /\ In(Unhandled, Detected(p, b))
                          \/ copy[p] = b /\ present[p] \in {b, NoBook} /\ ~Removes(Unhandled, p)
                   PROVE  InPlace(b)' \/ Held(b)
        BY DEF InPlace
      <4>1. CASE present[p] = b /\ p = s
        <5>1. inside'[p] = b /\ present'[p] = b /\ copy'[p] = b
          BY <1>1, <2>2, <2>3, <4>1
        <5> QED BY <1>4, <5>1, SeenInPlace
      <4>2. CASE present[p] = b /\ p # s /\ In(Unhandled, Detected(p, b))
        BY <1>1, <1>6, <4>2 DEF InPlace
      <4>3. CASE copy[p] = b /\ present[p] \in {b, NoBook} /\ ~Removes(Unhandled, p) /\ p = s
        <5>1. copy'[s] = b /\ ~Removes(Unhandled', s)
          BY <1>3, <2>2, <2>3, <4>3
        <5> QED BY <1>1, <4>3, <5>1 DEF InPlace
      <4>4. CASE copy[p] = b /\ present[p] \in {b, NoBook} /\ ~Removes(Unhandled, p) /\ p # s
                   /\ Reloads(Unhandled, p, b)
        <5>1. SpeaksOf(Unhandled, p)
          BY <4>4 DEF Reloads, FirstSays, SpeaksOf, Detected
        <5>2. present[p] = b /\ In(Unhandled, Detected(p, b))
          BY <4>4, <5>1, UnhandledSpeaks
        <5> QED BY <4>2, <4>4, <5>2
      <4>5. CASE copy[p] = b /\ ~Reloads(Unhandled, p, b)
        BY <4>5 DEF Held
      <4> QED BY <4>1, <4>2, <4>3, <4>4, <4>5
    <3>2. Coming(b) = Coming(b)' + 1
      BY <1>3, <1>8, <2>3
    <3> QED BY <1>4, <2>1, <3>1, <3>2, CreditLoaded
  <2>4. CASE b # e.uid
    <3>1. Held(b)' => Held(b)
      <4> SUFFICES ASSUME NEW p \in Slots, copy'[p] = b, ~Reloads(Unhandled', p, b) PROVE Held(b)
        BY DEF Held
      <4>1. p # s /\ copy[p] = b
        BY <1>4, <2>2, <2>4
      <4> QED BY <1>3, <4>1 DEF Held
    <3>2. InPlace(b) => InPlace(b)'
      <4> SUFFICES ASSUME NEW p \in Slots, inside[p] = b,
                          \/ present[p] = b /\ In(Unhandled, Detected(p, b))
                          \/ copy[p] = b /\ present[p] \in {b, NoBook} /\ ~Removes(Unhandled, p)
                   PROVE  InPlace(b)'
        BY DEF InPlace
      <4>1. CASE present[p] = b /\ In(Unhandled, Detected(p, b))
        BY <1>1, <1>6, <2>4, <4>1 DEF InPlace
      <4>2. CASE copy[p] = b /\ present[p] \in {b, NoBook} /\ ~Removes(Unhandled, p) /\ p # s
        <5>1. copy'[p] = b /\ ~Removes(Unhandled', p)
          BY <1>3, <2>2, <2>4, <4>2
        <5> QED BY <1>1, <4>2, <5>1 DEF InPlace
      <4>3. CASE copy[p] = b /\ present[p] \in {b, NoBook} /\ ~Removes(Unhandled, p) /\ p = s
        <5>1. e = Detected(s, e.uid)
          BY <1>2, <1>8 DEF Detected, s
        <5>2. In(Unhandled, e)
          BY <1>3
        <5>3. SpeaksOf(Unhandled, s)
          BY <5>2 DEF In, SpeaksOf, s
        <5>4. present[p] = b /\ In(Unhandled, Detected(p, b))
          BY <4>3, <5>3, UnhandledSpeaks
        <5> QED BY <4>1, <5>4
      <4> QED BY <4>1, <4>2, <4>3
    <3>3. Coming(b)' <= Coming(b) /\ taken'[b] >= taken[b]
      BY <1>3, <1>5, <2>1, <2>4
    <3> QED BY <1>4, <3>1, <3>2, <3>3, CreditKept
  <2> QED BY <2>3, <2>4
<1>9. CASE e.event = "REMOVED"
  <2>1. /\ copy' = [copy EXCEPT ![s] = NoBook]
        /\ taken' = IF copy[s] \in active /\ taken[copy[s]] > 0
                    THEN [taken EXCEPT ![copy[s]] = @ - 1] ELSE taken
    BY <1>1, <1>9 DEF Remove
  <2>2. \A p \in Slots : copy'[p] = IF p = s THEN NoBook ELSE copy[p]
    BY <1>4, <2>1
  <2>3. ~Reloads(Unhandled, s, b) /\ Coming(b)' = Coming(b)
    BY <1>3, <1>9 DEF Detected
  <2>4. \A p, c : In(Unhandled, Detected(p, c)) => In(Unhandled', Detected(p, c))
    BY <1>3, <1>9 DEF Detected
  <2>5. InPlace(b) => InPlace(b)'
    <3> SUFFICES ASSUME NEW p \in Slots, inside[p] = b,
                        \/ present[p] = b /\ In(Unhandled, Detected(p, b))
                        \/ copy[p] = b /\ present[p] \in {b, NoBook} /\ ~Removes(Unhandled, p)
                 PROVE  InPlace(b)'
      BY DEF InPlace
    <3>1. CASE present[p] = b /\ In(Unhandled, Detected(p, b))
      BY <1>1, <2>4, <3>1 DEF InPlace
    <3>2. CASE copy[p] = b /\ present[p] \in {b, NoBook} /\ ~Removes(Unhandled, p)
      <4>1. p # s /\ ~Removes(Unhandled', p)
        BY <1>3, <1>9, <3>2
      <4>2. copy'[p] = b
        BY <2>2, <3>2, <4>1
      <4> QED BY <1>1, <3>2, <4>1, <4>2 DEF InPlace
    <3> QED BY <3>1, <3>2
  <2>6. Held(b)' => Held(b)
    <3> SUFFICES ASSUME NEW p \in Slots, copy'[p] = b, ~Reloads(Unhandled', p, b) PROVE Held(b)
      BY DEF Held
    <3>1. p # s /\ copy[p] = b
      BY <1>4, <2>2
    <3> QED BY <1>3, <3>1 DEF Held
  <2>7. CASE copy[s] = b
    <3>1. Held(b)
      BY <1>2, <2>3, <2>7 DEF Held, s
    <3>2. ~Held(b)'
      <4> SUFFICES ASSUME NEW p \in Slots, copy'[p] = b PROVE FALSE
        BY DEF Held
      <4>1. p # s /\ copy[p] = copy[s] /\ copy[p] # NoBook
        BY <1>4, <2>2, <2>7
      <4> QED BY <1>2, <4>1 DEF TaskOK, OneSlot, s
    <3>3. b \in active
      BY <1>2, <1>4, <2>7 DEF TaskOK, BookInSlotHasTask, s
    <3>4. taken'[b] = IF taken[b] > 0 THEN taken[b] - 1 ELSE taken[b]
      BY <1>4, <2>1, <2>7, <3>3
    <3> QED BY <1>4, <2>3, <2>5, <3>1, <3>2, <3>4, CreditShelved
  <2>8. CASE copy[s] # b
    <3>1. taken'[b] = taken[b]
      BY <1>4, <2>1, <2>8
    <3>2. Coming(b)' <= Coming(b) /\ taken'[b] >= taken[b]
      BY <1>5, <2>3, <3>1
    <3> QED BY <1>4, <2>5, <2>6, <3>2, CreditKept
  <2> QED BY <2>7, <2>8
<1> QED BY <1>2, <1>7, <1>8, <1>9

LEMMA CreditLost ==
    ASSUME ReaderInv, ReaderInv', NEW b \in Registered, taken \in [Books -> Nat], Credit(b), EventLost
    PROVE  Credit(b)'
<1> DEFINE e == events[1]
           s == e.slot
<1>1. FirstGone(e) /\ UNCHANGED <<inside, present, copy, taken>>
  BY LostQueue DEF ReaderInv, EventLost, piVars, boardVars
<1> HIDE DEF e
<1>2. /\ \A x : In(Unhandled, x) <=> x = e \/ In(Unhandled', x)
      /\ \A p : Removes(Unhandled, p) <=> (s = p /\ e.event = "REMOVED") \/ Removes(Unhandled', p)
      /\ \A p, c : p # s => (Reloads(Unhandled, p, c) <=> Reloads(Unhandled', p, c))
      /\ \A c : Reloads(Unhandled, s, c) <=> e = Detected(s, c)
      /\ Coming(b) = IF e.event = "DETECTED" /\ e.uid = b THEN Coming(b)' + 1 ELSE Coming(b)'
  BY <1>1 DEF FirstGone
<1>3. b \in Books /\ EventTypes /\ EventTypes' /\ taken' \in [Books -> Nat]
  BY <1>1, BoardAssumption DEF ReaderInv
<1>4. Coming(b) \in Nat /\ Coming(b)' \in Nat /\ taken[b] \in Nat
  BY <1>3, CreditTypes
<1>5. \A p : In(Unhandled, Detected(p, b)) /\ (e # Detected(s, b) \/ p # s) => In(Unhandled', Detected(p, b))
  BY <1>2 DEF Detected
<1>6. e \in Event
  BY <1>1 DEF FirstGone
<1> HIDE DEF s
<1>7. CASE e = Detected(s, b)
  <2>1. Coming(b) = Coming(b)' + 1
    BY <1>2, <1>7 DEF Detected
  <2>2. ASSUME InPlace(b), Held(b)' PROVE InPlace(b)' \/ Held(b)
    <3>1. PICK p \in Slots : inside[p] = b /\
              (\/ present[p] = b /\ In(Unhandled, Detected(p, b))
               \/ copy[p] = b /\ present[p] \in {b, NoBook} /\ ~Removes(Unhandled, p))
      BY <2>2 DEF InPlace
    <3>2. PICK r \in Slots : copy[r] = b /\ ~Reloads(Unhandled', r, b)
      BY <1>1, <2>2 DEF Held
    <3>3. CASE copy[p] = b /\ present[p] \in {b, NoBook} /\ ~Removes(Unhandled, p)
      BY <1>1, <1>2, <3>1, <3>3 DEF InPlace
    <3>4. CASE present[p] = b /\ In(Unhandled, Detected(p, b)) /\ p # s
      BY <1>1, <1>5, <3>1, <3>4 DEF InPlace
    <3>5. CASE present[p] = b /\ p = s /\ r = s
      BY <1>1, <1>3, <3>1, <3>2, <3>5, SeenInPlace
    <3>6. CASE r # s
      BY <1>2, <3>2, <3>6 DEF Held
    <3> QED BY <3>1, <3>3, <3>4, <3>5, <3>6
  <2> QED BY <1>1, <1>3, <2>1, <2>2, CreditLoaded
<1>8. CASE e # Detected(s, b)
  <2>1. ~(e.event = "DETECTED" /\ e.uid = b)
    BY <1>6, <1>8 DEF Event, Detected, s
  <2>2. Held(b)' => Held(b)
    <3> SUFFICES ASSUME NEW p \in Slots, copy[p] = b, ~Reloads(Unhandled', p, b) PROVE Held(b)
      BY <1>1 DEF Held
    <3> QED BY <1>2, <1>8 DEF Held
  <2>3. InPlace(b) => InPlace(b)'
    <3> SUFFICES ASSUME NEW p \in Slots, inside[p] = b,
                        \/ present[p] = b /\ In(Unhandled, Detected(p, b))
                        \/ copy[p] = b /\ present[p] \in {b, NoBook} /\ ~Removes(Unhandled, p)
                 PROVE  InPlace(b)'
      BY DEF InPlace
    <3> QED BY <1>1, <1>2, <1>5, <1>8 DEF InPlace
  <2>4. Coming(b)' <= Coming(b) /\ taken'[b] >= taken[b]
    BY <1>1, <1>2, <1>4, <2>1
  <2> QED BY <1>3, <2>2, <2>3, <2>4, CreditKept
<1> QED BY <1>7, <1>8

\* Each event that waits to load a book counts.
LEMMA ComingCounts ==
    ASSUME EventTypes, NEW b, NEW s, In(Unhandled, Detected(s, b))
    PROVE  /\ Coming(b) >= 1
           /\ \A p : p # s /\ In(Unhandled, Detected(p, b)) => Coming(b) >= 2
<1> DEFINE L == Loads(Unhandled, b)
<1>1. IsFiniteSet(L) /\ Cardinality(L) \in Nat
  BY UnhandledTypes, LoadsFinite
<1>2. PICK i \in 1 .. Len(Unhandled) : Unhandled[i] = Detected(s, b)
  BY DEF In
<1>3. i \in L
  BY <1>2 DEF Loads, Detected
<1> HIDE DEF L
<1>4. Cardinality(L) # 0
  BY <1>1, <1>3, FS_EmptySet
<1>5. ASSUME NEW p, p # s, In(Unhandled, Detected(p, b)) PROVE Cardinality(L) # 1
  <2>1. PICK j \in 1 .. Len(Unhandled) : Unhandled[j] = Detected(p, b)
    BY <1>5 DEF In
  <2>2. j \in L /\ j # i
    BY <1>2, <1>5, <2>1 DEF L, Loads, Detected
  <2> QED BY <1>1, <1>3, <2>2, FS_Singleton
<1>6. \A n \in Nat : (n # 0 => n >= 1) /\ (n # 0 /\ n # 1 => n >= 2)
  OBVIOUS
<1>7. Cardinality(L) = Coming(b)
  BY DEF L, Coming
<1>8. Coming(b) >= 1
  BY <1>1, <1>4, <1>6, <1>7
<1>9. \A p : p # s /\ In(Unhandled, Detected(p, b)) => Coming(b) >= 2
  BY <1>1, <1>4, <1>5, <1>6, <1>7
<1> QED BY <1>8, <1>9

LEMMA CreditRestart ==
    ASSUME ReaderInv, ReaderInv', TaskOK, NEW b \in Registered, taken \in [Books -> Nat],
           Credit(b), PiRestart
    PROVE  Credit(b)'
<1>1. /\ present' = [s \in Slots |-> NoBook] /\ events' = << >> /\ handled' = 0
      /\ UNCHANGED <<inside, copy, taken>>
  BY DEF PiRestart, boardVars
<1>2. b \in Books /\ b # NoBook /\ EventTypes /\ EventTypes' /\ taken' \in [Books -> Nat]
  BY <1>1, BoardAssumption DEF ReaderInv
<1>3. Coming(b) \in Nat /\ Coming(b)' \in Nat /\ taken[b] \in Nat /\ taken'[b] = taken[b]
  BY <1>1, <1>2, CreditTypes
<1>4. Unhandled' \in Seq(Event) /\ Len(Unhandled') = 0
  <2>1. << >> \in Seq(Event) /\ 0 \in 0 .. Len(<< >>) /\ Len(<< >>) = 0
    OBVIOUS
  <2>2. Rest(<< >>, 0) \in Seq(Event) /\ Len(Rest(<< >>, 0)) = Len(<< >>) - 0
    BY <2>1, RestElements
  <2> QED BY <1>1, <2>1, <2>2 DEF Unhandled
<1>5. \A i \in 1 .. Len(Unhandled') : FALSE
  BY <1>4
<1>6. Coming(b)' = 0
  <2>1. Loads(Unhandled', b) = {}
    BY <1>5 DEF Loads
  <2> QED BY <2>1, FS_EmptySet DEF Coming
<1>7. ASSUME Held(b)', ~InPlace(b)' PROVE taken[b] > 0
  <2>1. PICK s \in Slots : copy[s] = b
    BY <1>1, <1>7 DEF Held
  <2>2. \A p \in Slots : copy[p] = b => p = s
    BY <1>2, <2>1 DEF TaskOK, OneSlot
  <2>3. inside[s] # b
    <3>1. ~Removes(Unhandled', s)
      BY <1>5 DEF Removes
    <3> QED BY <1>1, <1>7, <2>1, <3>1 DEF InPlace
  <2>4. ASSUME InPlace(b)
        PROVE  \E p \in Slots : inside[p] = b /\ p # s /\ In(Unhandled, Detected(p, b))
    <3>1. PICK p \in Slots : inside[p] = b /\
              (\/ present[p] = b /\ In(Unhandled, Detected(p, b))
               \/ copy[p] = b /\ present[p] \in {b, NoBook} /\ ~Removes(Unhandled, p))
      BY <2>4 DEF InPlace
    <3> QED BY <2>2, <2>3, <3>1
  <2>5. CASE Reloads(Unhandled, s, b)
    <3>1. In(Unhandled, Detected(s, b))
      BY <2>5 DEF Reloads, FirstSays, In
    <3>2. CASE InPlace(b)
      <4>1. PICK p \in Slots : inside[p] = b /\ p # s /\ In(Unhandled, Detected(p, b))
        BY <2>4, <3>2
      <4>2. Coming(b) >= 2
        BY <1>2, <3>1, <4>1, ComingCounts
      <4>3. taken[b] + 1 >= Coming(b)
        BY DEF Credit
      <4> QED BY <1>3, <4>2, <4>3
    <3>3. CASE ~InPlace(b)
      <4>1. Coming(b) >= 1
        BY <1>2, <3>1, ComingCounts
      <4>2. taken[b] >= Coming(b)
        BY <3>3 DEF Credit
      <4> QED BY <1>3, <4>1, <4>2
    <3> QED BY <3>2, <3>3
  <2>6. CASE ~Reloads(Unhandled, s, b)
    <3>1. Held(b)
      BY <2>1, <2>6 DEF Held
    <3>2. CASE InPlace(b)
      <4>1. Coming(b) >= 1
        BY <1>2, <2>4, <3>2, ComingCounts
      <4>2. taken[b] >= Coming(b)
        BY <3>1 DEF Credit
      <4> QED BY <1>3, <4>1, <4>2
    <3>3. CASE ~InPlace(b)
      <4>1. taken[b] > Coming(b)
        BY <3>1, <3>3 DEF Credit
      <4> QED BY <1>3, <4>1
    <3> QED BY <3>2, <3>3
  <2> QED BY <2>5, <2>6
<1>8. taken'[b] >= Coming(b)' /\ taken'[b] + 1 >= Coming(b)'
  BY <1>3, <1>6
<1>9. Held(b)' /\ ~InPlace(b)' => taken'[b] > Coming(b)'
  BY <1>3, <1>6, <1>7
<1> QED BY <1>8, <1>9 DEF Credit

LEMMA CreditPlaced ==
    ASSUME ReaderInv, ReaderInv', NEW b \in Registered, taken \in [Books -> Nat], Credit(b),
           NEW s \in Slots, NEW c \in Books, Place(c, s)
    PROVE  Credit(b)'
<1>1. /\ UNCHANGED <<present, copy, taken, events, handled>>
      /\ inside[s] = NoBook /\ inside' = [inside EXCEPT ![s] = c]
  BY DEF Place, piVars, linkVars, boardVars
<1>2. b \in Books /\ b # NoBook /\ EventTypes /\ EventTypes' /\ taken' \in [Books -> Nat]
  BY <1>1, BoardAssumption DEF ReaderInv
<1>3. Unhandled' = Unhandled /\ (Held(b)' => Held(b))
  BY <1>1 DEF Unhandled, Held
<1>4. \A p \in Slots : inside[p] = b => inside'[p] = b
  BY <1>1, <1>2 DEF EventTypes
<1>5. InPlace(b) => InPlace(b)'
  BY <1>1, <1>3, <1>4 DEF InPlace
<1>6. Coming(b)' <= Coming(b) /\ taken'[b] >= taken[b]
  <2>1. Coming(b)' = Coming(b)
    BY <1>3 DEF Coming
  <2> QED BY <1>1, <1>2, <2>1, CreditTypes
<1> QED BY <1>2, <1>3, <1>5, <1>6, CreditKept

LEMMA CreditTakes ==
    ASSUME ReaderInv, ReaderInv', NEW b \in Registered, taken \in [Books -> Nat],
           taken' \in [Books -> Nat], Credit(b), NEW s \in Slots, Take(s)
    PROVE  Credit(b)'
<1>1. /\ UNCHANGED <<present, copy, events, handled>>
      /\ inside[s] # NoBook /\ inside' = [inside EXCEPT ![s] = NoBook]
      /\ taken' = [taken EXCEPT ![inside[s]] = @ + 1]
  BY DEF Take, piVars, linkVars, boardVars
<1>2. b \in Books /\ EventTypes /\ EventTypes'
  BY <1>1, BoardAssumption DEF ReaderInv
<1>3. Unhandled' = Unhandled /\ (Held(b)' => Held(b))
  BY <1>1 DEF Unhandled, Held
<1>4. Coming(b)' = Coming(b)
  BY <1>3 DEF Coming
<1>5. CASE inside[s] = b
  <2>1. taken'[b] = taken[b] + 1
    BY <1>1, <1>2, <1>5
  <2> QED BY <1>2, <1>3, <1>4, <2>1, CreditTaken
<1>6. CASE inside[s] # b
  <2>1. \A p \in Slots : inside[p] = b => inside'[p] = b
    BY <1>1, <1>2, <1>6 DEF EventTypes
  <2>2. InPlace(b) => InPlace(b)'
    BY <1>1, <1>3, <2>1 DEF InPlace
  <2>3. taken'[b] = taken[b]
    BY <1>1, <1>2, <1>6
  <2>4. Coming(b)' <= Coming(b) /\ taken'[b] >= taken[b]
    BY <1>2, <1>4, <2>3, CreditTypes
  <2> QED BY <1>2, <1>3, <2>2, <2>4, CreditKept
<1> QED BY <1>5, <1>6

LEMMA CreditStands ==
    ASSUME ReaderInv, ReaderInv', NEW b \in Registered, taken \in [Books -> Nat], Credit(b),
           UNCHANGED <<inside, present, copy, taken>>, Unhandled' = Unhandled
    PROVE  Credit(b)'
BY DEF Credit, Held, InPlace, Coming

LEMMA TakenTypes ==
    ASSUME EventTypes, taken \in [Books -> Nat], [Next]_vars
    PROVE  taken' \in [Books -> Nat]
<1>1. CASE UNCHANGED taken
  BY <1>1
<1>2. ASSUME NEW s \in Slots, Take(s) PROVE taken' \in [Books -> Nat]
  <2>1. inside[s] \in Books
    BY <1>2 DEF Take, EventTypes, Tags
  <2> QED BY <1>2, <2>1 DEF Take
<1>3. CASE Accept
  <2>1. events[handled + 1] \in Event
    BY <1>3, ElementOfSeq DEF Accept, EventTypes
  <2>2. \/ UNCHANGED taken
        \/ \E b : taken[b] > 0 /\ taken' = [taken EXCEPT ![b] = @ - 1]
    BY <1>3 DEF Accept, Detect, Remove
  <2>3. ASSUME NEW b, taken[b] > 0, taken' = [taken EXCEPT ![b] = @ - 1]
        PROVE  taken' \in [Books -> Nat]
    <3>1. CASE b \in Books
      BY <2>3, <3>1
    <3>2. CASE b \notin Books
      BY <2>3, <3>2
    <3> QED BY <3>1, <3>2
  <2> QED BY <2>2, <2>3
<1>4. ASSUME NEW s \in Slots, Seen(s) \/ NotSeen(s) \/ \E b \in Books : Place(b, s)
      PROVE  UNCHANGED taken
  BY <1>4 DEF Seen, NotSeen, Emit, Place
<1>5. CASE PiRestart \/ Acknowledge \/ Reconnect \/ EventLost \/ UNCHANGED readVars
  BY <1>1, <1>5 DEF PiRestart, Acknowledge, Reconnect, EventLost, readVars
<1> QED BY <1>1, <1>2, <1>3, <1>4, <1>5, StepCases DEF BookStep

LEMMA CreditInductive ==
    ReaderInv /\ ReaderInv' /\ TaskOK /\ CreditInv /\ [Next]_vars => CreditInv'
<1> SUFFICES ASSUME ReaderInv, ReaderInv', TaskOK, CreditInv, [Next]_vars PROVE CreditInv'
  OBVIOUS
<1>1. taken \in [Books -> Nat] /\ taken' \in [Books -> Nat]
  BY TakenTypes DEF CreditInv, ReaderInv
<1>2. ~repeated' => ~repeated /\ ~Reconnect
  BY StepCases DEF BookStep, Seen, NotSeen, Emit, Take, Place, PiRestart, Accept, Acknowledge,
                   Reconnect, EventLost, readVars, faultVars
<1> SUFFICES ASSUME NEW b \in Registered, Credit(b), ~Reconnect PROVE Credit(b)'
  BY <1>1, <1>2 DEF CreditInv
<1>3. ASSUME NEW s \in Slots, Seen(s) \/ NotSeen(s) PROVE Credit(b)'
  BY <1>1, <1>3, CreditSees DEF ReaderInv
<1>4. ASSUME NEW s \in Slots, Take(s) PROVE Credit(b)'
  BY <1>1, <1>4, CreditTakes
<1>5. ASSUME NEW s \in Slots, NEW c \in Books, Place(c, s) PROVE Credit(b)'
  BY <1>1, <1>5, CreditPlaced
<1>6. CASE PiRestart
  BY <1>1, <1>6, CreditRestart
<1>7. CASE Accept
  BY <1>1, <1>7, CreditAccept
<1>8. CASE EventLost
  BY <1>1, <1>8, CreditLost
<1>9. CASE Acknowledge
  <2>1. UNCHANGED <<inside, present, copy, taken>>
    BY <1>9 DEF Acknowledge, piVars, boardVars
  <2>2. Unhandled' = Unhandled
    BY <1>9, AcknowledgedQueue DEF ReaderInv
  <2> QED BY <1>1, <2>1, <2>2, CreditStands
<1>10. CASE UNCHANGED readVars
  <2>1. UNCHANGED <<inside, present, copy, taken, events, handled>>
    BY <1>10 DEF readVars, boardVars
  <2>2. Unhandled' = Unhandled
    BY <2>1 DEF Unhandled
  <2> QED BY <1>1, <2>1, <2>2, CreditStands
<1> QED BY <1>3, <1>4, <1>5, <1>6, <1>7, <1>8, <1>9, <1>10, StepCases DEF BookStep

LEMMA CreditInit == Init => CreditInv
<1> SUFFICES ASSUME Init PROVE CreditInv
  OBVIOUS
<1>1. /\ inside = [s \in Slots |-> NoBook] /\ copy = inside /\ events = << >> /\ handled = 0
      /\ taken = [b \in Books |-> 0]
  BY DEF Init
<1>2. << >> \in Seq(Event) /\ 0 \in 0 .. Len(<< >>) /\ Len(<< >>) = 0
  OBVIOUS
<1>3. Rest(<< >>, 0) \in Seq(Event) /\ Len(Rest(<< >>, 0)) = Len(<< >>) - 0
  BY <1>2, RestElements
<1>4. \A b : Coming(b) = 0
  <2>1. Len(Unhandled) = 0
    BY <1>1, <1>2, <1>3 DEF Unhandled
  <2>2. \A b : Loads(Unhandled, b) = {}
    BY <2>1 DEF Loads
  <2> QED BY <2>2, FS_EmptySet DEF Coming
<1>5. ASSUME NEW b \in Registered PROVE Credit(b)
  <2>1. b \in Books /\ b # NoBook /\ taken[b] = 0
    BY <1>1, BoardAssumption
  <2>2. ~Held(b)
    BY <1>1, <2>1 DEF Held
  <2> QED BY <1>4, <2>1, <2>2 DEF Credit
<1> QED BY <1>1, <1>5 DEF CreditInv

\* A task that is completed is completed for a book that the backend held, and that
\* was taken out more often than its task has been completed.
LEMMA ShelvedStep ==
    ReaderInv /\ TaskOK /\ CreditInv /\ [Next]_vars
      => [\A b \in active : b \notin active' => taken[b] > 0 \/ repeated]_vars
<1> SUFFICES ASSUME ReaderInv, TaskOK, CreditInv, [Next]_vars, ~repeated,
                    NEW b \in active, b \notin active'
             PROVE  taken[b] > 0
  OBVIOUS
<1>1. b \in Registered /\ b \in Books /\ b # NoBook /\ EventTypes /\ taken \in [Books -> Nat]
  BY BoardAssumption DEF TaskOK, BoardTypes, ReaderInv, CreditInv
<1>2. Accept
  <2>1. ASSUME NEW s \in Slots, Seen(s) \/ NotSeen(s) \/ Take(s) \/ \E c \in Books : Place(c, s)
        PROVE  UNCHANGED active
    BY <2>1 DEF Seen, NotSeen, Emit, Take, Place, boardVars
  <2>2. CASE PiRestart \/ Acknowledge \/ Reconnect \/ EventLost \/ UNCHANGED readVars
    BY <2>2 DEF PiRestart, Acknowledge, Reconnect, EventLost, readVars, boardVars
  <2> QED BY <2>1, <2>2, StepCases DEF BookStep
<1> DEFINE e == events[handled + 1]
           s == e.slot
<1>3. /\ FirstGone(e)
      /\ e.event = "DETECTED" => Detect(s, e.uid)
      /\ e.event = "REMOVED" => Remove(s)
  BY <1>1, <1>2, AcceptQueue, AcceptCases
<1> HIDE DEF e
<1>4. e.event \in {"DETECTED", "REMOVED"} /\ s \in Slots
  BY <1>3 DEF FirstGone, Event
<1>5. e.event # "DETECTED"
  BY <1>3 DEF Detect
<1>6. e.event = "REMOVED" /\ copy[s] = b
  BY <1>3, <1>4, <1>5 DEF Remove
<1>7. Held(b)
  <2>1. ~Reloads(Unhandled, s, b)
    BY <1>3, <1>6 DEF FirstGone, Detected
  <2> QED BY <1>4, <1>6, <2>1 DEF Held
<1>8. taken[b] >= Coming(b) /\ (~InPlace(b) => taken[b] > Coming(b))
  BY <1>1, <1>7 DEF CreditInv, Credit
<1>9. InPlace(b) => Coming(b) >= 1
  <2> SUFFICES ASSUME NEW p \in Slots, inside[p] = b,
                      \/ present[p] = b /\ In(Unhandled, Detected(p, b))
                      \/ copy[p] = b /\ present[p] \in {b, NoBook} /\ ~Removes(Unhandled, p)
               PROVE  Coming(b) >= 1
    BY DEF InPlace
  <2>1. CASE In(Unhandled, Detected(p, b))
    BY <1>1, <2>1, ComingCounts
  <2>2. CASE copy[p] = b /\ ~Removes(Unhandled, p)
    <3>1. p = s
      BY <1>1, <1>4, <1>6, <2>2 DEF TaskOK, OneSlot
    <3>2. Removes(Unhandled, s)
      BY <1>3, <1>6 DEF FirstGone
    <3> QED BY <2>2, <3>1, <3>2
  <2> QED BY <2>1, <2>2
<1>10. Coming(b) \in Nat /\ taken[b] \in Nat
  BY <1>1, UnhandledTypes
<1> QED BY <1>8, <1>9, <1>10

\* A removal that the backend handles completes the sorting task of a book that has been
\* taken out for it (SlotRfidEventService.remove, TaskService.recordShelved), whatever
\* was moved, delayed or lost meanwhile; unless an event was handled twice.
THEOREM ShelvedTaken == Spec => ShelvedWasTaken
<1> QED BY ReaderInit, CreditInit, ReaderInductive, TaskInductive, CreditInductive, ShelvedStep,
           PTL DEF Spec, ReaderInv, ShelvedWasTaken
=============================================================================
