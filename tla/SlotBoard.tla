----------------------------- MODULE SlotBoard -----------------------------
(***************************************************************************)
(* The slots of the cart, as the readers and lamps on the Raspberry Pi     *)
(* see them (src/embedded/rfid) and as the backend does: which copy is in  *)
(* which slot, the sorting task of each copy, the zone the cart is in and  *)
(* the slots that blink there.  Events go to the backend with QoS 1, in    *)
(* order, sent again when the connection breaks; commands for the lamps    *)
(* come back.  The backend handles events and positions in one thread, so  *)
(* each is one step.                                                       *)
(***************************************************************************)
EXTENDS Naturals, Sequences, FiniteSets

CONSTANTS
    Slots,
    Books,             \* tags that may be put into a slot
    Registered,        \* those in the catalogue
    Zones, Home,       \* the zone of the shelf of each book
    NoBook, Outside,   \* no tag in a slot, the cart in no zone
    RequiredSamples,   \* REQUIRED_CONSECUTIVE_SAMPLES
    MaxEvents, MaxCommands,  \* messages on their way
    MaxMoves,          \* books put in or taken out
    MaxFaults          \* restarts, breaks of the connection and messages lost

ASSUME BoardAssumption ==
    /\ Registered \subseteq Books /\ NoBook \notin Books
    /\ Home \in [Registered -> Zones] /\ Outside \notin Zones
    /\ RequiredSamples \in Nat \ {0}
    /\ {MaxEvents, MaxCommands, MaxMoves, MaxFaults} \subseteq Nat

VARIABLES
    inside,      \* what is in each slot
    present,     \* present_uid of each reader
    blink,       \* _blink of the lamps
    events,      \* events published and not acknowledged
    handled,     \* how many of them the backend has handled
    commands,    \* commands for the lamps on their way
    copy,        \* Slot.bookCopy
    unreadable,  \* slots with status RFID_ERROR
    active,      \* books with an ACTIVE task
    zone,        \* Cart.currentZone
    candidate,   \* StableZoneTracker: the zone seen last, and how often in a row
    taken,       \* history: how often each book was taken out, but for completed tasks
    doubtful,    \* history: slots with an event lost, and no known book since
    missed,      \* history: books with an event lost, and none seen detected since
    elsewhere,   \* history: slots whose card another reader has seen since
    hopped,      \* history: books that went there and back too soon (Hops)
    ghosts,      \* history: slots whose lamp was told of a book that was not there
    repeated,    \* history: an event was handled twice
    moves, faults

piVars    == <<present, blink>>
linkVars  == <<events, handled, commands>>
boardVars == <<copy, unreadable, active>>
zoneVars  == <<zone, candidate>>
faultVars == <<doubtful, missed, elsewhere, hopped, ghosts, repeated>>
counters  == <<moves, faults>>
vars == <<inside, piVars, linkVars, boardVars, zoneVars, taken, faultVars, counters>>

Tags == Books \cup {NoBook}
Places == Zones \cup {Outside}

Init ==
    /\ inside = [s \in Slots |-> NoBook] /\ present = inside /\ copy = inside
    /\ blink = {} /\ unreadable = {} /\ active = {}
    /\ events = << >> /\ handled = 0 /\ commands = << >>
    /\ zone = Outside /\ candidate = [zone |-> Outside, count |-> 0]
    /\ taken = [b \in Books |-> 0] /\ doubtful = {} /\ missed = {}
    /\ elsewhere = {} /\ hopped = {} /\ ghosts = {} /\ repeated = FALSE
    /\ moves = 0 /\ faults = 0

-----------------------------------------------------------------------------
(* The librarian. *)

\* A card that comes back to a slot within its timeout brings no event: when it was
\* seen in another slot meanwhile, the backend keeps it there.
Hops(b, s) == present[s] = b /\ s \in elsewhere

Place(b, s) ==
    /\ moves < MaxMoves /\ moves' = moves + 1
    /\ inside[s] = NoBook /\ \A p \in Slots : inside[p] # b
    /\ inside' = [inside EXCEPT ![s] = b]
    /\ hopped' = IF Hops(b, s) THEN hopped \cup {b} ELSE hopped
    /\ UNCHANGED <<piVars, linkVars, boardVars, zoneVars, taken, doubtful, missed,
                   elsewhere, ghosts, repeated, faults>>

Take(s) ==
    /\ moves < MaxMoves /\ moves' = moves + 1
    /\ inside[s] # NoBook
    /\ inside' = [inside EXCEPT ![s] = NoBook]
    /\ taken' = [taken EXCEPT ![inside[s]] = @ + 1]
    /\ UNCHANGED <<piVars, linkVars, boardVars, zoneVars, faultVars, faults>>

-----------------------------------------------------------------------------
(* The readers. *)

Detected(s, b) == [event |-> "DETECTED", slot |-> s, uid |-> b]
Removed(s) == IF present[s] = NoBook THEN << >>
              ELSE <<[event |-> "REMOVED", slot |-> s, uid |-> present[s]]>>

\* _emit and handle_rfid_event.
Emit(s, card, new) ==
    /\ Len(events) + Len(new) <= MaxEvents
    /\ events' = events \o new
    /\ present' = [present EXCEPT ![s] = card]
    /\ elsewhere' = {p \in Slots \ {s} : p \in elsewhere \/ present[p] \in {card} \ {NoBook}}
    /\ UNCHANGED <<inside, handled, commands, boardVars, zoneVars, taken, doubtful, missed,
                   hopped, ghosts, repeated, counters>>

\* Mutant of Seen: a new card replaces the one before without a word.
SeenReplaces(s) ==
    /\ inside[s] # NoBook /\ present[s] # inside[s]
    /\ Emit(s, inside[s], <<Detected(s, inside[s])>>)
    /\ blink' = IF present[s] = NoBook THEN blink ELSE blink \ {s}

\* _handle_uid_seen: another card than before is a removal first.
Seen(s) ==
    /\ inside[s] # NoBook /\ present[s] # inside[s]
    /\ Emit(s, inside[s], Removed(s) \o <<Detected(s, inside[s])>>)
    /\ blink' = IF present[s] = NoBook THEN blink ELSE blink \ {s}

\* Mutant of NotSeen: one failed read is enough.
NotSeenAtOnce(s) ==
    /\ present[s] # NoBook
    /\ Emit(s, NoBook, Removed(s))
    /\ blink' = blink \ {s}

\* _handle_uid_not_seen after card_lost_timeout; stop_blink goes with REMOVED.
NotSeen(s) ==
    /\ inside[s] = NoBook /\ present[s] # NoBook
    /\ Emit(s, NoBook, Removed(s))
    /\ blink' = blink \ {s}

\* The Pi restarts: _setup_readers starts from empty slots, the lamps from steady
\* green, and what paho had not sent is gone.
PiRestart ==
    /\ faults < MaxFaults /\ faults' = faults + 1
    /\ present' = [s \in Slots |-> NoBook] /\ blink' = {} /\ elsewhere' = {}
    /\ events' = << >> /\ handled' = 0 /\ commands' = << >>
    /\ LET unsent == {events[i] : i \in handled + 1 .. Len(events)} IN
       /\ doubtful' = doubtful \cup {s \in Slots : present[s] # NoBook}
                        \cup {e.slot : e \in unsent}
       /\ missed' = missed \cup {present[s] : s \in Slots} \cup {e.uid : e \in unsent}
    /\ UNCHANGED <<inside, boardVars, zoneVars, taken, hopped, ghosts,
                   repeated, moves>>

-----------------------------------------------------------------------------
(* SlotRfidEventService.accept. *)

\* Mutant of Assign: the slot that held the copy before keeps it.
AssignTwice(s, b) == [copy EXCEPT ![s] = b]

\* releaseIfHeldElsewhere and assignBook: a copy is in one slot.
Assign(s, b) == [p \in Slots |-> IF p = s THEN b
                                 ELSE IF copy[p] = b THEN NoBook ELSE copy[p]]

\* detect: an unknown tag leaves the copy of the slot; recordLoaded.
Detect(s, b) ==
    /\ IF b \in Registered
       THEN /\ copy' = Assign(s, b)
            /\ unreadable' = unreadable \ ({s} \cup {p \in Slots : copy[p] = b})
            /\ active' = active \cup {b}
            /\ doubtful' = doubtful \ {s}
            /\ missed' = missed \ {b}
       ELSE /\ unreadable' = unreadable \cup {s}
            /\ UNCHANGED <<copy, active, doubtful, missed>>
    /\ UNCHANGED taken

\* Mutant of Remove: the task is left to be done.
RemoveKeepsTask(s) ==
    /\ copy' = [copy EXCEPT ![s] = NoBook]
    /\ unreadable' = unreadable \ {s}
    /\ doubtful' = doubtful \ {s}
    /\ UNCHANGED <<active, taken, missed>>

\* remove: whatever copy the slot had is taken to be shelved (recordShelved), the
\* uid of the event is not looked at.
Remove(s) ==
    /\ copy' = [copy EXCEPT ![s] = NoBook]
    /\ unreadable' = unreadable \ {s}
    /\ active' = active \ {copy[s]}
    /\ taken' = IF copy[s] \in active /\ taken[copy[s]] > 0
                THEN [taken EXCEPT ![copy[s]] = @ - 1] ELSE taken
    /\ doubtful' = doubtful \ {s}
    /\ UNCHANGED missed

Accept ==
    /\ handled < Len(events)
    /\ LET e == events[handled + 1]
       IN IF e.event = "DETECTED" THEN Detect(e.slot, e.uid) ELSE Remove(e.slot)
    /\ handled' = handled + 1
    /\ UNCHANGED <<inside, piVars, events, commands, zoneVars, elsewhere, hopped, ghosts,
                   repeated, counters>>

\* The acknowledgement of the oldest event reaches the Pi.
Acknowledge ==
    /\ handled > 0
    /\ handled' = handled - 1 /\ events' = Tail(events)
    /\ UNCHANGED <<inside, piVars, commands, boardVars, zoneVars, taken, faultVars, counters>>

\* The connection breaks: what was not acknowledged is sent again.
Reconnect ==
    /\ faults < MaxFaults /\ faults' = faults + 1
    /\ handled > 0
    /\ handled' = 0
    /\ repeated' = TRUE
    /\ UNCHANGED <<inside, piVars, events, commands, boardVars, zoneVars, taken,
                   doubtful, missed, elsewhere, hopped, ghosts, moves>>

\* The backend is away, and its session at the broker is clean.
EventLost ==
    /\ faults < MaxFaults /\ faults' = faults + 1
    /\ handled = 0 /\ events # << >>
    /\ events' = Tail(events)
    /\ doubtful' = doubtful \cup {Head(events).slot}
    /\ missed' = missed \cup {Head(events).uid}
    /\ UNCHANGED <<inside, piVars, handled, commands, boardVars, zoneVars, taken,
                   elsewhere, hopped, ghosts, repeated, moves>>

-----------------------------------------------------------------------------
(* The zone and its lamps. *)

\* isTarget: the slots with a book of the zone.
Targets(z) == {s \in Slots : copy[s] # NoBook /\ Home[copy[s]] = z}

\* Mutant of SyncZoneLighting: nothing to light is nothing to say.
SyncNonEmpty(from, to) ==
    /\ commands' = IF Targets(to) = {} THEN commands
                   ELSE Append(commands, [s \in Targets(to) |-> copy[s]])
    /\ Len(commands') <= MaxCommands

\* syncZoneLighting: the slots to blink, each with the book it is for.
SyncZoneLighting(from, to) ==
    /\ commands' = IF Targets(to) = {} /\ from = Outside THEN commands
                   ELSE Append(commands, [s \in Targets(to) |-> copy[s]])
    /\ Len(commands') <= MaxCommands

\* CartPositionTelemetryService.accept with StableZoneTracker.observe.
Position(z) ==
    /\ candidate' = [zone |-> z,
                     count |-> IF z # candidate.zone THEN 1
                               ELSE IF candidate.count < RequiredSamples
                                    THEN candidate.count + 1 ELSE RequiredSamples]
    /\ zone' = IF candidate'.count >= RequiredSamples THEN z ELSE zone
    /\ IF zone' # zone THEN SyncZoneLighting(zone, zone') ELSE UNCHANGED commands
    /\ UNCHANGED <<inside, piVars, events, handled, boardVars, taken, faultVars, counters>>

\* handle_led_command and set_blink: the whole set is replaced.
Lit ==
    /\ commands # << >> /\ commands' = Tail(commands)
    /\ blink' = DOMAIN Head(commands)
    /\ ghosts' = {s \in blink' : present[s] # Head(commands)[s]}
    /\ UNCHANGED <<inside, present, events, handled, boardVars, zoneVars, taken,
                   doubtful, missed, elsewhere, hopped, repeated, counters>>

\* The Pi is away, and its session is clean.
CommandLost ==
    /\ faults < MaxFaults /\ faults' = faults + 1
    /\ commands # << >> /\ commands' = Tail(commands)
    /\ ghosts' = Slots
    /\ UNCHANGED <<inside, piVars, events, handled, boardVars, zoneVars, taken,
                   doubtful, missed, elsewhere, hopped, repeated, moves>>

-----------------------------------------------------------------------------
Next ==
    \/ \E s \in Slots : Take(s) \/ Seen(s) \/ NotSeen(s) \/ \E b \in Books : Place(b, s)
    \/ PiRestart \/ Accept \/ Acknowledge \/ Reconnect \/ EventLost
    \/ Lit \/ CommandLost \/ \E z \in Places : Position(z)

Spec == Init /\ [][Next]_vars

-----------------------------------------------------------------------------
TypeOK ==
    /\ {inside, present} \subseteq [Slots -> Tags]
    /\ copy \in [Slots -> Registered \cup {NoBook}]
    /\ \A i \in DOMAIN events : events[i].uid \in Books /\ events[i].slot \in Slots
    /\ handled \in 0 .. Len(events) /\ Len(commands) <= MaxCommands
    /\ blink \subseteq Slots /\ unreadable \subseteq Slots /\ active \subseteq Registered
    /\ zone \in Places /\ candidate.zone \in Places

\* The readers have seen what is in the slots, and the backend has been told.
Settled == events = << >> /\ present = inside

\* When things have settled, each slot shows the book that is in it, or the tag it
\* cannot read, however books were moved from slot to slot and whatever events were
\* sent again; unless an event of the slot was lost and no book of the catalogue
\* came or went since, or its book went to another slot and back within the timeout
\* of the reader.
BoardIsTrue ==
    Settled => \A s \in {p \in Slots \ doubtful : inside[p] \notin hopped} :
                 /\ copy[s] = IF inside[s] \in Registered THEN inside[s] ELSE NoBook
                 /\ s \in unreadable <=> inside[s] \in Books \ Registered

\* A copy that is in a slot has a task to be done, at any moment and after any loss:
\* the slot that a task is completed for is the only one with its book.
BookInSlotHasTask == \A s \in Slots : copy[s] # NoBook => copy[s] \in active

\* When things have settled, the books on the cart are those with a task to be
\* done; unless an event of the book was lost and it was not detected since, or
\* it went there and back.
TaskForEachBook ==
    Settled => \A b \in Registered \ (missed \cup hopped) :
                 b \in active <=> \E s \in Slots : inside[s] = b

\* A book counts as shelved no more often than it has been taken out, unless an
\* event was handled twice: a REMOVED that comes again completes the task of the
\* book that is in the slot by then.
ShelvedWasTaken ==
    [][\A b \in active : b \notin active' => taken[b] > 0 \/ repeated]_vars

\* When things have settled, a lamp blinks only at a book of this zone; unless the
\* book was taken out while the command was on its way, or a command was lost.
BlinkIsTarget ==
    Settled /\ commands = << >> => \A s \in blink \ ghosts :
                 inside[s] \in Registered /\ Home[inside[s]] = zone
=============================================================================
