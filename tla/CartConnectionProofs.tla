------------------------ MODULE CartConnectionProofs ------------------------
(* Theorems about CartConnection, for every set of request threads.        *)
EXTENDS CartConnection, TLAPS

Tx == [kind : Moves \cup Life, at : {"accepted", "stored", "removed", "done"},
       old : Row, lone : BOOLEAN]

TxTypeOK ==
    /\ row \in Row
    /\ tx \in [Threads -> Tx \cup {NoTx}]
    /\ {session, shown, alive, will, ordered, orphaned} \subseteq BOOLEAN
    /\ crossed \subseteq {"conn", "op"} /\ robbed \subseteq Threads

-----------------------------------------------------------------------------
(* What the building blocks of the actions do. *)

LEMMA TxKinds ==
    ASSUME TxTypeOK, NEW t \in Threads
    PROVE  /\ tx[t].kind \in Moves \cup Life \cup {"NONE"}
           /\ tx[t].kind = "NONE" <=> tx[t] = NoTx
           /\ tx[t] # NoTx => tx[t] \in Tx
BY DEF TxTypeOK, Tx, NoTx, Moves, Life

LEMMA KindsApart ==
    Moves \cap Life = {} /\ "NONE" \notin Moves \cup Life /\ Peers("BEAT") = Life
      /\ Peers("STALE") = Life /\ \A k \in Moves : Peers(k) = Moves
BY DEF Moves, Life, Peers

\* A read adds its own transaction, and its peers are no longer alone.
LEMMA ReadStep ==
    ASSUME TxTypeOK, NEW t \in Threads, NEW kind \in Moves \cup Life,
           NEW at \in {"accepted", "stored", "removed", "done"}, Read(t, kind, at)
    PROVE  /\ tx' \in [Threads -> Tx \cup {NoTx}] /\ row' = row
           /\ tx[t] = NoTx
           /\ tx'[t] \in Tx /\ tx'[t].kind = kind /\ tx'[t].at = at /\ tx'[t].old = row
           /\ tx'[t].lone <=> \A p \in Threads : tx[p].kind \notin Peers(kind)
           /\ \A p \in Threads \ {t} :
                /\ tx'[p].kind = tx[p].kind
                /\ tx[p] = NoTx => tx'[p] = NoTx
                /\ tx[p] # NoTx => /\ tx'[p].at = tx[p].at /\ tx'[p].old = tx[p].old
                                   /\ tx'[p].lone <=> tx[p].lone /\ tx[p].kind \notin Peers(kind)
<1> DEFINE peers == InFlight(Peers(kind))
<1>1. /\ tx[t] = NoTx /\ row' = row
      /\ tx' = [p \in Threads |->
                  CASE p = t -> [kind |-> kind, at |-> at, old |-> row, lone |-> peers = {}]
                    [] p \in peers -> [tx[p] EXCEPT !.lone = FALSE]
                    [] OTHER -> tx[p]]
  BY DEF Read
<1>2. (peers = {}) = (\A p \in Threads : tx[p].kind \notin Peers(kind))
  BY DEF InFlight
<1>3. t \notin peers
  BY <1>1, KindsApart DEF InFlight, NoTx, Peers, Moves, Life
<1>4. /\ tx'[t] \in Tx /\ tx'[t].kind = kind /\ tx'[t].at = at /\ tx'[t].old = row
      /\ tx'[t].lone = (peers = {})
  <2>1. (peers = {}) \in BOOLEAN
    OBVIOUS
  <2> HIDE DEF peers
  <2> DEFINE new == [kind |-> kind, at |-> at, old |-> row, lone |-> (peers = {})]
  <2>2. new \in Tx /\ new.kind = kind /\ new.at = at /\ new.old = row /\ new.lone = (peers = {})
    BY <2>1 DEF Tx, TxTypeOK
  <2>3. tx'[t] = new
    <3> HIDE DEF new
    <3>1. tx' = [p \in Threads |-> CASE p = t -> new
                                     [] p \in peers -> [tx[p] EXCEPT !.lone = FALSE]
                                     [] OTHER -> tx[p]]
      BY <1>1 DEF new
    <3> QED BY <1>3, <3>1
  <2> QED BY <2>2, <2>3
<1>5. ASSUME NEW p \in Threads \ {t}
      PROVE  /\ tx'[p] \in Tx \cup {NoTx}
             /\ tx'[p].kind = tx[p].kind
             /\ tx[p] = NoTx => tx'[p] = NoTx
             /\ tx[p] # NoTx => /\ tx'[p].at = tx[p].at /\ tx'[p].old = tx[p].old
                                /\ tx'[p].lone <=> tx[p].lone /\ tx[p].kind \notin Peers(kind)
  <2>1. CASE p \in peers
    <3>1. tx[p] # NoTx /\ tx[p] \in Tx /\ tx[p].kind \in Peers(kind)
      BY <2>1, TxKinds, KindsApart DEF InFlight, NoTx, Peers, Moves, Life
    <3>2. tx'[p] = [tx[p] EXCEPT !.lone = FALSE]
      BY <1>1, <2>1, <1>5
    <3> QED BY <3>1, <3>2 DEF Tx
  <2>2. CASE p \notin peers
    <3>1. tx'[p] = tx[p] /\ tx[p].kind \notin Peers(kind)
      BY <1>1, <2>2, <1>5 DEF InFlight
    <3>2. tx[p] # NoTx => tx[p].lone \in BOOLEAN
      BY TxKinds DEF Tx
    <3> QED BY <3>1, <3>2 DEF TxTypeOK
  <2> QED BY <2>1, <2>2
<1>6. tx' \in [Threads -> Tx \cup {NoTx}]
  <2>1. \A p \in Threads : tx'[p] \in Tx \cup {NoTx}
    BY <1>4, <1>5
  <2>2. tx' = [p \in Threads |-> tx'[p]]
    BY <1>1
  <2> HIDE DEF peers
  <2> QED BY <2>1, <2>2
<1> QED BY <1>1, <1>2, <1>4, <1>5, <1>6

LEMMA StepStep ==
    ASSUME TxTypeOK, NEW t \in Threads, NEW kind \in Moves, NEW from,
           NEW to \in {"accepted", "stored", "removed", "done"}, Step(t, kind, from, to)
    PROVE  /\ tx' \in [Threads -> Tx \cup {NoTx}] /\ row' = row
           /\ tx[t] \in Tx /\ tx[t].kind = kind /\ tx[t].at = from
           /\ tx'[t] = [tx[t] EXCEPT !.at = to]
           /\ \A p \in Threads \ {t} : tx'[p] = tx[p]
<1>1. tx[t].kind = kind /\ tx[t].at = from /\ tx' = [tx EXCEPT ![t].at = to] /\ row' = row
  BY DEF Step, At
<1>2. tx[t] \in Tx
  BY <1>1, TxKinds, KindsApart
<1>3. [tx[t] EXCEPT !.at = to] \in Tx
  BY <1>2 DEF Tx
<1> QED BY <1>1, <1>2, <1>3 DEF TxTypeOK

\* What a commit does to the row and to the history, column by column.
LEMMA CommitRow ==
    ASSUME TxTypeOK, NEW t \in Threads, Commit(t)
    PROVE  /\ tx' = [tx EXCEPT ![t] = NoTx] /\ tx[t] \in Tx /\ tx[t].at = "done"
           /\ row' \in Row /\ crossed' \subseteq {"conn", "op"}
           /\ UNCHANGED <<moveVars, alive, will, shown>>
           /\ tx[t].kind \in Life =>
                /\ "op" \notin crossed' => "op" \notin crossed /\ row'.op = row.op
                /\ tx[t].lone \/ "conn" \in crossed'
                /\ row'.conn = Updated(tx[t]).conn \/ ~Dirty(tx[t])
           /\ tx[t].kind \in Moves =>
                /\ "conn" \notin crossed' => "conn" \notin crossed /\ row'.conn = row.conn
                /\ tx[t].lone \/ "op" \in crossed'
<1> DEFINE c == tx[t]
<1>1. /\ c # NoTx /\ c.at = "done" /\ tx' = [tx EXCEPT ![t] = NoTx]
      /\ UNCHANGED <<moveVars, alive, will, shown>>
      /\ row' = IF Dirty(c) THEN Updated(c) ELSE row
      /\ crossed' = (crossed \ Mends(c)) \cup Overwrites(c) \cup Overlaps(c)
  BY DEF Commit, Ends, lifeVars
<1>2. c \in Tx /\ c.old \in Row
  BY <1>1, TxKinds DEF Tx
<1>3. Updated(c) \in Row
  BY <1>2 DEF Updated, Row
<1>4. Mends(c) \subseteq {Column(c.kind)} /\ Overwrites(c) \subseteq {"conn", "op"}
        /\ Overlaps(c) \subseteq {Column(c.kind)} /\ Column(c.kind) \in {"conn", "op"}
  BY DEF Mends, Overwrites, Overlaps, Column
<1>5. row' \in Row /\ crossed' \subseteq {"conn", "op"}
  BY <1>1, <1>3, <1>4 DEF TxTypeOK
<1>6. ASSUME c.kind \in Life
      PROVE  /\ "op" \notin crossed' => "op" \notin crossed /\ row'.op = row.op
             /\ c.lone \/ "conn" \in crossed'
             /\ row'.conn = Updated(c).conn \/ ~Dirty(c)
  <2>1. Column(c.kind) = "conn"
    BY <1>6 DEF Column, Life, Moves
  <2>2. Updated(c).op = c.old.op
    BY <1>2, <1>6 DEF Updated, Life, Row
  <2>3. "op" \notin crossed' => "op" \notin crossed /\ (Dirty(c) => c.old.op = row.op)
    BY <1>1, <1>4, <2>1 DEF Overwrites
  <2>4. c.lone \/ "conn" \in crossed'
    BY <1>1, <1>2, <2>1 DEF Overlaps, Tx
  <2> QED BY <1>1, <2>2, <2>3, <2>4
<1>7. ASSUME c.kind \in Moves
      PROVE  /\ "conn" \notin crossed' => "conn" \notin crossed /\ row'.conn = row.conn
             /\ c.lone \/ "op" \in crossed'
  <2>1. Column(c.kind) = "op"
    BY <1>7 DEF Column
  <2>2. Updated(c).conn = c.old.conn
    BY <1>2, <1>7 DEF Updated, Moves, Row
  <2>3. "conn" \notin crossed' => "conn" \notin crossed /\ (Dirty(c) => c.old.conn = row.conn)
    BY <1>1, <1>4, <2>1 DEF Overwrites
  <2>4. c.lone \/ "op" \in crossed'
    BY <1>1, <1>2, <2>1 DEF Overlaps, Tx
  <2> QED BY <1>1, <2>2, <2>3, <2>4
<1> QED BY <1>1, <1>2, <1>5, <1>6, <1>7

-----------------------------------------------------------------------------
(* Type correctness. *)

LEMMA TxTypesInductive == TxTypeOK /\ [Next]_vars => TxTypeOK'
<1> SUFFICES ASSUME TxTypeOK, [Next]_vars PROVE TxTypeOK'
  OBVIOUS
<1> DEFINE Flags == {session, shown, alive, will, ordered, orphaned} \subseteq BOOLEAN
<1>0. Requests \subseteq Threads /\ "mqtt" \in Threads /\ "watchdog" \in Threads
  BY DEF Threads
<1>1. CASE MarkAlive
  <2>1. Read("mqtt", "BEAT", "done")
    BY <1>1 DEF MarkAlive
  <2>2. tx' \in [Threads -> Tx \cup {NoTx}] /\ row' = row
    BY <1>0, <2>1, ReadStep DEF Life
  <2> QED BY <1>1, <2>2 DEF MarkAlive, moveVars, TxTypeOK
<1>2. CASE MarkStale
  <2>1. Read("watchdog", "STALE", "done")
    BY <1>2 DEF MarkStale
  <2>2. tx' \in [Threads -> Tx \cup {NoTx}] /\ row' = row
    BY <1>0, <2>1, ReadStep DEF Life
  <2> QED BY <1>2, <2>2 DEF MarkStale, moveVars, lifeVars, TxTypeOK
<1>3. CASE CompleteFromCart
  <2>1. Read("mqtt", "COMPLETE", "done")
    BY <1>3 DEF CompleteFromCart
  <2>2. tx' \in [Threads -> Tx \cup {NoTx}] /\ row' = row
    BY <1>0, <2>1, ReadStep DEF Moves
  <2> QED BY <1>3, <2>2 DEF CompleteFromCart, RemoveSession, lifeVars, TxTypeOK
<1>4. ASSUME NEW t \in Requests, Start(t) \/ Cancel(t) \/ CancelNothing(t) PROVE TxTypeOK'
  <2>1. Read(t, "START", "accepted") \/ Read(t, "CANCEL", "removed") \/ Read(t, "CANCEL", "done")
    BY <1>4 DEF Start, Cancel, CancelNothing
  <2>2. tx' \in [Threads -> Tx \cup {NoTx}] /\ row' = row
    BY <1>0, <2>1, ReadStep DEF Moves
  <2> QED BY <1>4, <2>2 DEF Start, Cancel, CancelNothing, RemoveSession, moveVars, lifeVars, TxTypeOK
<1>5. ASSUME NEW t \in Requests, PutSession(t) \/ PublishMove(t) \/ PublishCancel(t)
      PROVE TxTypeOK'
  <2>1. \/ Step(t, "START", "accepted", "stored") \/ Step(t, "START", "stored", "done")
        \/ Step(t, "CANCEL", "removed", "done")
    BY <1>5 DEF PutSession, PublishMove, PublishCancel
  <2>2. tx' \in [Threads -> Tx \cup {NoTx}] /\ row' = row
    BY <1>0, <2>1, StepStep DEF Moves
  <2>3. PublishMove(t) => (t \in robbed) \in BOOLEAN
    OBVIOUS
  <2> QED BY <1>5, <2>2, <2>3 DEF PutSession, PublishMove, PublishCancel, lifeVars, TxTypeOK
<1>6. ASSUME NEW t \in Threads, Commit(t) PROVE TxTypeOK'
  BY <1>6, CommitRow DEF moveVars, TxTypeOK
<1>7. ASSUME NEW t \in Threads, Rollback(t) PROVE TxTypeOK'
  <2>1. Column(tx[t].kind) \in {"conn", "op"}
    BY DEF Column
  <2> QED BY <1>7, <2>1 DEF Rollback, Ends, moveVars, lifeVars, TxTypeOK
<1>8. CASE CartGoes \/ CartComes
  BY <1>8 DEF CartGoes, CartComes, moveVars, TxTypeOK
<1>9. CASE UNCHANGED vars
  BY <1>9 DEF vars, moveVars, lifeVars, TxTypeOK
<1> QED BY <1>1, <1>2, <1>3, <1>4, <1>5, <1>6, <1>7, <1>8, <1>9 DEF Next, Request

LEMMA TxTypesInitially == Init => TxTypeOK
<1> SUFFICES ASSUME Init PROVE TxTypeOK
  OBVIOUS
<1>1. row \in Row
  BY DEF Init, Row
<1>2. tx \in [Threads -> Tx \cup {NoTx}]
  BY DEF Init
<1>3. {session, shown, alive, will, ordered, orphaned} \subseteq BOOLEAN
        /\ crossed = {} /\ robbed = {}
  BY DEF Init
<1> QED BY <1>1, <1>2, <1>3 DEF TxTypeOK

-----------------------------------------------------------------------------
(* The move that is driven. *)

\* No step but a CANCEL's own takes it away before it has left, and none but that of
\* a start puts it before its MOVE.
LEMMA OthersStay ==
    ASSUME TxTypeOK, NEW t \in Threads, NEW p \in Threads \ {t},
           NEW kind \in Moves \cup Life, NEW at \in {"accepted", "stored", "removed", "done"},
           Read(t, kind, at), NEW k \in Moves, NEW a
    PROVE  At(p, k, a) <=> At(p, k, a)'
<1>1. /\ tx'[p].kind = tx[p].kind
      /\ tx[p] # NoTx => tx'[p].at = tx[p].at
  BY ReadStep
<1>2. tx[p] = NoTx => tx[p].kind # k
  BY DEF NoTx, Moves
<1> QED BY <1>1, <1>2 DEF At

\* A move that has left has a session, or a CANCEL that is about to leave, and one about
\* to leave has a session, unless theirs was removed.
Cancelling == \E t \in Threads : At(t, "CANCEL", "removed")
Leaving == \E t \in Threads \ robbed : At(t, "START", "stored")

Covered == /\ ordered /\ ~orphaned => session \/ Cancelling
           /\ Leaving => session

\* A step that changes neither the moves nor what is about to leave.
LEMMA CoveredKept ==
    ASSUME Covered, UNCHANGED moveVars,
           \A p \in Threads : /\ At(p, "START", "stored")' => At(p, "START", "stored")
                              /\ At(p, "CANCEL", "removed") => At(p, "CANCEL", "removed")'
    PROVE  Covered'
BY DEF Covered, Cancelling, Leaving, moveVars

\* The removal of a session robs every start that is about to leave.
LEMMA Robbed ==
    ASSUME Covered, RemoveSession,
           \A p \in Threads : At(p, "START", "stored")' => At(p, "START", "stored")
    PROVE  ~Leaving'
BY DEF Covered, RemoveSession, Leaving

LEMMA CoveredInductive == TxTypeOK /\ Covered /\ [Next]_vars => Covered'
<1> SUFFICES ASSUME TxTypeOK, Covered, [Next]_vars PROVE Covered'
  OBVIOUS
<1>0. Requests \subseteq Threads /\ "mqtt" \in Threads /\ "watchdog" \in Threads
  BY DEF Threads
<1>a. ASSUME NEW t \in Threads, NEW kind \in Moves \cup Life,
             NEW at \in {"accepted", "stored", "removed", "done"}, Read(t, kind, at)
      PROVE  /\ \A p \in Threads : At(p, "CANCEL", "removed") => At(p, "CANCEL", "removed")'
             /\ \A p \in Threads : (At(p, "START", "stored")' /\ at # "stored")
                                    => At(p, "START", "stored")
             /\ At(t, kind, at)'
  <2>1. tx[t] = NoTx /\ tx'[t].kind = kind /\ tx'[t].at = at
    BY <1>a, ReadStep
  <2>2. ~At(t, "CANCEL", "removed")
    BY <2>1 DEF At, NoTx
  <2>3. \A p \in Threads \ {t} : /\ At(p, "CANCEL", "removed") <=> At(p, "CANCEL", "removed")'
                                 /\ At(p, "START", "stored") <=> At(p, "START", "stored")'
    BY <1>a, OthersStay DEF Moves
  <2> QED BY <2>1, <2>2, <2>3 DEF At
<1>1. CASE MarkAlive \/ MarkStale
  BY <1>0, <1>1, <1>a, CoveredKept DEF MarkAlive, MarkStale, moveVars, Life
<1>2. CASE CompleteFromCart
  <2>1. Read("mqtt", "COMPLETE", "done")
    BY <1>2 DEF CompleteFromCart
  <2>2. /\ \A p \in Threads : At(p, "START", "stored")' => At(p, "START", "stored")
        /\ Cancelling => Cancelling'
    BY <1>0, <1>a, <2>1 DEF Cancelling, Moves
  <2>3. ~Leaving'
    BY <1>2, <2>2, Robbed DEF CompleteFromCart
  <2> QED BY <1>2, <2>2, <2>3 DEF CompleteFromCart, Covered
<1>3. ASSUME NEW t \in Requests, Start(t) \/ CancelNothing(t) PROVE Covered'
  BY <1>0, <1>3, <1>a, CoveredKept DEF Start, CancelNothing, moveVars, Moves
<1>4. ASSUME NEW t \in Requests, Cancel(t) PROVE Covered'
  <2>1. Read(t, "CANCEL", "removed")
    BY <1>4 DEF Cancel
  <2>2. /\ \A p \in Threads : At(p, "START", "stored")' => At(p, "START", "stored")
        /\ Cancelling'
    BY <1>0, <1>a, <2>1 DEF Cancelling, Moves
  <2>3. ~Leaving'
    BY <1>4, <2>2, Robbed DEF Cancel
  <2> QED BY <2>2, <2>3 DEF Covered
<1>5. ASSUME NEW t \in Requests, PutSession(t) PROVE Covered'
  BY <1>5 DEF PutSession, Covered
<1>6. ASSUME NEW t \in Requests, PublishMove(t) PROVE Covered'
  <2>1. Step(t, "START", "stored", "done")
    BY <1>6 DEF PublishMove
  <2>2. At(t, "START", "stored")
    BY <2>1 DEF Step
  <2>3. tx'[t].at = "done" /\ \A p \in Threads \ {t} : tx'[p] = tx[p]
    BY <1>0, <2>1, StepStep DEF Moves, Tx
  <2>4. orphaned' = (t \in robbed) /\ robbed' = robbed \ {t} /\ session' = session
    BY <1>6 DEF PublishMove
  <2>5. t \notin robbed => session
    BY <1>0, <2>2 DEF Covered, Leaving
  <2>6. Leaving' => Leaving
    BY <2>3, <2>4 DEF Leaving, At
  <2> QED BY <2>4, <2>5, <2>6 DEF Covered
<1>7. ASSUME NEW t \in Requests, PublishCancel(t) PROVE Covered'
  <2>1. Step(t, "CANCEL", "removed", "done")
    BY <1>7 DEF PublishCancel
  <2>2. tx'[t].at = "done" /\ \A p \in Threads \ {t} : tx'[p] = tx[p]
    BY <1>0, <2>1, StepStep DEF Moves, Tx
  <2>3. Leaving' => Leaving
    BY <1>7, <2>2 DEF Leaving, At, PublishCancel
  <2> QED BY <1>7, <2>3 DEF PublishCancel, Covered
<1>8. ASSUME NEW t \in Threads, Commit(t) \/ Rollback(t) PROVE Covered'
  <2>1. tx' = [tx EXCEPT ![t] = NoTx] /\ tx[t].at = "done" /\ UNCHANGED moveVars
    BY <1>8 DEF Commit, Rollback, Ends
  <2>3. \A p \in Threads : tx'[p] = IF p = t THEN NoTx ELSE tx[p]
    BY <2>1 DEF TxTypeOK
  <2>4. \A p \in Threads : /\ At(p, "START", "stored")' => At(p, "START", "stored")
                           /\ At(p, "CANCEL", "removed") => At(p, "CANCEL", "removed")'
    BY <2>1, <2>3 DEF At, NoTx
  <2> QED BY <2>1, <2>4, CoveredKept
<1>9. CASE CartGoes \/ CartComes \/ UNCHANGED vars
  BY <1>9, CoveredKept DEF CartGoes, CartComes, vars, At
<1> QED BY <1>1, <1>2, <1>3, <1>4, <1>5, <1>6, <1>7, <1>8, <1>9 DEF Next, Request

\* A move that has left can be cancelled, unless its session was removed before the MOVE
\* had left, or by a report since (NavigationService.start, cancel and completeFromCart).
THEOREM DriveCancellable == Spec => []DriveCanBeCancelled
<1>1. Init => Covered
  BY DEF Init, Covered, Leaving, At, NoTx
<1>2. Covered => DriveCanBeCancelled
  BY DEF Covered, DriveCanBeCancelled, Cancelling
<1> QED BY <1>1, <1>2, TxTypesInitially, TxTypesInductive, CoveredInductive, PTL DEF Spec

-----------------------------------------------------------------------------
(* A column of the row, and what stands for it in memory.  Both proofs are *)
(* about a transaction that has met no peer: it knows what the column was. *)

\* Where the commit of a lone transaction leaves no mark on its column, the column is
\* what it made of it, and was what it had read or is put in order by it.
LEMMA CommitColumn ==
    ASSUME TxTypeOK, NEW t \in Threads, Commit(t), tx[t].lone,
           NEW f \in {"conn", "op"}, f = Column(tx[t].kind), f \notin crossed',
           f \notin crossed => row[f] = tx[t].old[f]
    PROVE  /\ row'[f] = Updated(tx[t])[f]
           /\ f \notin crossed \/ (f = "conn" => Updated(tx[t])[f] # tx[t].old[f])
<1> DEFINE c == tx[t]
<1>1. /\ row' = IF Dirty(c) THEN Updated(c) ELSE row
      /\ crossed' = (crossed \ Mends(c)) \cup Overwrites(c) \cup Overlaps(c)
  BY DEF Commit
<1>2. f \notin crossed \/ f \in Mends(c)
  BY <1>1
<1>3. Dirty(c) => c.old[f] = row[f]
  BY <1>1 DEF Overwrites
<1>4. f \in Mends(c) => c.old[f] = row[f] /\ (f = "conn" => Updated(c)[f] # row[f])
  BY DEF Mends
<1>5. CASE Dirty(c)
  BY <1>1, <1>2, <1>3, <1>4, <1>5
<1>6. CASE ~Dirty(c)
  <2>1. Updated(c) = c.old
    BY <1>6 DEF Dirty
  <2> QED BY <1>1, <1>2, <1>4, <1>6, <2>1
<1> QED BY <1>5, <1>6

ConnAlone(t) ==
    tx[t].kind \in Life /\ tx[t].lone
      => /\ \A p \in Threads \ {t} : tx[p].kind \notin Life
         /\ tx[t].kind = "BEAT" /\ (tx[t].old.conn = "OFFLINE" \/ "conn" \notin crossed) => shown
         /\ tx[t].kind = "STALE" => tx[t].old.conn = "ONLINE" /\ ~shown
         /\ "conn" \notin crossed => row.conn = tx[t].old.conn

\* What is shown is what a lone transaction that looks after the connection will write,
\* and what is stored when there is none.
ConnOK == ShownIsStored /\ \A t \in Threads : ConnAlone(t)

LEMMA ConnKept ==
    ASSUME ConnOK, shown' = shown,
           "conn" \notin crossed' => "conn" \notin crossed /\ row'.conn = row.conn,
           \A p \in Threads : tx'[p].kind \in Life <=> tx[p].kind \in Life,
           \A p \in Threads : tx[p].kind \in Life
             => tx'[p].kind = tx[p].kind /\ tx'[p].old = tx[p].old /\ (tx'[p].lone <=> tx[p].lone)
    PROVE  ConnOK'
<1>1. InFlight(Life)' = InFlight(Life)
  BY DEF InFlight, Life
<1>2. ShownIsStored'
  BY <1>1 DEF ConnOK, ShownIsStored
<1>3. ASSUME NEW t \in Threads PROVE ConnAlone(t)'
  BY DEF ConnOK, ConnAlone
<1> QED BY <1>2, <1>3 DEF ConnOK

LEMMA ConnInductive == TxTypeOK /\ ConnOK /\ [Next]_vars => ConnOK'
<1> SUFFICES ASSUME TxTypeOK, ConnOK, [Next]_vars PROVE ConnOK'
  OBVIOUS
<1>0. Requests \subseteq Threads /\ "mqtt" \in Threads /\ "watchdog" \in Threads
  BY DEF Threads
<1>a. ASSUME NEW t \in Threads, NEW kind \in Moves,
             NEW at \in {"accepted", "stored", "removed", "done"}, Read(t, kind, at),
             shown' = shown, "conn" \in crossed' <=> "conn" \in crossed
      PROVE  ConnOK'
  <2>1. /\ tx[t] = NoTx /\ tx'[t].kind = kind /\ row' = row
        /\ \A p \in Threads \ {t} :
             /\ tx'[p].kind = tx[p].kind
             /\ tx[p] # NoTx => /\ tx'[p].old = tx[p].old
                                /\ tx'[p].lone <=> tx[p].lone /\ tx[p].kind \notin Peers(kind)
    BY <1>a, ReadStep
  <2>2. tx[t].kind \notin Life /\ tx'[t].kind \notin Life
    BY <2>1, KindsApart DEF NoTx, Life
  <2>3. \A p \in Threads : tx[p].kind \in Life => tx[p] # NoTx /\ tx[p].kind \notin Peers(kind)
    BY KindsApart DEF NoTx
  <2> QED BY <1>a, <2>1, <2>2, <2>3, ConnKept
<1>b. ASSUME NEW t \in Threads, NEW kind \in Life, Read(t, kind, "done"),
             crossed' = crossed,
             kind = "BEAT" => shown' = (shown \/ row.conn = "OFFLINE"),
             kind = "STALE" => row.conn = "ONLINE" /\ shown' = FALSE
      PROVE  ConnOK'
  <2>1. /\ tx[t] = NoTx /\ tx'[t].kind = kind /\ tx'[t].old = row /\ row' = row
        /\ tx'[t].lone <=> \A p \in Threads : tx[p].kind \notin Peers(kind)
        /\ \A p \in Threads \ {t} :
             /\ tx'[p].kind = tx[p].kind
             /\ tx[p] # NoTx => (tx'[p].lone <=> tx[p].lone /\ tx[p].kind \notin Peers(kind))
    BY <1>b, ReadStep
  <2>2. Peers(kind) = Life
    BY KindsApart DEF Life
  <2>3. ShownIsStored'
    BY <2>1 DEF ShownIsStored, InFlight
  <2>4. \A p \in Threads \ {t} : ConnAlone(p)'
    BY <2>1, <2>2, KindsApart DEF ConnAlone, NoTx
  <2>5. ConnAlone(t)'
    <3> SUFFICES ASSUME tx'[t].lone PROVE ConnAlone(t)'
      BY DEF ConnAlone
    <3>1. \A p \in Threads \ {t} : tx'[p].kind \notin Life
      BY <2>1, <2>2
    <3>2. InFlight(Life) = {}
      BY <2>1, <2>2 DEF InFlight
    <3>3. "conn" \notin crossed => (shown <=> row.conn = "ONLINE")
      BY <3>2 DEF ConnOK, ShownIsStored
    <3>4. row.conn \in {"ONLINE", "OFFLINE"}
      BY DEF TxTypeOK, Row
    <3>5. kind = "BEAT" /\ (row.conn = "OFFLINE" \/ "conn" \notin crossed) => shown'
      BY <1>b, <3>3, <3>4
    <3>6. kind = "STALE" => row.conn = "ONLINE" /\ ~shown'
      BY <1>b
    <3> QED BY <1>b, <2>1, <3>1, <3>5, <3>6 DEF ConnAlone
  <2> QED BY <2>3, <2>4, <2>5 DEF ConnOK
<1>1. CASE MarkAlive \/ MarkStale
  BY <1>0, <1>1, <1>b DEF MarkAlive, MarkStale, Life
<1>2. CASE CompleteFromCart
  BY <1>0, <1>2, <1>a DEF CompleteFromCart, RemoveSession, Moves
<1>3. ASSUME NEW t \in Requests, Start(t) \/ Cancel(t) \/ CancelNothing(t) PROVE ConnOK'
  BY <1>0, <1>3, <1>a DEF Start, Cancel, CancelNothing, RemoveSession, Moves
<1>4. ASSUME NEW t \in Requests, PutSession(t) \/ PublishMove(t) \/ PublishCancel(t)
      PROVE ConnOK'
  <2>1. \/ Step(t, "START", "accepted", "stored") \/ Step(t, "START", "stored", "done")
        \/ Step(t, "CANCEL", "removed", "done")
    BY <1>4 DEF PutSession, PublishMove, PublishCancel
  <2>2. /\ row' = row /\ tx[t] \in Tx /\ tx[t].kind \in Moves
        /\ \E to : tx'[t] = [tx[t] EXCEPT !.at = to]
        /\ \A p \in Threads \ {t} : tx'[p] = tx[p]
    BY <1>0, <2>1, StepStep DEF Moves
  <2>3. /\ tx'[t].kind = tx[t].kind /\ tx'[t].old = tx[t].old /\ tx'[t].lone = tx[t].lone
        /\ tx[t].kind \notin Life
    BY <2>2, KindsApart DEF Tx
  <2>4. UNCHANGED <<shown, crossed>>
    BY <1>4 DEF PutSession, PublishMove, PublishCancel
  <2> QED BY <2>2, <2>3, <2>4, ConnKept
<1>5. ASSUME NEW t \in Threads, Commit(t) \/ Rollback(t), tx[t].kind \in Moves PROVE ConnOK'
  <2>1. /\ tx' = [tx EXCEPT ![t] = NoTx] /\ shown' = shown
        /\ "conn" \notin crossed' => "conn" \notin crossed /\ row'.conn = row.conn
    BY <1>5, CommitRow DEF Rollback, Ends
  <2>2. \A p \in Threads : tx'[p] = IF p = t THEN NoTx ELSE tx[p]
    BY <2>1 DEF TxTypeOK
  <2>3. tx[t].kind \notin Life /\ NoTx.kind \notin Life
    BY <1>5, KindsApart DEF NoTx
  <2> QED BY <2>1, <2>2, <2>3, ConnKept
<1>6. ASSUME NEW t \in Threads, Commit(t) \/ Rollback(t), tx[t].kind \in Life PROVE ConnOK'
  <2>1. tx' = [tx EXCEPT ![t] = NoTx] /\ shown' = shown
    BY <1>6 DEF Commit, Rollback, Ends
  <2>2. \A p \in Threads : tx'[p] = IF p = t THEN NoTx ELSE tx[p]
    BY <2>1 DEF TxTypeOK
  <2>3. \A p \in Threads : ConnAlone(p)'
    <3> SUFFICES ASSUME NEW p \in Threads, tx'[p].kind \in Life, tx'[p].lone PROVE FALSE
      BY DEF ConnAlone
    <3>1. p # t
      BY <2>2, KindsApart DEF NoTx
    <3> QED BY <1>6, <2>2, <3>1 DEF ConnOK, ConnAlone
  <2>4. CASE ~tx[t].lone \/ Rollback(t)
    <3>1. Rollback(t) => "conn" \in crossed'
      BY <1>6, KindsApart DEF Rollback, Column
    <3>2. "conn" \in crossed'
      BY <1>6, <2>4, <3>1, CommitRow
    <3> QED BY <2>3, <3>2 DEF ConnOK, ShownIsStored
  <2>5. CASE tx[t].lone /\ Commit(t)
    <3> SUFFICES ASSUME "conn" \notin crossed' PROVE ShownIsStored'
      BY <2>3 DEF ConnOK, ShownIsStored
    <3>1. Column(tx[t].kind) = "conn"
      BY <1>6, KindsApart DEF Column
    <3>2. /\ row'.conn = Updated(tx[t]).conn
          /\ "conn" \notin crossed \/ Updated(tx[t]).conn # tx[t].old.conn
      <4>1. "conn" \notin crossed => row.conn = tx[t].old.conn
        BY <1>6, <2>5 DEF ConnOK, ConnAlone
      <4> QED BY <2>5, <3>1, <4>1, CommitColumn
    <3>3. tx[t] \in Tx /\ tx[t].old \in Row
      BY <1>6, TxKinds, KindsApart DEF Tx
    <3>4. CASE tx[t].kind = "BEAT"
      <4>1. Updated(tx[t]).conn = "ONLINE"
        BY <3>3, <3>4 DEF Updated, Row
      <4>2. shown
        BY <1>6, <2>5, <3>2, <3>3, <3>4, <4>1 DEF ConnOK, ConnAlone, Row
      <4> QED BY <2>1, <3>2, <4>1, <4>2 DEF ShownIsStored
    <3>5. CASE tx[t].kind = "STALE"
      <4>1. Updated(tx[t]).conn = "OFFLINE"
        BY <3>3, <3>5 DEF Updated, Row
      <4>2. ~shown
        BY <1>6, <2>5, <3>5 DEF ConnOK, ConnAlone
      <4>3. shown \in BOOLEAN
        BY DEF TxTypeOK
      <4> QED BY <2>1, <3>2, <4>1, <4>2, <4>3 DEF ShownIsStored
    <3> QED BY <1>6, <3>4, <3>5 DEF Life
  <2> QED BY <1>6, <2>4, <2>5
<1>7. ASSUME NEW t \in Threads, Commit(t) \/ Rollback(t) PROVE ConnOK'
  <2>1. tx[t].kind \in Moves \cup Life
    BY <1>7, TxKinds DEF Commit, Rollback, Ends
  <2> QED BY <1>5, <1>6, <1>7, <2>1
<1>8. CASE CartGoes \/ CartComes \/ UNCHANGED vars
  BY <1>8, ConnKept DEF CartGoes, CartComes, vars, moveVars, lifeVars
<1> QED BY <1>1, <1>2, <1>3, <1>4, <1>7, <1>8 DEF Next, Request

\* The frontend shows what is stored, unless transactions about the connection met, one
\* failed, or a stale connection was written back (CartConnectionService).
THEOREM ShownStored == Spec => []ShownIsStored
<1>1. Init => ConnOK
  <2> SUFFICES ASSUME Init PROVE ConnOK
    OBVIOUS
  <2>1. row.conn = "OFFLINE" /\ shown = FALSE /\ \A t \in Threads : tx[t] = NoTx
    BY DEF Init
  <2>2. ShownIsStored
    BY <2>1 DEF ShownIsStored
  <2> QED BY <2>1, <2>2, KindsApart DEF ConnOK, ConnAlone, NoTx
<1>2. ConnOK => ShownIsStored
  BY DEF ConnOK
<1> QED BY <1>1, <1>2, TxTypesInitially, TxTypesInductive, ConnInductive, PTL DEF Spec

-----------------------------------------------------------------------------
(* The operation status. *)

OpAlone(t) ==
    tx[t].kind \in Moves /\ tx[t].lone
      => /\ \A p \in Threads \ {t} : tx[p].kind \notin Moves
         /\ session <=> (tx[t].kind = "START" /\ tx[t].at \in {"stored", "done"})
         /\ "op" \notin crossed => row.op = tx[t].old.op

\* There is a session when a lone start has stored it, and when the row says so if no
\* request or report is under way.
OpOK == StatusIsSession /\ \A t \in Threads : OpAlone(t)

\* A step that leaves the moves under way where they are.
LEMMA OpKept ==
    ASSUME OpOK, session' = session,
           "op" \notin crossed' => "op" \notin crossed /\ row'.op = row.op,
           \A p \in Threads : tx'[p].kind \in Moves <=> tx[p].kind \in Moves,
           \A p \in Threads : tx[p].kind \in Moves
             => /\ tx'[p].kind = tx[p].kind /\ tx'[p].old = tx[p].old
                /\ tx'[p].at = tx[p].at /\ (tx'[p].lone <=> tx[p].lone)
    PROVE  OpOK'
<1>1. InFlight(Moves)' = InFlight(Moves)
  BY DEF InFlight, Moves
<1>2. StatusIsSession'
  BY <1>1 DEF OpOK, StatusIsSession
<1>3. ASSUME NEW t \in Threads PROVE OpAlone(t)'
  BY DEF OpOK, OpAlone
<1> QED BY <1>2, <1>3 DEF OpOK

LEMMA OpInductive == TxTypeOK /\ OpOK /\ [Next]_vars => OpOK'
<1> SUFFICES ASSUME TxTypeOK, OpOK, [Next]_vars PROVE OpOK'
  OBVIOUS
<1>0. Requests \subseteq Threads /\ "mqtt" \in Threads /\ "watchdog" \in Threads
  BY DEF Threads
<1>a. ASSUME NEW t \in Threads, NEW kind \in Life, Read(t, kind, "done"),
             UNCHANGED <<session, crossed>>
      PROVE  OpOK'
  <2>1. /\ tx[t] = NoTx /\ tx'[t].kind = kind /\ row' = row
        /\ \A p \in Threads \ {t} :
             /\ tx'[p].kind = tx[p].kind
             /\ tx[p] # NoTx => /\ tx'[p].old = tx[p].old /\ tx'[p].at = tx[p].at
                                /\ tx'[p].lone <=> tx[p].lone /\ tx[p].kind \notin Peers(kind)
    BY <1>a, ReadStep
  <2>2. tx[t].kind \notin Moves /\ tx'[t].kind \notin Moves
    BY <2>1, KindsApart DEF NoTx, Moves
  <2>3. \A p \in Threads : tx[p].kind \in Moves => tx[p] # NoTx /\ tx[p].kind \notin Peers(kind)
    BY KindsApart DEF NoTx, Life
  <2> QED BY <1>a, <2>1, <2>2, <2>3, OpKept
<1>b. ASSUME NEW t \in Threads, NEW kind \in Moves, NEW at \in {"accepted", "removed", "done"},
             Read(t, kind, at), "op" \in crossed' <=> "op" \in crossed,
             ~session', kind = "START" => at = "accepted" /\ ~session
      PROVE  OpOK'
  <2>1. /\ tx[t] = NoTx /\ tx'[t].kind = kind /\ tx'[t].at = at
        /\ tx'[t].old = row /\ row' = row
        /\ tx'[t].lone <=> \A p \in Threads : tx[p].kind \notin Peers(kind)
        /\ \A p \in Threads \ {t} :
             /\ tx'[p].kind = tx[p].kind
             /\ tx[p] # NoTx => (tx'[p].lone <=> tx[p].lone /\ tx[p].kind \notin Peers(kind))
    BY <1>b, ReadStep
  <2>2. Peers(kind) = Moves
    BY KindsApart
  <2>3. StatusIsSession'
    BY <2>1 DEF StatusIsSession, InFlight
  <2>4. \A p \in Threads \ {t} : OpAlone(p)'
    BY <2>1, <2>2, KindsApart DEF OpAlone, NoTx
  <2>5. OpAlone(t)'
    <3> SUFFICES ASSUME tx'[t].lone PROVE OpAlone(t)'
      BY DEF OpAlone
    <3>1. \A p \in Threads \ {t} : tx'[p].kind \notin Moves
      BY <2>1, <2>2
    <3>2. ~(tx'[t].kind = "START" /\ tx'[t].at \in {"stored", "done"})
      BY <1>b, <2>1
    <3> QED BY <1>b, <2>1, <3>1, <3>2 DEF OpAlone
  <2> QED BY <2>3, <2>4, <2>5 DEF OpOK
<1>1. CASE MarkAlive \/ MarkStale
  BY <1>0, <1>1, <1>a DEF MarkAlive, MarkStale, moveVars, Life
<1>2. CASE CompleteFromCart
  BY <1>0, <1>2, <1>b DEF CompleteFromCart, RemoveSession, Moves
<1>3. ASSUME NEW t \in Requests, Start(t) \/ Cancel(t) \/ CancelNothing(t) PROVE OpOK'
  BY <1>0, <1>3, <1>b DEF Start, Cancel, CancelNothing, RemoveSession, moveVars, Moves
<1>4. ASSUME NEW t \in Requests, PutSession(t) \/ PublishMove(t) \/ PublishCancel(t)
      PROVE OpOK'
  <2>1. \/ Step(t, "START", "accepted", "stored") /\ session' = TRUE
        \/ Step(t, "START", "stored", "done") /\ session' = session
        \/ Step(t, "CANCEL", "removed", "done") /\ session' = session
    BY <1>4 DEF PutSession, PublishMove, PublishCancel
  <2>2. /\ row' = row /\ tx[t] \in Tx /\ tx[t].kind \in Moves
        /\ \E to : tx'[t] = [tx[t] EXCEPT !.at = to]
        /\ \A p \in Threads \ {t} : tx'[p] = tx[p]
    BY <1>0, <2>1, StepStep DEF Moves
  <2>3. tx'[t].kind = tx[t].kind /\ tx'[t].old = tx[t].old /\ tx'[t].lone = tx[t].lone
    BY <2>2 DEF Tx
  <2>4. crossed' = crossed
    BY <1>4 DEF PutSession, PublishMove, PublishCancel
  <2>5. StatusIsSession'
    BY <1>0, <2>2, <2>3 DEF StatusIsSession, InFlight
  <2>6. \A p \in Threads \ {t} : OpAlone(p)'
    <3> SUFFICES ASSUME NEW p \in Threads \ {t}, tx'[p].kind \in Moves, tx'[p].lone
                 PROVE  FALSE
      BY DEF OpAlone
    <3> QED BY <1>0, <2>2 DEF OpOK, OpAlone
  <2>7. \/ tx[t].kind = "START" /\ tx'[t].at = "stored" /\ session' = TRUE
        \/ tx[t].kind = "START" /\ tx[t].at = "stored" /\ tx'[t].at = "done" /\ session' = session
        \/ tx[t].kind = "CANCEL" /\ session' = session
    <3>1. CASE Step(t, "START", "accepted", "stored") /\ session' = TRUE
      <4>1. tx[t].kind = "START" /\ tx'[t] = [tx[t] EXCEPT !.at = "stored"]
        BY <1>0, <3>1, StepStep DEF Moves
      <4> QED BY <2>2, <3>1, <4>1 DEF Tx
    <3>2. CASE Step(t, "START", "stored", "done") /\ session' = session
      <4>1. /\ tx[t].kind = "START" /\ tx[t].at = "stored"
            /\ tx'[t] = [tx[t] EXCEPT !.at = "done"]
        BY <1>0, <3>2, StepStep DEF Moves
      <4> QED BY <2>2, <3>2, <4>1 DEF Tx
    <3>3. CASE Step(t, "CANCEL", "removed", "done") /\ session' = session
      BY <3>3 DEF Step, At
    <3> QED BY <2>1, <3>1, <3>2, <3>3
  <2>8. OpAlone(t)'
    <3> SUFFICES ASSUME tx'[t].lone PROVE OpAlone(t)'
      BY DEF OpAlone
    <3>1. OpAlone(t) /\ tx[t].lone
      BY <1>0, <2>3 DEF OpOK
    <3>2. session' <=> (tx'[t].kind = "START" /\ tx'[t].at \in {"stored", "done"})
      BY <2>2, <2>3, <2>7, <3>1 DEF OpAlone
    <3> QED BY <2>2, <2>3, <2>4, <3>1, <3>2 DEF OpAlone
  <2> QED BY <2>5, <2>6, <2>8 DEF OpOK
<1>5. ASSUME NEW t \in Threads, Commit(t) \/ Rollback(t), tx[t].kind \in Life PROVE OpOK'
  <2>1. /\ tx' = [tx EXCEPT ![t] = NoTx] /\ session' = session
        /\ "op" \notin crossed' => "op" \notin crossed /\ row'.op = row.op
    BY <1>5, CommitRow DEF Rollback, Ends, moveVars
  <2>2. \A p \in Threads : tx'[p] = IF p = t THEN NoTx ELSE tx[p]
    BY <2>1 DEF TxTypeOK
  <2>3. tx[t].kind \notin Moves /\ NoTx.kind \notin Moves
    BY <1>5, KindsApart DEF NoTx
  <2> QED BY <2>1, <2>2, <2>3, OpKept
<1>6. ASSUME NEW t \in Threads, Commit(t) \/ Rollback(t), tx[t].kind \in Moves PROVE OpOK'
  <2>1. tx' = [tx EXCEPT ![t] = NoTx] /\ tx[t].at = "done" /\ session' = session
    BY <1>6 DEF Commit, Rollback, Ends, moveVars
  <2>2. \A p \in Threads : tx'[p] = IF p = t THEN NoTx ELSE tx[p]
    BY <2>1 DEF TxTypeOK
  <2>3. \A p \in Threads : OpAlone(p)'
    <3> SUFFICES ASSUME NEW p \in Threads, tx'[p].kind \in Moves, tx'[p].lone PROVE FALSE
      BY DEF OpAlone
    <3>1. p # t
      BY <2>2, KindsApart DEF NoTx
    <3> QED BY <1>6, <2>2, <3>1 DEF OpOK, OpAlone
  <2>4. CASE ~tx[t].lone \/ Rollback(t)
    <3>1. Rollback(t) => "op" \in crossed'
      BY <1>6 DEF Rollback, Column
    <3>2. "op" \in crossed'
      BY <1>6, <2>4, <3>1, CommitRow
    <3> QED BY <2>3, <3>2 DEF OpOK, StatusIsSession
  <2>5. CASE tx[t].lone /\ Commit(t)
    <3> SUFFICES ASSUME "op" \notin crossed' PROVE StatusIsSession'
      BY <2>3 DEF OpOK, StatusIsSession
    <3>1. Column(tx[t].kind) = "op"
      BY <1>6 DEF Column
    <3>2. row'.op = Updated(tx[t]).op
      <4>1. "op" \notin crossed => row.op = tx[t].old.op
        BY <1>6, <2>5 DEF OpOK, OpAlone
      <4> QED BY <2>5, <3>1, <4>1, CommitColumn
    <3>3. tx[t] \in Tx /\ tx[t].old \in Row
      BY <1>6, TxKinds, KindsApart DEF Tx
    <3>4. Updated(tx[t]).op = IF tx[t].kind = "START" THEN "NAVIGATING" ELSE "IDLE"
      BY <1>6, <3>3 DEF Updated, Row, Moves
    <3>5. session <=> tx[t].kind = "START"
      BY <1>6, <2>1, <2>5 DEF OpOK, OpAlone
    <3>6. (row'.op = "NAVIGATING") <=> session'
      BY <2>1, <3>2, <3>4, <3>5
    <3>7. session' \in BOOLEAN
      BY <2>1 DEF TxTypeOK
    <3> QED BY <3>6, <3>7 DEF StatusIsSession
  <2> QED BY <1>6, <2>4, <2>5
<1>7. ASSUME NEW t \in Threads, Commit(t) \/ Rollback(t) PROVE OpOK'
  <2>1. tx[t].kind \in Moves \cup Life
    BY <1>7, TxKinds DEF Commit, Rollback, Ends
  <2> QED BY <1>5, <1>6, <1>7, <2>1
<1>8. CASE CartGoes \/ CartComes \/ UNCHANGED vars
  BY <1>8, OpKept DEF CartGoes, CartComes, vars, moveVars, lifeVars
<1> QED BY <1>1, <1>2, <1>3, <1>4, <1>7, <1>8 DEF Next, Request

\* NAVIGATING is stored if and only if there is a session, unless requests or reports met,
\* one failed, or a sign of life wrote back the status of before (NavigationService and
\* CartConnectionService on the same row).
THEOREM StatusSession == Spec => []StatusIsSession
<1>1. Init => OpOK
  <2> SUFFICES ASSUME Init PROVE OpOK
    OBVIOUS
  <2>1. row.op = "IDLE" /\ session = FALSE /\ \A t \in Threads : tx[t] = NoTx
    BY DEF Init
  <2>2. StatusIsSession
    BY <2>1 DEF StatusIsSession
  <2> QED BY <2>1, <2>2, KindsApart DEF OpOK, OpAlone, NoTx
<1>2. OpOK => StatusIsSession
  BY DEF OpOK
<1> QED BY <1>1, <1>2, TxTypesInitially, TxTypesInductive, OpInductive, PTL DEF Spec
=============================================================================
