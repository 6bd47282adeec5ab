--------------------------- MODULE SubmissionProofs ---------------------------
(***************************************************************************)
(* Proofs about Ledger for every set of writers, keys and calls: what the  *)
(* submission of events promises, and that writers and sealers together    *)
(* implement the append-only log.                                          *)
(*                                                                         *)
(* The argument: the unique indexes know the rows of open transactions     *)
(* too, so keys, numbers and parents stay unique over all of them; who     *)
(* appends a successor holds the row of its parent until the commit, so    *)
(* the parent it checked is still the last of its record; and what a       *)
(* request has worked off names rows that it commits itself, or that are   *)
(* committed already.                                                      *)
(***************************************************************************)
EXTENDS LedgerProofs, FunctionTheorems

SubmissionState == SealingState /\ SubmissionHolds

-----------------------------------------------------------------------------
(***************************************************************************)
(* Rows, committed or not.                                                 *)
(***************************************************************************)

LEMMA RowsAre ==
  \A e : e \in Rows <=> e \in events \/ \E w \in Writers : e \in inserted[w]
  BY DEF Rows

LEMMA RowsAreAfter ==
  \A e : e \in Rows' <=> e \in events' \/ \E w \in Writers : e \in inserted'[w]
  BY DEF Rows

\* What an insert into the unique indexes relies on and does.
Takes(w) ==
  /\ pc[w] = "index" /\ UNCHANGED events
  /\ \A v \in Writers \ {w} : \A r \in inserted[v] : ~ Blocks(r, w)
  /\ \A e \in events : ~ Blocks(e, w)
  /\ inserted' = [inserted EXCEPT ![w] = @ \cup {NewRow(w)}]
  /\ ticket' = [ticket EXCEPT ![w] = NoEvent]

\* The ways in which a step of a writer changes rows and numbers.
LEMMA RowSteps ==
  ASSUME TypeOK, NEW w \in Writers, Writer(w)
  PROVE  \/ UNCHANGED <<events, inserted, ticket>>
         \/ EndTransaction(w) /\ UNCHANGED events
         \/ EndTransaction(w) /\ events' = events \cup inserted[w]
         \/ DrawSequence(w)
         \/ Takes(w)
<1>1. CASE Submit(w) \/ CheckExisting(w) \/ Scan(w) \/ RecheckSingle(w) \/ RecheckBatch(w)
           \/ LockShared(w)
  BY <1>1 DEF Submit, CheckExisting, Scan, RecheckSingle, RecheckBatch, LockShared, tables, locks
<1>2. CASE LockParent(w) \/ CheckSuccessor(w) \/ FoldItem(w)
  BY <1>2 DEF LockParent, CheckSuccessor, FoldItem, Reject, tables, locks
<1>3. CASE InsertRow(w)
  BY <1>3 DEF InsertRow, Takes, tables
<1>4. CASE Commit(w) \/ DeadlockVictim(w) \/ WriterFault(w)
  BY <1>4 DEF Commit, DeadlockVictim, WriterFault, Reject, tables
<1> QED
  BY <1>1, <1>2, <1>3, <1>4 DEF Writer, WriterRuns

\* A step ends with the rows there were, or some of them, or one new row.
LEMMA RowsAfterStep ==
  ASSUME TypeOK, NEW w \in Writers, Writer(w)
  PROVE  /\ events \subseteq events' /\ events' \subseteq Rows
         /\ \/ Rows' \subseteq Rows
            \/ Takes(w) /\ Rows' = Rows \cup {NewRow(w)}
<1> USE DEF TypeOK, LocksTyped
<1>1. CASE UNCHANGED <<events, inserted, ticket>>
  BY <1>1, RowsAre, RowsAreAfter
<1>2. CASE EndTransaction(w) /\ (UNCHANGED events \/ events' = events \cup inserted[w])
  BY <1>2, RowsAre, RowsAreAfter DEF EndTransaction
<1>3. CASE DrawSequence(w)
  BY <1>3, RowsAre, RowsAreAfter DEF DrawSequence
<1>4. CASE Takes(w)
  BY <1>4, RowsAre, RowsAreAfter DEF Takes
<1> QED
  BY <1>1, <1>2, <1>3, <1>4, RowSteps

\* Every row has a number that was drawn.
LEMMA RowsAreNumbered ==
  ASSUME SealingState, NEW e \in Rows
  PROVE  e \in Row /\ 0 < e.seq /\ e.seq < nextSeq /\ e.seq \in Nat
<1>1. CASE e \in events
  BY <1>1 DEF SealingState, SealingIsInductive, NumbersLieAhead, TypeOK, TablesTyped, Row
<1>2. CASE \E w \in Writers : e \in inserted[w]
  BY <1>2 DEF SealingState, SealingIsInductive, NumbersLieAhead, TypeOK, LocksTyped, Row
<1> QED
  BY <1>1, <1>2, RowsAre

\* The row that is inserted clashes with none that is there.
LEMMA NewRowIsUnique ==
  ASSUME SubmissionState, NEW w \in Writers, Takes(w), NEW e \in Rows
  PROVE  LET n == NewRow(w)
         IN  /\ e.seq # n.seq /\ e.key # n.key
             /\ ~ (e.parent = n.parent /\ n.parent # NoEvent)
<1> DEFINE n == NewRow(w)
<1>1. n.seq = ticket[w] /\ n.key = Item(w).key /\ n.parent = Item(w).parent
  BY DEF NewRow
<1>2. pc[w] = "index" /\ ItemsLeft(w) /\ ticket[w] # NoEvent
  BY DEF Takes, SubmissionState, SealingState, SealingIsInductive, WritersAreWellPlaced,
         IsWellPlaced, NumbersLieAhead
<1>3. e.seq # ticket[w]
  BY <1>2 DEF SubmissionState, SubmissionHolds, RowsAreUnique
<1>4. CASE e \in events \/ \E v \in Writers \ {w} : e \in inserted[v]
  BY <1>1, <1>3, <1>4 DEF Takes, Blocks
<1>5. CASE e \in inserted[w]
  <2>1. e.key # Item(w).key
    BY <1>2, <1>5 DEF SubmissionState, SubmissionHolds, WorkIsExact
  <2>2. work[w].call.api # "single"
    BY <1>2, <1>5 DEF SubmissionState, SealingState, SealingIsInductive, WritersAreWellPlaced,
                      IsWellPlaced
  <2>3. Item(w).parent = NoEvent
    <3>1. work[w].call \in Calls /\ work[w].pos \in Nat \ {0}
      BY <1>2 DEF SubmissionState, SealingState, SealingIsInductive, WritersAreWellPlaced,
                  IsWellPlaced, TypeOK, WritersTyped
    <3> QED
      BY <1>2, <2>2, <3>1, CallFacts DEF Item, Items, ItemsLeft
  <2> QED
    BY <1>1, <1>3, <2>1, <2>3
<1> QED
  BY <1>4, <1>5, RowsAre

LEMMA RowsStayUnique ==
  ASSUME SubmissionState, NEW w \in Writers, Writer(w)
  PROVE  RowsAreUnique'
<1>1. TypeOK /\ RowsAreUnique
  BY DEF SubmissionState, SealingState, SubmissionHolds
<1>2. \A e, f \in Rows' :
        (\/ e.seq = f.seq \/ e.key = f.key
         \/ e.parent = f.parent /\ e.parent # NoEvent) => e = f
  <2>1. CASE Rows' \subseteq Rows
    BY <1>1, <2>1 DEF RowsAreUnique
  <2>2. CASE Takes(w) /\ Rows' = Rows \cup {NewRow(w)}
    <3> DEFINE n == NewRow(w)
    <3>1. \A e \in Rows : /\ e.seq # n.seq /\ e.key # n.key
                          /\ ~ (e.parent = n.parent /\ n.parent # NoEvent)
      BY <2>2, NewRowIsUnique
    <3>2. \A e, f \in Rows : (\/ e.seq = f.seq \/ e.key = f.key
                              \/ e.parent = f.parent /\ e.parent # NoEvent) => e = f
      BY <1>1 DEF RowsAreUnique
    <3> HIDE DEF n
    <3> QED
      BY <2>2, <3>1, <3>2 DEF n
  <2> QED
    BY <1>1, <2>1, <2>2, RowsAfterStep
<1>3. ASSUME NEW v \in Writers
      PROVE  /\ inserted'[v] \cap events' = {}
             /\ \A x \in Writers \ {v} : inserted'[x] \cap inserted'[v] = {}
             /\ ticket'[v] # NoEvent => /\ \A e \in Rows' : e.seq # ticket'[v]
                                        /\ \A x \in Writers \ {v} : ticket'[x] # ticket'[v]
  <2> USE DEF TypeOK, LocksTyped
  <2>1. CASE UNCHANGED <<events, inserted, ticket>>
    BY <1>1, <2>1 DEF RowsAreUnique, Rows
  <2>2. CASE EndTransaction(w) /\ (UNCHANGED events \/ events' = events \cup inserted[w])
    <3>1. Rows' \subseteq Rows
      BY <1>1, <2>2, RowsAre, RowsAreAfter DEF EndTransaction
    <3>2. /\ inserted'[w] = {} /\ ticket'[w] = NoEvent
          /\ \A x \in Writers \ {w} : inserted'[x] = inserted[x] /\ ticket'[x] = ticket[x]
      BY <1>1, <2>2 DEF EndTransaction
    <3> QED
      BY <1>1, <2>2, <3>1, <3>2 DEF RowsAreUnique
  <2>3. CASE DrawSequence(w)
    <3>1. Rows' = Rows /\ UNCHANGED <<events, inserted>>
      BY <2>3 DEF DrawSequence, Rows
    <3>2. ticket'[w] = nextSeq /\ \A x \in Writers \ {w} : ticket'[x] = ticket[x]
      BY <1>1, <2>3 DEF DrawSequence
    <3>3. \A e \in Rows : e.seq # nextSeq
      BY RowsAreNumbered DEF SubmissionState
    <3>4. \A x \in Writers : ticket[x] # nextSeq
      BY <1>1 DEF SubmissionState, SealingState, SealingIsInductive, NumbersLieAhead, TablesTyped
    <3> QED
      BY <1>1, <3>1, <3>2, <3>3, <3>4 DEF RowsAreUnique
  <2>4. CASE Takes(w)
    <3> DEFINE n == NewRow(w)
    <3>1. n \notin Rows /\ n.seq = ticket[w]
      BY <2>4, NewRowIsUnique DEF NewRow
    <3>2. /\ inserted'[w] = inserted[w] \cup {n} /\ ticket'[w] = NoEvent /\ events' = events
          /\ \A x \in Writers \ {w} : inserted'[x] = inserted[x] /\ ticket'[x] = ticket[x]
      BY <1>1, <2>4 DEF Takes
    <3>3. Rows' = Rows \cup {n}
      BY <1>1, <2>4, RowsAre, RowsAreAfter DEF Takes
    <3>4. ticket[w] # NoEvent
      BY <2>4 DEF Takes, SubmissionState, SealingState, SealingIsInductive, NumbersLieAhead
    <3> HIDE DEF n
    <3> QED
      BY <1>1, <3>1, <3>2, <3>3, <3>4, RowsAre DEF RowsAreUnique
  <2> QED
    BY <1>1, <2>1, <2>2, <2>3, <2>4, RowSteps
<1> QED
  BY <1>2, <1>3 DEF RowsAreUnique

-----------------------------------------------------------------------------
(***************************************************************************)
(* Lines of events, and the locks on parents.                              *)
(***************************************************************************)

LEMMA EventsGrow ==
  ASSUME TypeOK, NEW w \in Writers, Writer(w)
  PROVE  events \subseteq events' /\ \A n : WithSeq(n) \subseteq WithSeq(n)'
  BY RowsAfterStep DEF WithSeq

LEMMA NewRowExtendsItsLine ==
  ASSUME SubmissionState, NEW w \in Writers, Takes(w)
  PROVE  ExtendsItsLine(NewRow(w))
<1> DEFINE n == NewRow(w)
<1>1. pc[w] = "index" /\ ItemsLeft(w)
  BY DEF Takes, SubmissionState, SealingState, SealingIsInductive, WritersAreWellPlaced,
         IsWellPlaced
<1>2. n.parent = Item(w).parent /\ n.seq = ticket[w]
  BY DEF NewRow
<1>3. CASE Item(w).parent = NoEvent
  BY <1>2, <1>3 DEF NewRow, ExtendsItsLine
<1>4. CASE Item(w).parent # NoEvent
  <2>1. PICK p \in WithSeq(Item(w).parent) : p.type # "revocation"
    BY <1>1, <1>4 DEF SubmissionState, SealingState, SealingIsInductive, WritersAreWellPlaced,
                      IsWellPlaced
  <2>2. \A q \in WithSeq(Item(w).parent) : q = p
    BY <2>1, RowsAre DEF WithSeq, SubmissionState, SubmissionHolds, RowsAreUnique
  <2>3. Parent(w) = p
    BY <2>1, <2>2 DEF Parent
  <2>4. n.record = p.record /\ n.instrument = p.instrument
    BY <1>4, <2>3 DEF NewRow, StoredInstrument
  <2>5. p.seq < n.seq
    BY <1>1, <1>2, <2>1 DEF WithSeq, SubmissionState, SubmissionHolds, WorkIsExact
  <2> QED
    BY <1>2, <1>4, <2>1, <2>4, <2>5 DEF ExtendsItsLine
<1> QED
  BY <1>3, <1>4

LEMMA LinesStay ==
  ASSUME SubmissionState, NEW w \in Writers, Writer(w)
  PROVE  RowsExtendTheirLines'
<1>1. TypeOK /\ RowsExtendTheirLines
  BY DEF SubmissionState, SealingState, SubmissionHolds
<1>2. \A e \in Rows : ExtendsItsLine(e)
  BY <1>1 DEF RowsExtendTheirLines
<1>3. \A e : ExtendsItsLine(e) => ExtendsItsLine(e)'
  BY <1>1, EventsGrow DEF ExtendsItsLine
<1>4. \A e \in Rows' : ExtendsItsLine(e)'
  BY <1>1, <1>2, <1>3, RowsAfterStep, NewRowExtendsItsLine
<1> QED
  BY <1>4 DEF RowsExtendTheirLines

\* How a step treats the row locks.
LEMMA LockSteps ==
  ASSUME TypeOK, NEW w \in Writers, Writer(w)
  PROVE  \/ UNCHANGED rowLock
         \/ EndTransaction(w)
         \/ /\ pc[w] = "parent" /\ ParentFree(w) /\ pc'[w] = "successor" /\ UNCHANGED work
            /\ UNCHANGED <<inserted, events>>
            /\ rowLock' = [rowLock EXCEPT ![w] = Item(w).parent]
<1>1. CASE Submit(w) \/ CheckExisting(w) \/ Scan(w) \/ RecheckSingle(w) \/ RecheckBatch(w)
           \/ LockShared(w) \/ DrawSequence(w) \/ InsertRow(w)
  BY <1>1 DEF Submit, CheckExisting, Scan, RecheckSingle, RecheckBatch, LockShared, DrawSequence,
              InsertRow, tables, locks
<1>2. CASE CheckSuccessor(w) \/ FoldItem(w) \/ Commit(w) \/ DeadlockVictim(w) \/ WriterFault(w)
  BY <1>2 DEF CheckSuccessor, FoldItem, Commit, DeadlockVictim, WriterFault, Reject, locks
<1>3. CASE LockParent(w)
  BY <1>3 DEF LockParent, Reject, Goto, tables, TypeOK, WritersTyped
<1> QED
  BY <1>1, <1>2, <1>3 DEF Writer, WriterRuns

LEMMA LocksStayAlone ==
  ASSUME SubmissionState, NEW w \in Writers, Writer(w),
         NEW v \in Writers, NEW x \in Writers \ {v}, rowLock'[x] = rowLock'[v]
  PROVE  rowLock'[v] = NoEvent
<1>1. TypeOK /\ \A y, z \in Writers : rowLock[y] = rowLock[z] /\ y # z => rowLock[z] = NoEvent
  BY DEF SubmissionState, SealingState, SubmissionHolds, HoldsItsParent
<1>2. CASE EndTransaction(w)
  BY <1>1, <1>2 DEF EndTransaction, TypeOK, LocksTyped
<1>3. CASE ParentFree(w) /\ rowLock' = [rowLock EXCEPT ![w] = Item(w).parent]
  BY <1>1, <1>3 DEF ParentFree, TypeOK, LocksTyped
<1> QED
  BY <1>1, <1>2, <1>3, LockSteps

\* A row of an open transaction follows nothing, or the event its writer has locked.
LEMMA InsertedRowsAreGuarded ==
  ASSUME SubmissionState, NEW w \in Writers, Writer(w), NEW e \in inserted'[w]
  PROVE  e.parent \in {NoEvent, rowLock'[w]}
<1> USE DEF TypeOK, LocksTyped
<1>1. TypeOK /\ \A f \in inserted[w] : f.parent \in {NoEvent, rowLock[w]}
  BY DEF SubmissionState, SealingState, SubmissionHolds, HoldsItsParent
<1>2. CASE EndTransaction(w)
  BY <1>1, <1>2 DEF EndTransaction
<1>3. CASE pc[w] = "parent" /\ UNCHANGED inserted
  BY <1>1, <1>3 DEF SubmissionState, SealingState, SealingIsInductive, WritersAreWellPlaced,
                    IsWellPlaced
<1>4. CASE UNCHANGED <<rowLock, inserted>>
  BY <1>1, <1>4
<1>5. CASE Takes(w) /\ UNCHANGED rowLock
  <2>1. /\ inserted'[w] = inserted[w] \cup {NewRow(w)} /\ NewRow(w).parent = Item(w).parent
        /\ pc[w] = "index" /\ ItemsLeft(w)
    BY <1>1, <1>5 DEF Takes, NewRow, SubmissionState, SealingState, SealingIsInductive,
                      WritersAreWellPlaced, IsWellPlaced
  <2>2. Item(w).parent \in {NoEvent, rowLock[w]}
    BY <2>1 DEF SubmissionState, SubmissionHolds, HoldsItsParent
  <2> QED
    BY <1>1, <1>5, <2>1, <2>2
<1>6. CASE Takes(w) /\ ~ UNCHANGED rowLock
  BY <1>1, <1>2, <1>6, LockSteps DEF Takes
<1> QED
  BY <1>1, <1>2, <1>3, <1>4, <1>5, <1>6, LockSteps, RowSteps DEF DrawSequence

LEMMA SuccessorIsSingle ==
  ASSUME NEW c \in Calls, NEW n \in Nat \ {0}, n <= Len(c.items), c.items[n].parent # NoEvent
  PROVE  c.api = "single" /\ n = 1 /\ c.items[n].type # "report"
<1>1. c.api = "single" /\ n \in 1 .. Len(c.items)
  BY CallFacts
<1> QED
  BY <1>1, SingleHasOneItem, CallsAssumption

\* A successor gets through its transaction by these steps only.
LEMMA SuccessorSteps ==
  ASSUME SubmissionState, NEW w \in Writers, Writer(w),
         pc'[w] \in {"successor", "insert", "index"}, ItemsLeft(w)', Item(w)'.parent # NoEvent
  PROVE  /\ UNCHANGED work /\ pc[w] # "idle"
         /\ \/ LockParent(w) /\ pc'[w] = "successor"
            \/ CheckSuccessor(w) /\ pc'[w] = "insert"
            \/ DrawSequence(w)
<1>1. TypeOK /\ WritersAreWellPlaced /\ TypeOK' /\ WritersAreWellPlaced'
  BY TypeWriter, WriterKeepsPlaces DEF SubmissionState, SealingState, SealingIsInductive
<1>2. work'[w].call \in Calls /\ work'[w].pos \in Nat \ {0}
  BY <1>1 DEF WritersAreWellPlaced, IsWellPlaced, TypeOK, WritersTyped
<1>3. work'[w].call.api = "single" /\ work'[w].pos = 1 /\ Item(w)'.type # "report"
  BY <1>2, SuccessorIsSingle DEF ItemsLeft, Items, Item
<1> USE DEF TypeOK, WritersTyped
<1>4. CASE Submit(w) \/ CheckExisting(w) \/ RecheckSingle(w) \/ RecheckBatch(w) \/ Commit(w)
           \/ DeadlockVictim(w) \/ WriterFault(w)
  BY <1>1, <1>4
  DEF Submit, CheckExisting, RecheckSingle, RecheckBatch, Commit, DeadlockVictim, WriterFault,
      AnswerFromRow, Answer, Goto, Reject
<1>5. CASE LockShared(w)
  BY <1>1, <1>3, <1>5 DEF LockShared, Goto, Item, Items
<1>6. CASE Scan(w)
  BY <1>1, <1>3, <1>6 DEF Scan, Goto, WritersAreWellPlaced, IsWellPlaced
<1>7. CASE FoldItem(w)
  BY <1>1, <1>3, <1>7 DEF FoldItem, Reject, Answer
<1>8. CASE InsertRow(w)
  BY <1>1, <1>3, <1>8 DEF InsertRow, Goto
<1>9. CASE LockParent(w) \/ CheckSuccessor(w) \/ DrawSequence(w)
  BY <1>1, <1>9 DEF LockParent, CheckSuccessor, DrawSequence, Reject, Answer, Goto
<1> QED
  BY <1>4, <1>5, <1>6, <1>7, <1>8, <1>9 DEF Writer, WriterRuns

\* The parents of the rows another writer commits are locked by it, so they are not
\* the parent this writer has locked.
LEMMA OthersHoldTheirParents ==
  ASSUME SubmissionState, NEW w \in Writers, Writer(w), NEW v \in Writers \ {w}
  PROVE  HoldsItsParent(v)'
<1>1. TypeOK /\ HoldsItsParent(v)
  BY DEF SubmissionState, SealingState, SubmissionHolds
<1>2. UNCHANGED <<pc[v], work[v], inserted[v], rowLock[v]>>
  BY <1>1, WriterTables
<1>3. ItemsLeft(v)' = ItemsLeft(v) /\ Item(v)' = Item(v)
  BY <1>2 DEF ItemsLeft, Items, Item
<1>4. \A x \in Writers \ {v} : rowLock'[x] = rowLock'[v] => rowLock'[v] = NoEvent
  BY LocksStayAlone
<1>5. ASSUME pc[v] \in {"insert", "index"}, ItemsLeft(v), Item(v).parent # NoEvent
      PROVE  /\ Successors(Item(v).parent)' = {}
             /\ \E p \in WithSeq(Item(v).parent)' : Item(v).instrument \in {NoInstrument, p.instrument}
  <2>1. Successors(Item(v).parent) = {} /\ rowLock[v] = Item(v).parent
    BY <1>1, <1>5 DEF HoldsItsParent
  <2>2. Successors(Item(v).parent)' = {}
    <3> DEFINE n == Item(v).parent
    <3>1. n # NoEvent /\ rowLock[v] = n /\ Successors(n) = {}
      BY <1>5, <2>1
    <3>2. n' = n
      BY <1>3
    <3>3. \A e \in events' : e.parent # n
      <4>1. events' = events \/ events' = events \cup inserted[w]
        BY <1>1, WriterTables
      <4>2. \A e \in inserted[w] : e.parent \in {NoEvent, rowLock[w]}
        BY DEF SubmissionState, SubmissionHolds, HoldsItsParent
      <4>3. rowLock[w] # n
        BY <3>1 DEF SubmissionState, SubmissionHolds, HoldsItsParent
      <4> QED
        BY <3>1, <4>1, <4>2, <4>3 DEF Successors
    <3> QED
      BY <3>2, <3>3 DEF Successors
  <2>3. \E p \in WithSeq(Item(v).parent) : Item(v).instrument \in {NoInstrument, p.instrument}
    BY <1>1, <1>5 DEF HoldsItsParent
  <2> QED
    BY <1>1, <1>3, <2>2, <2>3, EventsGrow DEF WithSeq
<1> QED
  BY <1>1, <1>2, <1>3, <1>4, <1>5 DEF HoldsItsParent, Successors, WithSeq

LEMMA WritersHoldTheirParents ==
  ASSUME SubmissionState, NEW w \in Writers, Writer(w)
  PROVE  HoldsItsParent(w)'
<1> USE DEF TypeOK, LocksTyped, WritersTyped
<1>1. TypeOK /\ HoldsItsParent(w)
  BY DEF SubmissionState, SealingState, SubmissionHolds
<1>2. \A v \in Writers \ {w} : rowLock'[v] = rowLock'[w] => rowLock'[w] = NoEvent
  BY LocksStayAlone
<1>3. \A e \in inserted'[w] : e.parent \in {NoEvent, rowLock'[w]}
  BY InsertedRowsAreGuarded
<1>4. ASSUME pc'[w] \in {"successor", "insert", "index"}, ItemsLeft(w)', Item(w)'.parent # NoEvent
      PROVE  /\ rowLock'[w] = Item(w)'.parent
             /\ pc'[w] \in {"insert", "index"} =>
                  /\ Successors(Item(w).parent)' = {}
                  /\ \E p \in WithSeq(Item(w).parent)' :
                       Item(w)'.instrument \in {NoInstrument, p.instrument}
  <2>1. Item(w)' = Item(w) /\ ItemsLeft(w) /\ pc[w] # "idle"
    BY <1>4, SuccessorSteps DEF Item, Items, ItemsLeft
  <2>2. CASE LockParent(w) /\ pc'[w] = "successor"
    BY <1>1, <2>1, <2>2 DEF LockParent, Reject, Answer
  <2>3. CASE CheckSuccessor(w) /\ pc'[w] = "insert"
    <3>1. /\ UNCHANGED <<rowLock, events>> /\ Successors(Item(w).parent) = {}
          /\ Item(w).instrument \in {NoInstrument, Parent(w).instrument}
          /\ pc[w] = "successor"
      BY <1>1, <2>3 DEF CheckSuccessor, Reject, Answer, Goto, tables, locks
    <3>2. rowLock[w] = Item(w).parent
      BY <1>1, <1>4, <2>1, <3>1 DEF HoldsItsParent
    <3>3. WithSeq(Item(w).parent) # {}
      BY <1>4, <2>1, <3>1 DEF SubmissionState, SealingState, SealingIsInductive,
                              WritersAreWellPlaced, IsWellPlaced
    <3>4. Parent(w) \in WithSeq(Item(w).parent)
      BY <3>3 DEF Parent
    <3> QED
      BY <2>1, <3>1, <3>2, <3>4 DEF Successors, WithSeq
  <2>4. CASE DrawSequence(w)
    <3>1. UNCHANGED <<rowLock, events>> /\ pc[w] = "insert"
      BY <2>4 DEF DrawSequence
    <3> QED
      BY <1>1, <1>4, <2>1, <3>1 DEF HoldsItsParent, Successors, WithSeq
  <2> QED
    BY <1>4, <2>2, <2>3, <2>4, SuccessorSteps
<1> QED
  BY <1>2, <1>3, <1>4 DEF HoldsItsParent, Successors, WithSeq

LEMMA ParentsStayHeld ==
  ASSUME SubmissionState, NEW w \in Writers, Writer(w), NEW v \in Writers
  PROVE  HoldsItsParent(v)'
  BY WritersHoldTheirParents, OthersHoldTheirParents

-----------------------------------------------------------------------------
(***************************************************************************)
(* The work of a request.                                                  *)
(***************************************************************************)

IsFresh(w) == work[w].pos = 1 /\ work[w].results = << >> /\ work[w].seen = {}

\* The results of the items worked off, for the rows that are known with `mine`.
ResultsFit(results, items, mine, known) ==
  /\ Len(results) <= Len(items)
  /\ \A i \in DOMAIN results :
       \E e \in known :
         /\ e.seq = results[i].seq /\ Fingerprint(e) = Fingerprint(items[i])
         /\ results[i].created => e \in mine
  /\ \A i, j \in DOMAIN results :
       results[i].created /\ results[j].created /\ results[i].seq = results[j].seq => i = j
  /\ \A e \in mine : \E i \in 1 .. Len(items) : Fingerprint(e) = Fingerprint(items[i])

HasFit(w) ==
  /\ work[w].pos = Len(work[w].results) + 1
  /\ ResultsFit(work[w].results, Items(w), inserted[w], events \cup inserted[w])

HasSeen(w) ==
  /\ work[w].seen \subseteq RowsOfBatch(w)
  /\ work[w].call.api = "batch" =>
       Cardinality({e.key : e \in work[w].seen}) >= work[w].attempt - 1

MayInsert(w) ==
  /\ \A e \in work[w].seen \cup inserted[w] : e.key # Item(w).key
  /\ Item(w).parent < ticket[w]

LEMMA WorkParts ==
  \A w \in Writers :
    WorkIsExact(w) <=>
      /\ pc[w] \in {"check", "lock", "scan", "parent", "successor"} => IsFresh(w)
      /\ pc[w] \in {"insert", "index"} => HasFit(w) /\ HasSeen(w)
      /\ pc[w] = "index" => MayInsert(w)
  BY DEF WorkIsExact, IsFresh, HasFit, ResultsFit, HasSeen, MayInsert

LEMMA WorkPartsAfter ==
  ASSUME NEW w \in Writers
  PROVE  WorkIsExact(w)' <=>
           /\ pc'[w] \in {"check", "lock", "scan", "parent", "successor"} => IsFresh(w)'
           /\ pc'[w] \in {"insert", "index"} => HasFit(w)' /\ HasSeen(w)'
           /\ pc'[w] = "index" => MayInsert(w)'
  BY DEF WorkIsExact, IsFresh, HasFit, ResultsFit, HasSeen, MayInsert

LEMMA MoreIsKnown ==
  ASSUME NEW results, NEW items, NEW mine, NEW known, ResultsFit(results, items, mine, known),
         NEW more, known \subseteq more
  PROVE  ResultsFit(results, items, mine, more)
  BY DEF ResultsFit

\* The next item is worked off: its row is known, or it is the new row of the writer.
LEMMA OneMoreResult ==
  ASSUME NEW results \in Seq(Result), NEW items \in Seq(Submission), NEW mine, NEW known,
         mine \subseteq known, ResultsFit(results, items, mine, known), Len(results) < Len(items),
         NEW e, NEW created \in BOOLEAN, [seq |-> e.seq, created |-> created] \in Result,
         Fingerprint(e) = Fingerprint(items[Len(results) + 1]),
         created => \A f \in mine : f.seq # e.seq,
         ~ created => e \in known
  PROVE  ResultsFit(Append(results, [seq |-> e.seq, created |-> created]), items,
                    IF created THEN mine \cup {e} ELSE mine, known \cup {e})
<1> DEFINE n == Len(results)
           r == [seq |-> e.seq, created |-> created]
           s == Append(results, r)
           own == IF created THEN mine \cup {e} ELSE mine
<1>1. n \in Nat /\ Len(s) = n + 1 /\ DOMAIN s = 1 .. n + 1 /\ DOMAIN results = 1 .. n
  OBVIOUS
<1>2. s[n + 1] = r /\ \A i \in 1 .. n : s[i] = results[i]
  OBVIOUS
<1>3. r.seq = e.seq /\ r.created = created
  OBVIOUS
<1>4. Len(s) <= Len(items) /\ n + 1 \in 1 .. Len(items)
  BY <1>1
<1>5. \A i \in 1 .. n : \E f \in known :
        /\ f.seq = results[i].seq /\ Fingerprint(f) = Fingerprint(items[i])
        /\ results[i].created => f \in mine
  BY <1>1 DEF ResultsFit
<1>6. \A i, j \in 1 .. n :
        results[i].created /\ results[j].created /\ results[i].seq = results[j].seq => i = j
  BY <1>1 DEF ResultsFit
<1>7. \A f \in mine : \E i \in 1 .. Len(items) : Fingerprint(f) = Fingerprint(items[i])
  BY DEF ResultsFit
<1> HIDE DEF r, s, n
<1>8. \A i \in 1 .. n + 1 : \E f \in known \cup {e} :
        /\ f.seq = s[i].seq /\ Fingerprint(f) = Fingerprint(items[i])
        /\ s[i].created => f \in own
  <2> TAKE i \in 1 .. n + 1
  <2>1. CASE i = n + 1
    BY <1>2, <1>3, <2>1 DEF n
  <2>2. CASE i \in 1 .. n
    BY <1>2, <1>5, <2>2
  <2> QED
    BY <1>1, <2>1, <2>2
<1>9. ASSUME created, NEW i \in 1 .. n, results[i].created PROVE results[i].seq # e.seq
  BY <1>5, <1>9
<1>10. \A i, j \in 1 .. n + 1 :
         s[i].created /\ s[j].created /\ s[i].seq = s[j].seq => i = j
  <2> TAKE i, j \in 1 .. n + 1
  <2>1. CASE i \in 1 .. n /\ j \in 1 .. n
    BY <1>2, <1>6, <2>1
  <2>2. CASE i = n + 1 /\ j \in 1 .. n
    BY <1>2, <1>3, <1>9, <2>2
  <2>3. CASE i \in 1 .. n /\ j = n + 1
    BY <1>2, <1>3, <1>9, <2>3
  <2> QED
    BY <1>1, <2>1, <2>2, <2>3
<1>11. \A f \in own : \E i \in 1 .. Len(items) : Fingerprint(f) = Fingerprint(items[i])
  BY <1>4, <1>7 DEF n
<1> QED
  BY <1>1, <1>4, <1>8, <1>10, <1>11 DEF ResultsFit, s, r

\* The row that is inserted has the content of its item, a successor the instrument of
\* its parent.
LEMMA NewRowHasContent ==
  ASSUME SubmissionState, NEW w \in Writers, pc[w] = "index"
  PROVE  Fingerprint(NewRow(w)) = Fingerprint(Item(w))
<1> DEFINE n == NewRow(w)
<1>1. /\ ItemsLeft(w) /\ TypeOK /\ WritersAreWellPlaced /\ HoldsItsParent(w)
      /\ Item(w).parent # NoEvent => \E p \in WithSeq(Item(w).parent) : TRUE
  BY DEF SubmissionState, SubmissionHolds, SealingState, SealingIsInductive,
         WritersAreWellPlaced, IsWellPlaced
<1>2. /\ n.type = Item(w).type /\ n.key = Item(w).key /\ n.parent = Item(w).parent
      /\ n.content = Item(w).content /\ n.instrument = StoredInstrument(w)
  BY DEF NewRow
<1>3. Item(w).type # "revocation" => StoredInstrument(w) = Item(w).instrument
  <2>1. CASE Item(w).parent = NoEvent
    BY <2>1 DEF StoredInstrument
  <2>2. CASE Item(w).parent # NoEvent
    <3>1. PICK p \in WithSeq(Item(w).parent) : Item(w).instrument \in {NoInstrument, p.instrument}
      BY <1>1, <2>2 DEF HoldsItsParent
    <3>2. \A q \in WithSeq(Item(w).parent) : q = p
      BY <3>1, RowsAre DEF WithSeq, SubmissionState, SubmissionHolds, RowsAreUnique
    <3>3. Parent(w) = p
      BY <3>1, <3>2 DEF Parent
    <3>4. Item(w).type = "revocation" <=> Item(w).instrument = NoInstrument
      BY <1>1, ItemFacts
    <3> QED
      BY <2>2, <3>1, <3>3, <3>4 DEF StoredInstrument
  <2> QED
    BY <2>1, <2>2
<1> QED
  BY <1>2, <1>3 DEF Fingerprint

LEMMA OthersWorkStaysExact ==
  ASSUME SubmissionState, NEW w \in Writers, Writer(w), NEW v \in Writers \ {w}
  PROVE  WorkIsExact(v)'
<1>1. TypeOK /\ WorkIsExact(v)
  BY DEF SubmissionState, SealingState, SubmissionHolds
<1>2. UNCHANGED <<pc[v], work[v], inserted[v], ticket[v]>> /\ events \subseteq events'
  BY <1>1, WriterTables
<1>3. Items(v)' = Items(v) /\ Item(v)' = Item(v) /\ RowsOfBatch(v) \subseteq RowsOfBatch(v)'
  BY <1>2 DEF Items, Item, RowsOfBatch
<1>4. HasFit(v) => HasFit(v)'
  BY <1>2, <1>3, MoreIsKnown DEF HasFit
<1>5. HasSeen(v) => HasSeen(v)'
  BY <1>2, <1>3 DEF HasSeen
<1>6. IsFresh(v) => IsFresh(v)'
  BY <1>2 DEF IsFresh
<1>7. MayInsert(v) => MayInsert(v)'
  BY <1>2, <1>3 DEF MayInsert
<1> QED
  BY <1>1, <1>2, <1>4, <1>5, <1>6, <1>7, WorkParts, WorkPartsAfter

\* A transaction begins with the first item and nothing done.
LEMMA FreshWorkFits ==
  ASSUME TypeOK, NEW w \in Writers, IsFresh(w), inserted[w] = {}, work[w].call \in Calls
  PROVE  HasFit(w)
<1>1. Len(Items(w)) \in Nat /\ Len(work[w].results) = 0 /\ DOMAIN work[w].results = {}
  BY CallFacts DEF IsFresh, Items
<1> QED
  BY <1>1 DEF HasFit, ResultsFit, IsFresh

LEMMA ScanIsExact ==
  ASSUME SubmissionState, NEW w \in Writers, Scan(w)
  PROVE  WorkIsExact(w)'
<1> USE DEF TypeOK, LocksTyped, WritersTyped
<1>1. /\ TypeOK /\ IsFresh(w) /\ pc[w] = "scan"
      /\ work[w].call \in Calls /\ work[w].call.api = "batch" /\ inserted[w] = {}
  BY WorkParts DEF SubmissionState, SealingState, SubmissionHolds, Scan, SealingIsInductive,
                   WritersAreWellPlaced, IsWellPlaced
<1>2. /\ UNCHANGED <<events, inserted>> /\ pc'[w] = "insert"
      /\ work'[w].call = work[w].call /\ work'[w].pos = work[w].pos
      /\ work'[w].results = work[w].results /\ work'[w].attempt = work[w].attempt
      /\ work'[w].seen = RowsOfBatch(w)
  BY <1>1 DEF Scan, Goto, tables, locks
<1>3. Items(w)' = Items(w) /\ RowsOfBatch(w)' = RowsOfBatch(w)
  BY <1>2 DEF Items, RowsOfBatch
<1>4. HasFit(w)'
  BY <1>1, <1>2, <1>3, FreshWorkFits DEF HasFit
<1>5. Cardinality({e.key : e \in RowsOfBatch(w)}) >= work[w].attempt - 1
  <2> DEFINE taken == {k \in Keys : /\ WithKey(k) # {}
                                    /\ \E i \in 1 .. Len(Items(w)) : Items(w)[i].key = k}
  <2>1. Cardinality(taken) >= work[w].attempt - 1
    BY <1>1 DEF SubmissionState, SubmissionHolds, LostAttemptsAreDistinctKeys
  <2>2. \A k \in taken : \E e \in RowsOfBatch(w) : e.key = k
    BY DEF WithKey, RowsOfBatch
  <2>3. \A e \in RowsOfBatch(w) : e.key \in taken
    BY <1>1 DEF WithKey, RowsOfBatch, TablesTyped, Row
  <2>4. taken = {e.key : e \in RowsOfBatch(w)}
    <3> HIDE DEF taken
    <3> QED
      BY <2>2, <2>3
  <2> QED
    BY <2>1, <2>4
<1>6. HasSeen(w)'
  BY <1>1, <1>2, <1>3, <1>5 DEF HasSeen
<1> QED
  BY <1>2, <1>4, <1>6, WorkPartsAfter

\* An item whose key is known already is worked off with the row that has it.
LEMMA FoldIsExact ==
  ASSUME SubmissionState, NEW w \in Writers, FoldItem(w)
  PROVE  WorkIsExact(w)'
<1> USE DEF TypeOK, LocksTyped, WritersTyped
<1>1. /\ TypeOK /\ HasFit(w) /\ HasSeen(w) /\ pc[w] = "insert" /\ ItemsLeft(w)
      /\ work[w].call \in Calls
  BY WorkParts DEF SubmissionState, SealingState, SubmissionHolds, FoldItem, SealingIsInductive,
                   WritersAreWellPlaced, IsWellPlaced
<1>2. CASE pc'[w] = "idle"
  BY <1>2, WorkPartsAfter
<1>3. CASE UNCHANGED pc
  <2>1. PICK e \in Resolved(w) :
          /\ SameContent(e, Item(w))
          /\ work' = [work EXCEPT ![w].results = Append(@, [seq |-> e.seq, created |-> FALSE]),
                                  ![w].pos = @ + 1]
          /\ UNCHANGED <<events, inserted>>
    BY <1>1, <1>3 DEF FoldItem, Reject, Answer, tables, locks
  <2> DEFINE results == work[w].results
             items == Items(w)
             known == events \cup inserted[w]
             r == [seq |-> e.seq, created |-> FALSE]
  <2>2. /\ work'[w].call = work[w].call /\ work'[w].pos = work[w].pos + 1
        /\ work'[w].results = Append(results, r) /\ work'[w].attempt = work[w].attempt
        /\ work'[w].seen = work[w].seen
    BY <1>1, <2>1
  <2>3. Items(w)' = items /\ RowsOfBatch(w)' = RowsOfBatch(w)
    BY <2>1, <2>2 DEF Items, RowsOfBatch
  <2>4. e \in known /\ known \subseteq Row
    BY <1>1, <2>1 DEF Resolved, HasSeen, RowsOfBatch, TablesTyped
  <2>5. /\ results \in Seq(Result) /\ items \in Seq(Submission)
        /\ Len(results) < Len(items) /\ items[Len(results) + 1] = Item(w)
    BY <1>1, CallsAssumption DEF HasFit, ItemsLeft, Item, Items, Call
  <2>6. r \in Result
    BY <2>4 DEF Result, Row
  <2>7. ResultsFit(results, items, inserted[w], known)
    BY <1>1 DEF HasFit
  <2>8. Fingerprint(e) = Fingerprint(items[Len(results) + 1])
    BY <2>1, <2>5 DEF SameContent
  <2>9. ResultsFit(Append(results, r), items, inserted[w], known)
    <3>1. known \cup {e} = known /\ inserted[w] \subseteq known
      BY <2>4
    <3> HIDE DEF results, items, known
    <3>2. ResultsFit(Append(results, r), items, IF FALSE THEN inserted[w] \cup {e} ELSE inserted[w],
                     known \cup {e})
      BY <2>4, <2>5, <2>6, <2>7, <2>8, <3>1, OneMoreResult
    <3> QED
      BY <3>1, <3>2
  <2>10. Len(Append(results, r)) = Len(results) + 1 /\ work[w].pos = Len(results) + 1
    BY <1>1, <2>5 DEF HasFit
  <2>11. HasFit(w)'
    BY <2>1, <2>2, <2>3, <2>9, <2>10 DEF HasFit
  <2>12. HasSeen(w)'
    BY <1>1, <2>2, <2>3 DEF HasSeen
  <2> QED
    BY <1>1, <1>3, <2>11, <2>12, WorkPartsAfter
<1> QED
  BY <1>1, <1>2, <1>3 DEF FoldItem, Reject, Answer

\* A new row is inserted for the item: it is the writer's own from now on.
LEMMA InsertIsExact ==
  ASSUME SubmissionState, NEW w \in Writers, InsertRow(w)
  PROVE  WorkIsExact(w)'
<1> USE DEF TypeOK, LocksTyped, WritersTyped
<1>1. /\ TypeOK /\ WritersAreWellPlaced /\ HasFit(w) /\ HasSeen(w) /\ pc[w] = "index" /\ ItemsLeft(w)
      /\ work[w].call \in Calls
  BY WorkParts DEF SubmissionState, SealingState, SubmissionHolds, InsertRow,
                   SealingIsInductive, WritersAreWellPlaced, IsWellPlaced
<1>2. CASE pc'[w] = "recheck"
  BY <1>2, WorkPartsAfter
<1>3. CASE Takes(w) /\ pc'[w] = "insert"
        /\ work' = [work EXCEPT ![w].results = Append(@, [seq |-> ticket[w], created |-> TRUE]),
                                ![w].pos = @ + 1]
  <2> DEFINE results == work[w].results
             items == Items(w)
             known == events \cup inserted[w]
             e == NewRow(w)
             r == [seq |-> e.seq, created |-> TRUE]
  <2>1. /\ work'[w].call = work[w].call /\ work'[w].pos = work[w].pos + 1
        /\ work'[w].results = Append(results, r) /\ work'[w].attempt = work[w].attempt
        /\ work'[w].seen = work[w].seen
    BY <1>1, <1>3 DEF NewRow
  <2>2. UNCHANGED events /\ inserted'[w] = inserted[w] \cup {e}
    BY <1>1, <1>3 DEF Takes
  <2>3. Items(w)' = items /\ RowsOfBatch(w)' = RowsOfBatch(w)
    BY <2>1, <2>2 DEF Items, RowsOfBatch
  <2>4. e \in Row /\ \A f \in inserted[w] : f.seq # e.seq
    BY <1>1, <1>3, NewRowType, NewRowIsUnique, RowsAre
  <2>5. /\ results \in Seq(Result) /\ items \in Seq(Submission)
        /\ Len(results) < Len(items) /\ items[Len(results) + 1] = Item(w)
    BY <1>1, CallsAssumption DEF HasFit, ItemsLeft, Item, Items, Call
  <2>6. r \in Result
    BY <2>4 DEF Result, Row
  <2>7. ResultsFit(results, items, inserted[w], known)
    BY <1>1 DEF HasFit
  <2>8. Fingerprint(e) = Fingerprint(items[Len(results) + 1])
    BY <1>1, <2>5, NewRowHasContent
  <2>9. ResultsFit(Append(results, r), items, inserted[w] \cup {e}, known \cup {e})
    <3>1. inserted[w] \subseteq known
      OBVIOUS
    <3> HIDE DEF results, items, known, e
    <3> QED
      BY <2>4, <2>5, <2>6, <2>7, <2>8, <3>1, OneMoreResult
  <2>10. Len(Append(results, r)) = Len(results) + 1 /\ work[w].pos = Len(results) + 1
    BY <1>1, <2>5 DEF HasFit
  <2>11. events' \cup inserted'[w] = known \cup {e}
    BY <2>2
  <2>12. HasFit(w)'
    <3> HIDE DEF results, items, known, e, r
    <3> QED
      BY <2>1, <2>2, <2>3, <2>9, <2>10, <2>11 DEF HasFit, items
  <2>13. HasSeen(w)'
    BY <1>1, <2>1, <2>3 DEF HasSeen
  <2> QED
    BY <1>3, <2>12, <2>13, WorkPartsAfter
<1> QED
  BY <1>1, <1>2, <1>3 DEF InsertRow, Goto, Takes, tables

\* The number of a row to be inserted lies above that of its parent.
LEMMA DrawIsExact ==
  ASSUME SubmissionState, NEW w \in Writers, DrawSequence(w)
  PROVE  WorkIsExact(w)'
<1> USE DEF TypeOK, LocksTyped, WritersTyped
<1>1. /\ TypeOK /\ HasFit(w) /\ HasSeen(w) /\ pc[w] = "insert" /\ ItemsLeft(w)
      /\ work[w].call \in Calls /\ Resolved(w) = {}
      /\ Item(w).parent # NoEvent => \E p \in WithSeq(Item(w).parent) : TRUE
  BY WorkParts DEF SubmissionState, SealingState, SubmissionHolds, DrawSequence,
                   SealingIsInductive, WritersAreWellPlaced, IsWellPlaced
<1>2. UNCHANGED <<events, inserted, work>> /\ pc'[w] = "index" /\ ticket'[w] = nextSeq
  BY <1>1 DEF DrawSequence, Goto
<1>3. Items(w)' = Items(w) /\ Item(w)' = Item(w) /\ RowsOfBatch(w)' = RowsOfBatch(w)
  BY <1>2 DEF Items, Item, RowsOfBatch
<1>4. HasFit(w)' /\ HasSeen(w)'
  BY <1>1, <1>2, <1>3 DEF HasFit, HasSeen
<1>5. Item(w).parent < nextSeq
  <2>1. NumbersLieAhead
    BY DEF SubmissionState, SealingState, SealingIsInductive
  <2> QED
    BY <1>1, <2>1 DEF WithSeq, NumbersLieAhead, NoEvent, TablesTyped
<1>6. MayInsert(w)'
  BY <1>1, <1>2, <1>3, <1>5 DEF MayInsert, Resolved
<1> QED
  BY <1>2, <1>4, <1>6, WorkPartsAfter

\* The steps before the first item, and those that end the request.
LEMMA OtherWorkIsExact ==
  ASSUME SubmissionState, NEW w \in Writers,
         \/ Submit(w) \/ CheckExisting(w) \/ LockShared(w) \/ LockParent(w) \/ CheckSuccessor(w)
         \/ Commit(w) \/ RecheckSingle(w) \/ RecheckBatch(w) \/ DeadlockVictim(w) \/ WriterFault(w)
  PROVE  WorkIsExact(w)'
<1> USE DEF TypeOK, LocksTyped, WritersTyped
<1>1. TypeOK /\ IsWellPlaced(w) /\ WorkIsExact(w)
  BY DEF SubmissionState, SealingState, SubmissionHolds, SealingIsInductive,
         WritersAreWellPlaced
<1>2. CASE pc'[w] \in {"idle", "recheck"}
  BY <1>2, WorkPartsAfter
<1>3. CASE Submit(w)
  <2>1. pc'[w] \in {"idle", "check", "lock"} /\ IsFresh(w)'
    BY <1>1, <1>3 DEF Submit, Goto, Answer, IsFresh
  <2> QED
    BY <2>1, WorkPartsAfter
<1>4. CASE RecheckBatch(w) /\ pc'[w] # "idle"
  <2>1. pc'[w] = "lock" /\ IsFresh(w)'
    BY <1>1, <1>4 DEF RecheckBatch, Goto, Answer, IsFresh
  <2> QED
    BY <2>1, WorkPartsAfter
<1>5. CASE CheckExisting(w) /\ pc'[w] # "idle"
  <2>1. pc[w] = "check" /\ pc'[w] = "lock" /\ UNCHANGED work
    BY <1>1, <1>5 DEF CheckExisting, AnswerFromRow, Goto, Answer
  <2> QED
    BY <1>1, <2>1, WorkParts, WorkPartsAfter DEF IsFresh
<1>6. CASE LockParent(w) /\ pc'[w] # "idle"
  <2>1. pc[w] = "parent" /\ pc'[w] = "successor" /\ UNCHANGED work
    BY <1>1, <1>6 DEF LockParent, Goto, Reject, Answer
  <2> QED
    BY <1>1, <2>1, WorkParts, WorkPartsAfter DEF IsFresh
<1>7. CASE (LockShared(w) \/ CheckSuccessor(w)) /\ pc'[w] # "idle"
  <2>1. /\ UNCHANGED <<work, events, inserted>> /\ pc[w] \in {"lock", "successor"}
        /\ pc'[w] \in {"scan", "parent", "insert"}
        /\ pc'[w] = "insert" => work[w].call.api # "batch"
    BY <1>1, <1>7 DEF LockShared, CheckSuccessor, Goto, Reject, Answer, tables, locks, IsWellPlaced
  <2>2. IsFresh(w) /\ inserted[w] = {} /\ work[w].call \in Calls
    BY <1>1, <2>1, WorkParts DEF IsWellPlaced
  <2>3. HasFit(w)
    BY <1>1, <2>2, FreshWorkFits
  <2>4. Items(w)' = Items(w)
    BY <2>1 DEF Items
  <2>5. IsFresh(w)' /\ HasFit(w)'
    BY <2>1, <2>2, <2>3, <2>4 DEF IsFresh, HasFit
  <2>6. pc'[w] = "insert" => HasSeen(w)'
    BY <2>1, <2>2 DEF HasSeen, IsFresh
  <2> QED
    BY <2>1, <2>5, <2>6, WorkPartsAfter
<1> QED
  BY <1>1, <1>2, <1>3, <1>4, <1>5, <1>6, <1>7
  DEF Commit, RecheckSingle, DeadlockVictim, WriterFault, AnswerFromRow, Reject, Answer

LEMMA WorkStaysExact ==
  ASSUME SubmissionState, NEW w \in Writers, Writer(w), NEW v \in Writers
  PROVE  WorkIsExact(v)'
<1>1. WorkIsExact(w)'
  BY ScanIsExact, FoldIsExact, InsertIsExact, DrawIsExact, OtherWorkIsExact DEF Writer, WriterRuns
<1> QED
  BY <1>1, OthersWorkStaysExact

-----------------------------------------------------------------------------
(***************************************************************************)
(* What callers are answered.                                              *)
(***************************************************************************)

\* A retry is answered with the row that has its content already.
IsReplayed(w, e) ==
  /\ UNCHANGED <<work, events>>
  /\ e \in WithKey(Item(w).key) /\ SameContent(e, Item(w))
  /\ reply'[w] = [status |-> "ok", results |-> <<[seq |-> e.seq, created |-> FALSE]>>]
  /\ pc[w] \in {"check", "recheck"} /\ work[w].call.api = "single"

\* A step answers at most its own caller: with the rows it commits, with the row that
\* has the content of a retry, or with no row.
LEMMA Replies ==
  ASSUME TypeOK, WritersAreWellPlaced, NEW w \in Writers, Writer(w)
  PROVE  /\ \A v \in Writers \ {w} : UNCHANGED reply[v]
         /\ \/ pc'[w] # "idle"
            \/ Commit(w) /\ reply'[w] = [status |-> "ok", results |-> work[w].results]
            \/ \E e : IsReplayed(w, e)
            \/ reply'[w] = [status |-> reply'[w].status, results |-> << >>] /\ reply'[w].status # "ok"
<1> USE DEF TypeOK, WritersTyped
<1> DEFINE Goal ==
      /\ \A v \in Writers \ {w} : UNCHANGED reply[v]
      /\ \/ pc'[w] # "idle"
         \/ Commit(w) /\ reply'[w] = [status |-> "ok", results |-> work[w].results]
         \/ \E e : IsReplayed(w, e)
         \/ reply'[w] = [status |-> reply'[w].status, results |-> << >>] /\ reply'[w].status # "ok"
<1> SUFFICES Goal
  OBVIOUS
<1>1. ASSUME NEW status, status # "ok", Answer(w, status, << >>) PROVE Goal
  BY <1>1 DEF Answer
<1>2. ASSUME NEW label, label # "idle", Goto(w, label) PROVE Goal
  BY <1>2 DEF Goto
<1>3. CASE Commit(w)
  BY <1>3 DEF Commit, Answer
<1>4. ASSUME NEW e \in WithKey(Item(w).key), AnswerFromRow(w, e), UNCHANGED <<work, events>>,
             pc[w] \in {"check", "recheck"}, work[w].call.api = "single"
      PROVE  Goal
  <2>1. CASE ~ SameContent(e, Item(w))
    BY <1>1, <1>4, <2>1 DEF AnswerFromRow
  <2>2. CASE SameContent(e, Item(w))
    BY <1>4, <2>2 DEF AnswerFromRow, Answer, IsReplayed
  <2> QED
    BY <2>1, <2>2
<1>5. CASE Submit(w)
  <2>1. \/ Goto(w, "check") \/ Goto(w, "lock") \/ Answer(w, "IDEMPOTENCY_CONFLICT", << >>)
    BY <1>5 DEF Submit
  <2> HIDE DEF Goal
  <2> QED
    BY <1>1, <1>2, <2>1
<1>6. CASE CheckExisting(w)
  <2>1. Goto(w, "lock") \/ \E e \in WithKey(Item(w).key) : AnswerFromRow(w, e)
    BY <1>6 DEF CheckExisting
  <2>2. UNCHANGED <<work, events>> /\ pc[w] = "check" /\ work[w].call.api = "single"
    BY <1>6 DEF CheckExisting, tables, WritersAreWellPlaced, IsWellPlaced
  <2> HIDE DEF Goal
  <2> QED
    BY <1>2, <1>4, <2>1, <2>2
<1>7. CASE RecheckSingle(w)
  <2>1. \/ Answer(w, "EVENT_ALREADY_SUPERSEDED", << >>) \/ Answer(w, "INTEGRITY_ERROR", << >>)
        \/ \E e \in WithKey(Item(w).key) : AnswerFromRow(w, e)
    BY <1>7 DEF RecheckSingle
  <2>2. UNCHANGED <<work, events>> /\ pc[w] = "recheck" /\ work[w].call.api = "single"
    BY <1>7 DEF RecheckSingle, tables
  <2> HIDE DEF Goal
  <2> QED
    BY <1>1, <1>4, <2>1, <2>2
<1>8. CASE LockShared(w) \/ Scan(w) \/ DrawSequence(w) \/ InsertRow(w)
  <2>1. \E label \in {"scan", "insert", "parent", "index", "recheck"} : Goto(w, label)
    BY <1>8 DEF LockShared, Scan, DrawSequence, InsertRow
  <2> HIDE DEF Goal
  <2> QED
    BY <1>2, <2>1
<1>9. CASE LockParent(w) \/ CheckSuccessor(w) \/ DeadlockVictim(w) \/ WriterFault(w)
  <2>1. \/ Goto(w, "successor") \/ Goto(w, "insert")
        \/ \E status \in Statuses \ {"ok"} : Answer(w, status, << >>)
    BY <1>9 DEF LockParent, CheckSuccessor, DeadlockVictim, WriterFault, Reject, Statuses
  <2> HIDE DEF Goal
  <2> QED
    BY <1>1, <1>2, <2>1
<1>10. CASE FoldItem(w)
  <2>1. \/ UNCHANGED <<pc, reply>> /\ pc[w] = "insert"
        \/ Answer(w, "IDEMPOTENCY_CONFLICT", << >>)
    BY <1>10 DEF FoldItem, Reject
  <2> QED
    BY <1>1, <2>1
<1>11. CASE RecheckBatch(w)
  <2>1. \/ Goto(w, "lock") \/ Answer(w, "IDEMPOTENCY_CONFLICT", << >>)
        \/ Answer(w, "INTEGRITY_ERROR", << >>)
    BY <1>11 DEF RecheckBatch
  <2> HIDE DEF Goal
  <2> QED
    BY <1>1, <1>2, <2>1
<1> QED
  BY <1>3, <1>5, <1>6, <1>7, <1>8, <1>9, <1>10, <1>11 DEF Writer, WriterRuns

\* A request keeps its call until it is answered, and afterwards until the next one.
LEMMA WorkKeepsCall ==
  ASSUME TypeOK, NEW w \in Writers, Writer(w), ~ Submit(w)
  PROVE  pc[w] # "idle" /\ work'[w].call = work[w].call
<1> USE DEF TypeOK, WritersTyped
<1>1. CASE CheckExisting(w) \/ LockShared(w) \/ Scan(w) \/ RecheckSingle(w) \/ DrawSequence(w)
           \/ Commit(w) \/ InsertRow(w)
  BY <1>1 DEF CheckExisting, LockShared, Scan, RecheckSingle, DrawSequence, Commit, InsertRow
<1>2. CASE LockParent(w) \/ CheckSuccessor(w) \/ WriterFault(w)
  BY <1>2 DEF LockParent, CheckSuccessor, WriterFault, Reject
<1>3. CASE DeadlockVictim(w)
  BY <1>3 DEF DeadlockVictim, WaitsFor, Reject
<1>4. CASE FoldItem(w)
  BY <1>4 DEF FoldItem, Reject
<1>5. CASE RecheckBatch(w)
  BY <1>5 DEF RecheckBatch
<1> QED
  BY <1>1, <1>2, <1>3, <1>4, <1>5 DEF Writer, WriterRuns

\* The steps that refuse a request, and what they found.
LEMMA Refusals ==
  ASSUME TypeOK, NEW w \in Writers, Writer(w), pc'[w] = "idle"
  PROVE  /\ reply'[w].status = "NOT_FOUND" =>
              LockParent(w) /\ UNCHANGED work /\ WithSeq(Item(w).parent) = {}
         /\ reply'[w].status = "RECORD_REVOKED" =>
              /\ LockParent(w) /\ UNCHANGED work
              /\ \E e \in WithSeq(Item(w).parent) : ~ MayBeFollowed(e)
         /\ reply'[w].status = "EVENT_ALREADY_SUPERSEDED" =>
              /\ CheckSuccessor(w) \/ RecheckSingle(w)
              /\ UNCHANGED work /\ Successors(Item(w).parent) # {}
         /\ reply'[w].status = "INTEGRITY_ERROR" =>
              /\ UNCHANGED work
              /\ \/ RecheckSingle(w) /\ WithKey(Item(w).key) = {}
                 \/ RecheckBatch(w) /\ work[w].attempt >= Attempts
         /\ reply'[w].status = "IDEMPOTENCY_CONFLICT" =>
              \/ Collides(work'[w].call.items)
              \/ /\ UNCHANGED work
                 /\ \/ CheckExisting(w) \/ RecheckSingle(w)
                 /\ \E e \in WithKey(Item(w).key) : ~ SameContent(e, Item(w))
              \/ /\ UNCHANGED work /\ RecheckBatch(w)
                 /\ \E i \in 1 .. Len(Items(w)) : \E e \in WithKey(Items(w)[i].key) :
                      ~ SameContent(e, Items(w)[i])
              \/ /\ UNCHANGED work /\ FoldItem(w)
                 /\ \E e \in Resolved(w) : ~ SameContent(e, Item(w))
<1> USE DEF TypeOK, WritersTyped
<1>a. \A status, results : Answer(w, status, results) => reply'[w].status = status
  BY DEF Answer
<1>b. \A label : Goto(w, label) => pc'[w] = label
  BY DEF Goto
<1>1. CASE Submit(w)
  BY <1>a, <1>b, <1>1 DEF Submit
<1>2. CASE CheckExisting(w)
  BY <1>a, <1>b, <1>2 DEF CheckExisting, AnswerFromRow
<1>3. CASE RecheckSingle(w)
  BY <1>a, <1>b, <1>3 DEF RecheckSingle, AnswerFromRow
<1>4. CASE LockShared(w) \/ Scan(w) \/ DrawSequence(w) \/ InsertRow(w)
  BY <1>a, <1>b, <1>4 DEF LockShared, Scan, DrawSequence, InsertRow
<1>5. CASE LockParent(w)
  BY <1>a, <1>b, <1>5 DEF LockParent, Reject
<1>6. CASE CheckSuccessor(w)
  BY <1>a, <1>b, <1>6 DEF CheckSuccessor, Reject
<1>7. CASE DeadlockVictim(w) \/ WriterFault(w)
  BY <1>a, <1>b, <1>7 DEF DeadlockVictim, WriterFault, Reject
<1>8. CASE FoldItem(w)
  BY <1>a, <1>b, <1>8 DEF FoldItem, Reject
<1>9. CASE RecheckBatch(w)
  BY <1>a, <1>b, <1>9 DEF RecheckBatch
<1>10. CASE Commit(w)
  BY <1>a, <1>b, <1>10 DEF Commit
<1> QED
  BY <1>1, <1>2, <1>3, <1>4, <1>5, <1>6, <1>7, <1>8, <1>9, <1>10 DEF Writer, WriterRuns

\* An event named by a request that finds none can never be committed.
LEMMA NamesStaySettled ==
  ASSUME SubmissionState, NEW w \in Writers, Writer(w), NEW v \in Writers
  PROVE  NamesAreSettled(v)'
<1> USE DEF TypeOK, WritersTyped
<1> DEFINE Known == {NoEvent, UnknownEvent} \cup {e.seq : e \in events}
<1>1. /\ TypeOK /\ WritersAreWellPlaced /\ NamesAreSettled(v) /\ NamesAreSettled(w)
      /\ events \subseteq events'
  BY EventsGrow DEF SubmissionState, SealingState, SealingIsInductive, SubmissionHolds
<1>2. Known \subseteq Known'
  BY <1>1
<1>3. CASE v # w
  <2>1. UNCHANGED <<pc[v], work[v], reply[v]>>
    <3>1. UNCHANGED <<pc[v], work[v]>>
      BY <1>1, <1>3, WriterTables
    <3>2. UNCHANGED reply[v]
      BY <1>1, <1>3, Replies
    <3> QED
      BY <3>1, <3>2, Zenon
  <2>2. Items(v)' = Items(v)
    BY <2>1 DEF Items
  <2> QED
    BY <1>1, <1>2, <2>1, <2>2 DEF NamesAreSettled
<1>4. CASE v = w
  <2>1. pc'[w] # "idle" =>
          \A i \in 1 .. Len(Items(w)') : Items(w)'[i].parent \in Known'
    <3>1. CASE Submit(w)
      <4>1. PICK c \in Calls :
              /\ \A i \in 1 .. Len(c.items) : c.items[i].parent \in Known
              /\ work'[w].call = c
        BY <1>1, <3>1 DEF Submit
      <4> QED
        BY <1>2, <4>1 DEF Items
    <3>2. CASE ~ Submit(w) /\ pc'[w] # "idle"
      <4>1. pc[w] # "idle" /\ work'[w].call = work[w].call
        BY <1>1, <3>2, WorkKeepsCall
      <4> QED
        BY <1>1, <1>2, <4>1 DEF NamesAreSettled, Items
    <3> QED
      BY <3>1, <3>2
  <2>2. ASSUME pc'[w] = "idle", reply'[w].status = "NOT_FOUND"
        PROVE  Items(w)'[1].parent \in {NoEvent, UnknownEvent}
    <3>1. LockParent(w) /\ WithSeq(Item(w).parent) = {} /\ UNCHANGED work /\ pc[w] = "parent"
      BY <1>1, <2>2, Refusals DEF LockParent
    <3>2. work[w].pos = 1 /\ work[w].call \in Calls
      BY <3>1, WorkParts DEF SubmissionState, SealingState, SealingIsInductive, SubmissionHolds,
                             WritersAreWellPlaced, IsWellPlaced, IsFresh
    <3>3. 1 \in 1 .. Len(Items(w)) /\ Item(w) = Items(w)[1]
      BY <3>2, CallFacts DEF Items, Item
    <3>4. Items(w)[1].parent \in Known
      BY <1>1, <3>1, <3>3 DEF NamesAreSettled
    <3> QED
      BY <3>1, <3>3, <3>4 DEF WithSeq, Items
  <2>3. pc'[w] = "idle" /\ reply'[w].results # << >> => reply'[w].status = "ok"
    <3>1. CASE \E e : IsReplayed(w, e)
      BY <3>1 DEF IsReplayed
    <3>2. CASE Commit(w) /\ reply'[w] = [status |-> "ok", results |-> work[w].results]
      BY <3>2
    <3>3. CASE reply'[w] = [status |-> reply'[w].status, results |-> << >>]
      BY <3>3
    <3> QED
      BY <1>1, <3>1, <3>2, <3>3, Replies
  <2> QED
    BY <1>4, <2>1, <2>2, <2>3 DEF NamesAreSettled
<1> QED
  BY <1>3, <1>4

-----------------------------------------------------------------------------
(***************************************************************************)
(* Lost races.                                                             *)
(***************************************************************************)

\* A request loses a race at an index only.
LEMMA RacesAreLostAtTheIndex ==
  ASSUME TypeOK, NEW w \in Writers, Writer(w), pc'[w] = "recheck"
  PROVE  /\ InsertRow(w) /\ pc[w] = "index" /\ UNCHANGED <<work, events>>
         /\ \E e \in events : Blocks(e, w)
<1> USE DEF TypeOK, WritersTyped
<1>a. \A status, results : Answer(w, status, results) => pc'[w] = "idle"
  BY DEF Answer
<1>b. \A label : Goto(w, label) => pc'[w] = label
  BY DEF Goto
<1>1. CASE Submit(w) \/ CheckExisting(w) \/ LockShared(w) \/ Scan(w) \/ DrawSequence(w)
  BY <1>a, <1>b, <1>1 DEF Submit, CheckExisting, AnswerFromRow, LockShared, Scan, DrawSequence
<1>2. CASE RecheckSingle(w) \/ RecheckBatch(w) \/ Commit(w)
  BY <1>a, <1>b, <1>2 DEF RecheckSingle, RecheckBatch, AnswerFromRow, Commit
<1>3. CASE LockParent(w) \/ CheckSuccessor(w) \/ DeadlockVictim(w) \/ WriterFault(w)
  BY <1>a, <1>b, <1>3 DEF LockParent, CheckSuccessor, DeadlockVictim, WriterFault, Reject
<1>4. CASE FoldItem(w)
  BY <1>a, <1>4 DEF FoldItem, Reject
<1>5. CASE InsertRow(w)
  BY <1>b, <1>5 DEF InsertRow, tables
<1> QED
  BY <1>1, <1>2, <1>3, <1>4, <1>5 DEF Writer, WriterRuns

\* The parent of a successor is locked, so only its key can be taken.
LEMMA RacesAreLostByKey ==
  ASSUME SubmissionState, NEW w \in Writers, pc[w] = "index", NEW e \in events, Blocks(e, w)
  PROVE  e.key = Item(w).key
<1>1. ItemsLeft(w) /\ HoldsItsParent(w)
  BY DEF SubmissionState, SubmissionHolds, SealingState, SealingIsInductive,
         WritersAreWellPlaced, IsWellPlaced
<1>2. Item(w).parent # NoEvent => e.parent # Item(w).parent
  BY <1>1 DEF HoldsItsParent, Successors
<1> QED
  BY <1>2 DEF Blocks

LEMMA LosersStillFindTheWinner ==
  ASSUME SubmissionState, NEW w \in Writers, Writer(w)
  PROVE  RaceLosersFindTheWinner'
<1>1. TypeOK /\ events \subseteq events'
  BY EventsGrow DEF SubmissionState, SealingState
<1>2. ASSUME NEW v \in Writers, pc'[v] = "recheck", work'[v].call.api = "single"
      PROVE  WithKey(Item(v).key)' # {}
  <2>1. CASE v # w
    <3>1. UNCHANGED <<pc[v], work[v]>>
      BY <1>1, <2>1, WriterTables
    <3>2. WithKey(Item(v).key) # {} /\ Item(v)' = Item(v)
      BY <1>2, <3>1 DEF SubmissionState, SubmissionHolds, RaceLosersFindTheWinner, Item, Items
    <3> QED
      BY <1>1, <3>2 DEF WithKey
  <2>2. CASE v = w
    <3>1. pc[w] = "index" /\ UNCHANGED <<work, events>> /\ \E e \in events : Blocks(e, w)
      BY <1>1, <1>2, <2>2, RacesAreLostAtTheIndex
    <3>2. \E e \in events : e.key = Item(w).key
      BY <3>1, RacesAreLostByKey
    <3>3. Item(w)' = Item(w)
      BY <3>1 DEF Item, Items
    <3> QED
      BY <2>2, <3>1, <3>2, <3>3 DEF WithKey
  <2> QED
    BY <2>1, <2>2
<1> QED
  BY <1>2 DEF RaceLosersFindTheWinner

\* A call has finitely many keys.
LEMMA KeysAreFinite ==
  ASSUME NEW items \in Seq(Submission), NEW K, \A k \in K : \E i \in 1 .. Len(items) : items[i].key = k
  PROVE  IsFiniteSet(K) /\ Cardinality(K) \in Nat
<1> DEFINE I == {i \in 1 .. Len(items) : items[i].key \in K}
           f == [i \in I |-> items[i].key]
<1>1. IsFiniteSet(I)
  <2>1. IsFiniteSet(1 .. Len(items))
    BY FS_Interval
  <2> QED
    BY <2>1, FS_Subset
<1>2. f \in Surjection(I, K)
  <2>1. f \in [I -> K]
    OBVIOUS
  <2>2. \A k \in K : \E i \in I : f[i] = k
    OBVIOUS
  <2> QED
    BY <2>1, <2>2, Fun_IsSurj
<1> QED
  BY <1>1, <1>2, FS_Surjection, FS_CardinalityType

\* The keys of a call that are taken.
Taken(w) == {k \in Keys : /\ WithKey(k) # {}
                          /\ \E i \in 1 .. Len(Items(w)) : Items(w)[i].key = k}

LEMMA TakenIsFinite ==
  ASSUME TypeOK, NEW w \in Writers
  PROVE  IsFiniteSet(Taken(w)) /\ Cardinality(Taken(w)) \in Nat
<1>1. Items(w) \in Seq(Submission)
  BY DEF TypeOK, WritersTyped, Items, Call
<1> QED
  BY <1>1, KeysAreFinite DEF Taken

LEMMA TakenIsFiniteAfter ==
  ASSUME TypeOK', NEW w \in Writers
  PROVE  IsFiniteSet(Taken(w)') /\ Cardinality(Taken(w)') \in Nat
<1>1. Items(w)' \in Seq(Submission)
  BY DEF TypeOK, WritersTyped, Items, Call
<1> QED
  BY <1>1, KeysAreFinite DEF Taken

\* Keys of the same call are taken for good.
LEMMA TakenGrows ==
  ASSUME TypeOK, TypeOK', NEW w \in Writers, events \subseteq events', work'[w].call = work[w].call
  PROVE  Taken(w) \subseteq Taken(w)' /\ Cardinality(Taken(w)) <= Cardinality(Taken(w)')
<1>1. Items(w)' = Items(w)
  BY DEF Items
<1>2. Taken(w) \subseteq Taken(w)'
  BY <1>1 DEF Taken, WithKey
<1> QED
  BY <1>2, TakenIsFiniteAfter, FS_Subset

\* A batch that loses a race has seen all the keys it lost before, and the key it loses
\* now is not among them.
LEMMA OneMoreKeyIsLost ==
  ASSUME SubmissionState, NEW w \in Writers, pc[w] = "index", work[w].call.api = "batch",
         NEW e \in events, Blocks(e, w)
  PROVE  Cardinality(Taken(w)) >= work[w].attempt
<1> DEFINE K == {r.key : r \in work[w].seen}
           k == Item(w).key
<1>1. /\ TypeOK /\ HasSeen(w) /\ \A r \in work[w].seen : r.key # k
      /\ ItemsLeft(w) /\ work[w].call \in Calls
  BY WorkParts DEF SubmissionState, SealingState, SubmissionHolds, SealingIsInductive,
                   WritersAreWellPlaced, IsWellPlaced, MayInsert
<1>2. K \subseteq Taken(w)
  BY <1>1 DEF HasSeen, RowsOfBatch, Taken, WithKey, TypeOK, TablesTyped, Row
<1>3. k \in Taken(w)
  <2>1. e.key = k
    BY RacesAreLostByKey
  <2>2. work[w].pos \in 1 .. Len(Items(w))
    BY <1>1, CallFacts DEF ItemsLeft, Items, TypeOK, WritersTyped
  <2> QED
    BY <1>1, <2>1, <2>2 DEF Taken, WithKey, TypeOK, TablesTyped, Row, Item
<1>4. k \notin K
  BY <1>1
<1>5. Cardinality(K) >= work[w].attempt - 1
  BY <1>1 DEF HasSeen
<1>6. IsFiniteSet(Taken(w)) /\ Cardinality(Taken(w)) \in Nat /\ work[w].attempt \in Nat
  BY <1>1, TakenIsFinite DEF TypeOK, WritersTyped
<1> HIDE DEF K, k
<1>7. IsFiniteSet(K) /\ Cardinality(K) \in Nat
  BY <1>2, <1>6, FS_Subset, FS_CardinalityType
<1>8. Cardinality(K \cup {k}) = Cardinality(K) + 1
  BY <1>4, <1>7, FS_AddElement
<1>9. Cardinality(K \cup {k}) <= Cardinality(Taken(w))
  <2>1. K \cup {k} \subseteq Taken(w)
    BY <1>2, <1>3
  <2> QED
    BY <1>6, <2>1, FS_Subset
<1>10. Cardinality(K \cup {k}) \in Nat
  BY <1>7, <1>8
<1> QED
  BY <1>5, <1>6, <1>7, <1>8, <1>9, <1>10

\* An attempt begins with the call, or with the loss of the one before.
LEMMA AttemptSteps ==
  ASSUME TypeOK, NEW w \in Writers, Writer(w), pc'[w] # "idle"
  PROVE  \/ work'[w].attempt = 1 /\ pc'[w] # "recheck"
         \/ /\ pc[w] = "recheck" /\ pc'[w] # "recheck"
            /\ work'[w].call = work[w].call /\ work'[w].attempt = work[w].attempt + 1
         \/ /\ pc[w] \notin {"idle", "recheck"}
            /\ work'[w].call = work[w].call /\ work'[w].attempt = work[w].attempt
<1> USE DEF TypeOK, WritersTyped
<1>a. \A status, results : Answer(w, status, results) => pc'[w] = "idle"
  BY DEF Answer
<1>b. \A label : Goto(w, label) => pc'[w] = label
  BY DEF Goto
<1>1. CASE Submit(w)
  BY <1>a, <1>b, <1>1 DEF Submit
<1>2. CASE RecheckBatch(w)
  BY <1>a, <1>b, <1>2 DEF RecheckBatch
<1>3. CASE CheckExisting(w) \/ LockShared(w) \/ Scan(w) \/ DrawSequence(w) \/ InsertRow(w)
  BY <1>3 DEF CheckExisting, LockShared, Scan, DrawSequence, InsertRow
<1>4. CASE LockParent(w) \/ CheckSuccessor(w) \/ FoldItem(w)
  BY <1>4 DEF LockParent, CheckSuccessor, FoldItem, Reject
<1>5. CASE RecheckSingle(w) \/ Commit(w) \/ DeadlockVictim(w) \/ WriterFault(w)
  BY <1>a, <1>5 DEF RecheckSingle, Commit, DeadlockVictim, WriterFault, AnswerFromRow, Reject
<1> QED
  BY <1>1, <1>2, <1>3, <1>4, <1>5 DEF Writer, WriterRuns

LEMMA LostKeysStayDistinct ==
  ASSUME SubmissionState, NEW w \in Writers, Writer(w), TypeOK'
  PROVE  LostAttemptsAreDistinctKeys'
<1>1. /\ TypeOK /\ WritersAreWellPlaced /\ events \subseteq events'
      /\ LostAttemptsAreDistinctKeys
  BY EventsGrow DEF SubmissionState, SealingState, SealingIsInductive, SubmissionHolds
<1>2. \A v \in Writers :
        /\ pc[v] # "idle" /\ work[v].call.api = "batch" =>
             Cardinality(Taken(v)) >= work[v].attempt - (IF pc[v] = "recheck" THEN 0 ELSE 1)
        /\ pc[v] = "idle" /\ reply[v].status = "INTEGRITY_ERROR" => Cardinality(Taken(v)) >= Attempts
  BY <1>1 DEF LostAttemptsAreDistinctKeys, Taken
<1>3. \A v \in Writers : /\ Cardinality(Taken(v)) \in Nat /\ Cardinality(Taken(v)') \in Nat
                         /\ work[v].attempt \in Nat /\ work'[v].attempt \in Nat
  BY <1>1, TakenIsFinite, TakenIsFiniteAfter DEF TypeOK, WritersTyped
<1>4. \A v \in Writers :
        work'[v].call = work[v].call => Cardinality(Taken(v)) <= Cardinality(Taken(v)')
  BY <1>1, TakenGrows
<1>5. ASSUME NEW v \in Writers
      PROVE  /\ pc'[v] # "idle" /\ work'[v].call.api = "batch" =>
                  Cardinality(Taken(v)') >= work'[v].attempt - (IF pc'[v] = "recheck" THEN 0 ELSE 1)
             /\ pc'[v] = "idle" /\ reply'[v].status = "INTEGRITY_ERROR" =>
                  Cardinality(Taken(v)') >= Attempts
  <2>1. CASE v # w
    <3>1. UNCHANGED <<pc[v], work[v], reply[v]>>
      BY <1>1, <2>1, WriterTables, Replies
    <3> QED
      BY <1>2, <1>3, <1>4, <3>1, BoundsAssumption
  <2>2. ASSUME v = w, pc'[w] # "idle", work'[w].call.api = "batch", pc'[w] = "recheck"
        PROVE  Cardinality(Taken(w)') >= work'[w].attempt
    <3>1. pc[w] = "index" /\ UNCHANGED <<work, events>> /\ \E e \in events : Blocks(e, w)
      BY <1>1, <2>2, RacesAreLostAtTheIndex
    <3>2. Cardinality(Taken(w)) >= work[w].attempt
      BY <2>2, <3>1, OneMoreKeyIsLost
    <3> QED
      BY <1>3, <1>4, <3>1, <3>2
  <2>3. ASSUME v = w, pc'[w] # "idle", work'[w].call.api = "batch", pc'[w] # "recheck"
        PROVE  Cardinality(Taken(w)') >= work'[w].attempt - 1
    <3>1. CASE work'[w].attempt = 1
      BY <1>3, <3>1
    <3>2. CASE /\ pc[w] = "recheck"
               /\ work'[w].call = work[w].call /\ work'[w].attempt = work[w].attempt + 1
      BY <1>2, <1>3, <1>4, <2>3, <3>2
    <3>3. CASE /\ pc[w] \notin {"idle", "recheck"}
               /\ work'[w].call = work[w].call /\ work'[w].attempt = work[w].attempt
      BY <1>2, <1>3, <1>4, <2>3, <3>3
    <3> QED
      BY <1>1, <2>3, <3>1, <3>2, <3>3, AttemptSteps
  <2>4. ASSUME v = w, pc'[w] = "idle", reply'[w].status = "INTEGRITY_ERROR"
        PROVE  Cardinality(Taken(w)') >= Attempts
    <3>1. /\ UNCHANGED work
          /\ \/ RecheckSingle(w) /\ WithKey(Item(w).key) = {}
             \/ RecheckBatch(w) /\ work[w].attempt >= Attempts
      BY <1>1, <2>4, Refusals
    <3>2. RecheckBatch(w) /\ work[w].attempt >= Attempts
      BY <3>1 DEF RecheckSingle, SubmissionState, SubmissionHolds, RaceLosersFindTheWinner
    <3>3. pc[w] = "recheck" /\ work[w].call.api = "batch"
      BY <3>2 DEF RecheckBatch
    <3> QED
      BY <1>2, <1>3, <1>4, <3>1, <3>2, <3>3, BoundsAssumption
  <2> QED
    BY <2>1, <2>2, <2>3, <2>4, <1>3
<1> QED
  BY <1>5 DEF LostAttemptsAreDistinctKeys, Taken

-----------------------------------------------------------------------------
(***************************************************************************)
(* What a caller was told stays true.                                      *)
(***************************************************************************)

\* A request whose work is done has one result per item.
LEMMA WorkIsDone ==
  ASSUME SubmissionState, NEW w \in Writers, Commit(w)
  PROVE  /\ ResultsFit(work[w].results, Items(w), inserted[w], events \cup inserted[w])
         /\ Len(work[w].results) = Len(Items(w))
         /\ events' = events \cup inserted[w] /\ UNCHANGED work
<1>1. /\ HasFit(w) /\ ~ ItemsLeft(w) /\ TypeOK /\ work[w].call \in Calls
      /\ events' = events \cup inserted[w] /\ UNCHANGED work
  BY WorkParts DEF Commit, SubmissionState, SubmissionHolds, SealingState,
                   SealingIsInductive, WritersAreWellPlaced, IsWellPlaced
<1>2. Len(Items(w)) \in Nat /\ Len(work[w].results) \in Nat
  BY <1>1, CallFacts DEF Items, TypeOK, WritersTyped
<1> QED
  BY <1>1, <1>2 DEF HasFit, ResultsFit, ItemsLeft

LEMMA AcceptancesStayTrue ==
  ASSUME SubmissionState, NEW w \in Writers, Writer(w), NEW v \in Writers, pc'[v] = "idle"
  PROVE  AcceptanceIsTrue(v)'
<1>1. /\ TypeOK /\ WritersAreWellPlaced /\ events \subseteq events'
      /\ \A n : WithSeq(n) \subseteq WithSeq(n)'
  BY EventsGrow DEF SubmissionState, SealingState, SealingIsInductive
<1>2. CASE v # w
  <2>1. UNCHANGED <<pc[v], work[v], reply[v]>>
    <3>1. UNCHANGED <<pc[v], work[v]>>
      BY <1>1, <1>2, WriterTables
    <3>2. UNCHANGED reply[v]
      BY <1>1, <1>2, Replies
    <3> QED
      BY <3>1, <3>2, Zenon
  <2>2. AcceptanceIsTrue(v) /\ Items(v)' = Items(v)
    BY <2>1 DEF SubmissionState, SubmissionHolds, AnswersHold, Items
  <2> QED
    BY <1>1, <2>1, <2>2 DEF AcceptanceIsTrue, WithSeq
<1>3. CASE v = w /\ Commit(w) /\ reply'[w] = [status |-> "ok", results |-> work[w].results]
  <2> DEFINE results == work[w].results
             items == Items(w)
  <2>1. /\ ResultsFit(results, items, inserted[w], events \cup inserted[w])
        /\ Len(results) = Len(items) /\ events' = events \cup inserted[w]
        /\ UNCHANGED work
    BY <1>3, WorkIsDone
  <2>2. \A i \in DOMAIN results :
          \E e \in events' : e.seq = results[i].seq /\ Fingerprint(e) = Fingerprint(items[i])
    BY <2>1 DEF ResultsFit
  <2>3. reply'[w].results = results /\ Items(w)' = items
    BY <1>3, <2>1 DEF Items
  <2> HIDE DEF results, items
  <2> QED
    BY <1>3, <2>1, <2>2, <2>3 DEF AcceptanceIsTrue, WithSeq
<1>4. CASE v = w /\ \E e : IsReplayed(w, e)
  <2>1. PICK e : IsReplayed(w, e)
    BY <1>4
  <2> DEFINE r == [seq |-> e.seq, created |-> FALSE]
  <2>2. /\ UNCHANGED <<work, events>> /\ e \in events
        /\ Fingerprint(e) = Fingerprint(Item(w))
        /\ reply'[w] = [status |-> "ok", results |-> <<r>>]
        /\ work[w].call.api = "single" /\ pc[w] \in {"check", "recheck"}
    BY <2>1 DEF IsReplayed, WithKey, SameContent
  <2>3. work[w].pos = 1 /\ work[w].call \in Calls
    BY <1>1, <2>2 DEF WritersAreWellPlaced, IsWellPlaced
  <2>4. Len(Items(w)) = 1 /\ Item(w) = Items(w)[1] /\ Items(w)' = Items(w)
    BY <2>2, <2>3, CallFacts DEF Items, Item
  <2>5. Len(<<r>>) = 1 /\ DOMAIN <<r>> = {1} /\ <<r>>[1].seq = e.seq
    OBVIOUS
  <2> HIDE DEF r
  <2> QED
    BY <1>4, <2>2, <2>4, <2>5 DEF AcceptanceIsTrue, WithSeq
<1>5. CASE v = w /\ reply'[w].status # "ok"
  BY <1>5 DEF AcceptanceIsTrue
<1> QED
  BY <1>1, <1>2, <1>3, <1>4, <1>5, Replies

\* Who waits for the row of a parent, and who has it, is at the only item of the call.
LEMMA AtTheFirstItem ==
  ASSUME SubmissionState, NEW w \in Writers,
         \/ pc[w] \in {"check", "parent", "successor"}
         \/ pc[w] = "recheck" /\ work[w].call.api = "single"
  PROVE  Item(w) = Items(w)[1] /\ work[w].call \in Calls /\ 1 \in 1 .. Len(Items(w))
<1>1. work[w].pos = 1 /\ work[w].call \in Calls
  BY WorkParts DEF SubmissionState, SubmissionHolds, SealingState, SealingIsInductive,
                   WritersAreWellPlaced, IsWellPlaced, IsFresh
<1> QED
  BY <1>1, CallFacts DEF Item, Items

\* A row of the same batch with another content means that the batch collides.
LEMMA FoldConflictIsReal ==
  ASSUME SubmissionState, NEW w \in Writers, FoldItem(w), NEW e \in Resolved(w),
         ~ SameContent(e, Item(w))
  PROVE  \/ Collides(Items(w))
         \/ \E i \in 1 .. Len(Items(w)) : \E f \in WithKey(Items(w)[i].key) :
              Fingerprint(f) # Fingerprint(Items(w)[i])
<1> DEFINE n == work[w].pos
<1>1. /\ HasFit(w) /\ HasSeen(w) /\ ItemsLeft(w) /\ TypeOK /\ work[w].call \in Calls
  BY WorkParts DEF FoldItem, SubmissionState, SubmissionHolds, SealingState,
                   SealingIsInductive, WritersAreWellPlaced, IsWellPlaced
<1>2. n \in 1 .. Len(Items(w)) /\ Item(w) = Items(w)[n]
  BY <1>1, CallFacts DEF ItemsLeft, Items, Item, TypeOK, WritersTyped
<1>3. e.key = Item(w).key /\ Fingerprint(e) # Fingerprint(Item(w))
  BY DEF Resolved, SameContent
<1>4. CASE e \in events
  BY <1>2, <1>3, <1>4 DEF WithKey
<1>5. CASE e \in inserted[w]
  <2>1. PICK i \in 1 .. Len(Items(w)) : Fingerprint(e) = Fingerprint(Items(w)[i])
    BY <1>1, <1>5 DEF HasFit, ResultsFit
  <2>2. Fingerprint(e).key = e.key /\ Fingerprint(Items(w)[i]).key = Items(w)[i].key
    BY DEF Fingerprint
  <2>3. Items(w)[i].key = Items(w)[n].key
    BY <1>2, <1>3, <2>1, <2>2
  <2> QED
    BY <1>2, <1>3, <2>1, <2>3 DEF Collides
<1> QED
  BY <1>1, <1>4, <1>5 DEF Resolved, HasSeen, RowsOfBatch

LEMMA RefusalsStayTrue ==
  ASSUME SubmissionState, NEW w \in Writers, Writer(w), SealingState',
         NEW v \in Writers, pc'[v] = "idle"
  PROVE  RefusalIsTrue(v)'
<1>1. /\ TypeOK /\ WritersAreWellPlaced /\ events \subseteq events'
      /\ \A n : WithSeq(n) \subseteq WithSeq(n)'
  BY EventsGrow DEF SubmissionState, SealingState, SealingIsInductive
<1>2. reply'[v].status = "NOT_FOUND" => WithSeq(Items(v)[1].parent)' = {}
  <2>1. NamesAreSettled(v)'
    BY NamesStaySettled
  <2>2. \A e \in events' : 0 < e.seq
    BY DEF SealingState, SealingIsInductive, NumbersLieAhead
  <2> QED
    BY <2>1, <2>2 DEF NamesAreSettled, WithSeq, NoEvent, UnknownEvent
<1>3. CASE v # w
  <2>1. UNCHANGED <<pc[v], work[v], reply[v]>>
    <3>1. UNCHANGED <<pc[v], work[v]>>
      BY <1>1, <1>3, WriterTables
    <3>2. UNCHANGED reply[v]
      BY <1>1, <1>3, Replies
    <3> QED
      BY <3>1, <3>2, Zenon
  <2>2. RefusalIsTrue(v) /\ Items(v)' = Items(v)
    BY <2>1 DEF SubmissionState, SubmissionHolds, AnswersHold, Items
  <2> QED
    BY <1>1, <1>2, <2>1, <2>2 DEF RefusalIsTrue, WithSeq, WithKey, Successors
<1>4. CASE v = w
  <2>1. ASSUME reply'[w].status = "RECORD_REVOKED"
        PROVE  \E e \in events' : /\ e.type = "revocation"
                                  /\ \E p \in WithSeq(Items(w)[1].parent)' : p.record = e.record
    <3>1. LockParent(w) /\ UNCHANGED <<work, events>> /\ pc[w] = "parent"
      BY <1>1, <1>4, <2>1, Refusals DEF LockParent, tables
    <3>2. PICK e \in WithSeq(Item(w).parent) : ~ MayBeFollowed(e)
      BY <1>1, <1>4, <2>1, Refusals
    <3>3. Item(w) = Items(w)[1] /\ Items(w)' = Items(w)
      BY <3>1, AtTheFirstItem DEF Items
    <3> QED
      BY <3>1, <3>2, <3>3 DEF WithSeq, MayBeFollowed
  <2>2. ASSUME reply'[w].status = "EVENT_ALREADY_SUPERSEDED"
        PROVE  Successors(Items(w)[1].parent)' # {}
    <3>1. /\ UNCHANGED <<work, events>> /\ Successors(Item(w).parent) # {}
          /\ pc[w] = "successor" \/ (pc[w] = "recheck" /\ work[w].call.api = "single")
      BY <1>1, <1>4, <2>2, Refusals DEF CheckSuccessor, RecheckSingle, tables
    <3>2. Item(w) = Items(w)[1] /\ Items(w)' = Items(w)
      BY <3>1, AtTheFirstItem DEF Items
    <3> QED
      BY <3>1, <3>2 DEF Successors
  <2>3. ASSUME reply'[w].status = "IDEMPOTENCY_CONFLICT"
        PROVE  \/ Collides(Items(w)')
               \/ \E i \in 1 .. Len(Items(w)') : \E e \in WithKey(Items(w)[i].key)' :
                    Fingerprint(e) # Fingerprint(Items(w)'[i])
    <3>1. CASE Collides(work'[w].call.items)
      BY <3>1 DEF Items
    <3>2. CASE /\ UNCHANGED work /\ (CheckExisting(w) \/ RecheckSingle(w))
               /\ \E e \in WithKey(Item(w).key) : ~ SameContent(e, Item(w))
      <4>1. PICK e \in WithKey(Item(w).key) : ~ SameContent(e, Item(w))
        BY <3>2
      <4>2. pc[w] = "check" \/ (pc[w] = "recheck" /\ work[w].call.api = "single")
        BY <3>2 DEF CheckExisting, RecheckSingle
      <4>3. Item(w) = Items(w)[1] /\ 1 \in 1 .. Len(Items(w)) /\ Items(w)' = Items(w)
        BY <3>2, <4>2, AtTheFirstItem DEF Items
      <4> QED
        BY <1>1, <4>1, <4>3 DEF WithKey, SameContent
    <3>3. CASE /\ UNCHANGED work /\ RecheckBatch(w)
               /\ \E i \in 1 .. Len(Items(w)) : \E e \in WithKey(Items(w)[i].key) :
                    ~ SameContent(e, Items(w)[i])
      <4>1. Items(w)' = Items(w)
        BY <3>3 DEF Items
      <4> QED
        BY <1>1, <3>3, <4>1 DEF WithKey, SameContent
    <3>4. CASE /\ UNCHANGED work /\ FoldItem(w)
               /\ \E e \in Resolved(w) : ~ SameContent(e, Item(w))
      <4>1. Items(w)' = Items(w)
        BY <3>4 DEF Items
      <4> QED
        BY <1>1, <3>4, <4>1, FoldConflictIsReal DEF WithKey
    <3> QED
      BY <1>1, <1>4, <2>3, <3>1, <3>2, <3>3, <3>4, Refusals
  <2> QED
    BY <1>2, <1>4, <2>1, <2>2, <2>3 DEF RefusalIsTrue
<1> QED
  BY <1>3, <1>4

\* What a request is told that it created is its own, until it commits, and no other's
\* since.
LEMMA CreatedStaysApart ==
  ASSUME SubmissionState, NEW w \in Writers, Writer(w),
         NEW v \in Writers, NEW x \in Writers, pc'[v] = "idle", pc'[x] = "idle"
  PROVE  CreatedApart(v, x)'
<1>1. TypeOK /\ WritersAreWellPlaced
  BY DEF SubmissionState, SealingState, SealingIsInductive
<1>2. ASSUME NEW y \in Writers \ {w}, pc'[y] = "idle"
      PROVE  UNCHANGED <<pc[y], reply[y], work[y]>>
  BY <1>1, <1>2, WriterTables, Replies
<1>3. CASE v # w /\ x # w
  <2>1. \/ reply[v].status = "ok" /\ CreatedApart(v, x)
        \/ reply[v].results = << >>
    BY <1>2, <1>3 DEF SubmissionState, SubmissionHolds, AnswersHold, NamesAreSettled
  <2> QED
    BY <1>2, <1>3, <2>1 DEF CreatedApart
<1>4. ASSUME ~ (Commit(w) /\ reply'[w] = [status |-> "ok", results |-> work[w].results]),
             pc'[w] = "idle"
      PROVE  \A i \in DOMAIN reply'[w].results : ~ reply'[w].results[i].created
  <2>1. CASE reply'[w] = [status |-> reply'[w].status, results |-> << >>]
    BY <2>1
  <2>2. CASE \E e : IsReplayed(w, e)
    BY <2>2 DEF IsReplayed
  <2> QED
    BY <1>1, <1>4, <2>1, <2>2, Replies
<1>5. CASE (v = w \/ x = w) /\ ~ (Commit(w) /\ reply'[w] = [status |-> "ok", results |-> work[w].results])
  BY <1>4, <1>5 DEF CreatedApart
<1>6. ASSUME Commit(w), reply'[w] = [status |-> "ok", results |-> work[w].results],
             NEW y \in Writers \ {w}, pc'[y] = "idle",
             NEW i \in DOMAIN reply'[w].results, NEW j \in DOMAIN reply'[y].results,
             reply'[w].results[i].created
      PROVE  reply'[w].results[i].seq # reply'[y].results[j].seq
  <2>1. PICK e \in inserted[w] : e.seq = reply'[w].results[i].seq
    BY <1>6, WorkIsDone DEF ResultsFit
  <2>2. reply'[y] = reply[y] /\ pc[y] = "idle"
    BY <1>2, <1>6
  <2>3. reply[y].status = "ok"
    BY <1>6, <2>2 DEF SubmissionState, SubmissionHolds, NamesAreSettled
  <2>4. PICK f \in events : f.seq = reply[y].results[j].seq
    BY <1>6, <2>2, <2>3 DEF SubmissionState, SubmissionHolds, AnswersHold, AcceptanceIsTrue,
                            WithSeq
  <2>5. e.seq # f.seq
    BY RowsAre DEF SubmissionState, SubmissionHolds, RowsAreUnique
  <2> QED
    BY <2>1, <2>2, <2>4, <2>5
<1>7. CASE Commit(w) /\ reply'[w] = [status |-> "ok", results |-> work[w].results]
        /\ v = w /\ x = w
  BY <1>7, WorkIsDone DEF ResultsFit, CreatedApart
<1>8. CASE Commit(w) /\ reply'[w] = [status |-> "ok", results |-> work[w].results]
        /\ v = w /\ x # w
  BY <1>6, <1>8 DEF CreatedApart
<1>9. CASE Commit(w) /\ reply'[w] = [status |-> "ok", results |-> work[w].results]
        /\ v # w /\ x = w
  BY <1>6, <1>9 DEF CreatedApart
<1> QED
  BY <1>3, <1>5, <1>7, <1>8, <1>9

LEMMA AnswersStayTrue ==
  ASSUME SubmissionState, NEW w \in Writers, Writer(w), SealingState'
  PROVE  AnswersHold'
  BY AcceptancesStayTrue, RefusalsStayTrue, CreatedStaysApart DEF AnswersHold

-----------------------------------------------------------------------------
(***************************************************************************)
(* The theorems.                                                           *)
(***************************************************************************)

\* What submission promises depends on the events and the writers only.
LEMMA SubmissionUntouched ==
  ASSUME SubmissionHolds, UNCHANGED <<events, rowLock, inserted, ticket, pc, work, reply>>
  PROVE  SubmissionHolds'
<1> USE DEF SubmissionHolds
<1>1. RowsAreUnique' /\ RowsExtendTheirLines'
  BY DEF RowsAreUnique, RowsExtendTheirLines, Rows, ExtendsItsLine, WithSeq
<1>2. \A w \in Writers : /\ Items(w)' = Items(w) /\ Item(w)' = Item(w)
                         /\ ItemsLeft(w)' = ItemsLeft(w) /\ RowsOfBatch(w)' = RowsOfBatch(w)
  BY DEF ItemsLeft, Item, Items, RowsOfBatch
<1>3. \A n : WithSeq(n)' = WithSeq(n) /\ WithKey(n)' = WithKey(n) /\ Successors(n)' = Successors(n)
  BY DEF WithSeq, WithKey, Successors
<1>4. ASSUME NEW w \in Writers PROVE HoldsItsParent(w)'
  <2>1. HoldsItsParent(w) /\ UNCHANGED <<Items(w), Item(w), ItemsLeft(w)>>
    BY <1>2
  <2> QED
    BY <2>1 DEF HoldsItsParent, WithSeq, Successors
<1>5. ASSUME NEW w \in Writers PROVE WorkIsExact(w)'
  <2>1. WorkIsExact(w) /\ UNCHANGED <<Items(w), Item(w), RowsOfBatch(w)>>
    BY <1>2
  <2>2. /\ UNCHANGED IsFresh(w) /\ UNCHANGED HasFit(w) /\ UNCHANGED HasSeen(w)
        /\ UNCHANGED MayInsert(w)
    BY <2>1 DEF IsFresh, HasFit, HasSeen, MayInsert
  <2> QED
    BY <2>1, <2>2, WorkParts, WorkPartsAfter
<1>6. ASSUME NEW w \in Writers PROVE NamesAreSettled(w)'
  BY <1>2 DEF NamesAreSettled
<1>7. RaceLosersFindTheWinner'
  BY <1>2 DEF RaceLosersFindTheWinner, WithKey
<1>8. AnswersHold'
  <2>1. \A w \in Writers : UNCHANGED <<AcceptanceIsTrue(w), RefusalIsTrue(w)>>
    BY <1>2 DEF AcceptanceIsTrue, RefusalIsTrue, WithSeq, WithKey, Successors
  <2>2. \A w, v \in Writers : UNCHANGED CreatedApart(w, v)
    BY DEF CreatedApart
  <2> QED
    BY <2>1, <2>2 DEF AnswersHold
<1>9. LostAttemptsAreDistinctKeys'
  <2>1. \A w \in Writers : Taken(w)' = Taken(w)
    BY <1>2 DEF Taken, WithKey
  <2> QED
    BY <2>1 DEF LostAttemptsAreDistinctKeys, Taken
<1> QED
  BY <1>1, <1>4, <1>5, <1>6, <1>7, <1>8, <1>9

LEMMA SubmissionInit == Init => SubmissionState
<1> SUFFICES ASSUME Init PROVE SubmissionState
  OBVIOUS
<1>1. SealingState
  BY SealingInit
<1>2. Rows = {}
  BY RowsAre DEF Init
<1>3. RowsAreUnique /\ RowsExtendTheirLines
  BY <1>2 DEF RowsAreUnique, RowsExtendTheirLines, Init
<1>4. ASSUME NEW w \in Writers PROVE HoldsItsParent(w) /\ WorkIsExact(w) /\ NamesAreSettled(w)
  BY DEF Init, HoldsItsParent, WorkIsExact, NamesAreSettled
<1>5. RaceLosersFindTheWinner /\ LostAttemptsAreDistinctKeys
  BY DEF Init, RaceLosersFindTheWinner, LostAttemptsAreDistinctKeys
<1>6. AnswersHold
  BY DEF Init, AnswersHold, AcceptanceIsTrue, RefusalIsTrue
<1> QED
  BY <1>1, <1>3, <1>4, <1>5, <1>6 DEF SubmissionState, SubmissionHolds

LEMMA SubmissionStep ==
  ASSUME SubmissionState, [Next]_vars
  PROVE  SubmissionState'
<1>1. SealingState'
  BY SealingStep DEF SubmissionState
<1>2. ASSUME NEW w \in Writers, Writer(w) PROVE SubmissionHolds'
  <2>1. TypeOK'
    BY <1>1 DEF SealingState
  <2>2. \A v \in Writers : HoldsItsParent(v)' /\ WorkIsExact(v)' /\ NamesAreSettled(v)'
    BY <1>2, ParentsStayHeld, WorkStaysExact, NamesStaySettled
  <2>3. RowsAreUnique' /\ RowsExtendTheirLines' /\ RaceLosersFindTheWinner' /\ AnswersHold'
    BY <1>1, <1>2, RowsStayUnique, LinesStay, LosersStillFindTheWinner, AnswersStayTrue
  <2>4. LostAttemptsAreDistinctKeys'
    BY <1>2, <2>1, LostKeysStayDistinct
  <2> QED
    BY <2>2, <2>3, <2>4 DEF SubmissionHolds
<1>3. ASSUME NEW s \in Sealers, Sealer(s) PROVE SubmissionHolds'
  <2>1. UNCHANGED <<events, rowLock, inserted, ticket, pc, work, reply>>
    BY <1>3 DEF Sealer, SealerRuns, TryLock, ReadPrevious, ReadBatch, ReadPrefix, Seal, SealerFault,
                tables, locks, writerVars
  <2> QED
    BY <2>1, SubmissionUntouched DEF SubmissionState
<1>4. ASSUME UNCHANGED vars PROVE SubmissionHolds'
  BY <1>4, SubmissionUntouched DEF SubmissionState, vars
<1>5. SubmissionHolds'
  BY <1>2, <1>3, <1>4 DEF Next
<1> QED
  BY <1>1, <1>5 DEF SubmissionState

\* Every reachable state is one in which submission keeps its promises, and can.
LEMMA SubmissionStateHolds == Spec => []SubmissionState
<1>1. Init => SubmissionState
  BY SubmissionInit
<1>2. SubmissionState /\ [Next]_vars => SubmissionState'
  BY SubmissionStep
<1> QED
  BY <1>1, <1>2, PTL DEF Spec

\* The inductive invariant of submission, for any number of requests and replicas: what
\* open transactions hold, know and have worked off.
THEOREM SubmissionInvariant == Spec => []SubmissionIsInductive
<1>1. SubmissionState => SubmissionIsInductive
  BY DEF SubmissionState, SealingState, SubmissionIsInductive
<1> QED
  BY <1>1, SubmissionStateHolds, PTL

\* The events of a record form one line, whatever revisions and revocations race.
THEOREM RecordsStayLines == Spec => []RecordsAreLines
<1>1. SubmissionState => RecordsAreLines
  <2> SUFFICES ASSUME SubmissionState, NEW e \in events
               PROVE  ExtendsItsLine(e) /\ (e.parent # NoEvent => Successors(e.parent) = {e})
    BY DEF RecordsAreLines
  <2>1. events \subseteq Rows /\ RowsExtendTheirLines /\ RowsAreUnique
    BY RowsAre DEF SubmissionState, SubmissionHolds
  <2> QED
    BY <2>1 DEF RowsExtendTheirLines, RowsAreUnique, Successors
<1> QED
  BY <1>1, SubmissionStateHolds, PTL

\* What a caller was told is true of the committed log, now and later.
THEOREM AnswersAreTrue == Spec => []AnswersHold
<1>1. SubmissionState => AnswersHold
  BY DEF SubmissionState, SubmissionHolds
<1> QED
  BY <1>1, SubmissionStateHolds, PTL

\* The loser of a race between single submissions finds the winner's row by its key:
\* the successor branch of the IntegrityError handlers is dead code.
THEOREM LosersFindTheWinner == Spec => []RaceLosersFindTheWinner
<1>1. SubmissionState => RaceLosersFindTheWinner
  BY DEF SubmissionState, SubmissionHolds
<1> QED
  BY <1>1, SubmissionStateHolds, PTL

\* A batch gives up only after races on as many of its keys as it has attempts.
THEOREM LostKeysAreDistinct == Spec => []LostAttemptsAreDistinctKeys
<1>1. SubmissionState => LostAttemptsAreDistinctKeys
  BY DEF SubmissionState, SubmissionHolds
<1> QED
  BY <1>1, SubmissionStateHolds, PTL

-----------------------------------------------------------------------------
(***************************************************************************)
(* Writers and sealers implement the append-only log.                      *)
(***************************************************************************)

\* Rows reach the table by a commit and by nothing else.
LEMMA OnlyCommitsAppend ==
  ASSUME NEW w \in Writers, Writer(w), events' # events
  PROVE  Commit(w)
BY DEF Writer, WriterRuns, Submit, CheckExisting, LockShared, Scan, LockParent, CheckSuccessor,
       FoldItem, DrawSequence, InsertRow, RecheckSingle, RecheckBatch, DeadlockVictim, WriterFault,
       tables

\* A commit leaves the call recorded as a whole: its rows record submissions of the call,
\* and each submission of the call is recorded by its rows or by earlier ones.
LEMMA CommitsAreWhole ==
  ASSUME SubmissionState, NEW w \in Writers, Commit(w)
  PROVE  LET call == work[w].call
         IN  /\ call \in Calls
             /\ {Fingerprint(e) : e \in events'} =
                  {Fingerprint(e) : e \in events}
                    \cup {Fingerprint(call.items[i]) : i \in 1 .. Len(call.items)}
<1>1. /\ ResultsFit(work[w].results, Items(w), inserted[w], events \cup inserted[w])
      /\ Len(work[w].results) = Len(Items(w))
      /\ events' = events \cup inserted[w]
  BY WorkIsDone
<1>2. HasFit(w) /\ work[w].call \in Calls /\ TypeOK
  BY WorkParts DEF Commit, SubmissionState, SubmissionHolds, SealingState, SealingIsInductive,
                   WritersAreWellPlaced, IsWellPlaced
<1>3. DOMAIN work[w].results = 1 .. Len(Items(w))
  BY <1>1, <1>2 DEF TypeOK, WritersTyped
<1>4. \A i \in 1 .. Len(Items(w)) : \E e \in events' : Fingerprint(e) = Fingerprint(Items(w)[i])
  BY <1>1, <1>3 DEF ResultsFit
<1>5. \A e \in inserted[w] : \E i \in 1 .. Len(Items(w)) : Fingerprint(e) = Fingerprint(Items(w)[i])
  BY <1>1 DEF ResultsFit
<1>6. {Fingerprint(e) : e \in inserted[w]} \subseteq {Fingerprint(Items(w)[i]) : i \in 1 .. Len(Items(w))}
  BY <1>5
<1>7. {Fingerprint(Items(w)[i]) : i \in 1 .. Len(Items(w))} \subseteq {Fingerprint(e) : e \in events'}
  BY <1>4
<1>8. {Fingerprint(e) : e \in events'} =
        {Fingerprint(e) : e \in events} \cup {Fingerprint(e) : e \in inserted[w]}
  BY <1>1
<1> QED
  BY <1>2, <1>6, <1>7, <1>8 DEF Items

LEMMA CommitAppends ==
  ASSUME SubmissionState, NEW w \in Writers, Writer(w), events' # events
  PROVE  Log!AppendCall
<1>1. /\ UNCHANGED checkpoints /\ events' = events \cup inserted[w]
      /\ events' \subseteq Rows
  BY WriterTables, RowsAfterStep DEF SubmissionState, SealingState
<1>2. ASSUME NEW e \in inserted[w]
      PROVE  /\ \A f \in Log!Sealed : f.seq < e.seq
             /\ \A f \in events' : f.key = e.key \/ f.seq = e.seq => f = e
             /\ IF e.parent = 0 THEN e.record = e.seq
                ELSE /\ \E p \in events :
                          /\ p.seq = e.parent /\ p.seq < e.seq
                          /\ p.record = e.record /\ p.type # "revocation"
                     /\ \A f \in events' : f.parent = e.parent => f = e
  <2>1. e \in Rows
    BY RowsAre
  <2>2. \A c \in checkpoints : c.last < e.seq /\ c.last \in Nat /\ e.seq \in Nat
    BY <2>1, RowsAreNumbered
    DEF SubmissionState, SealingState, SealingIsInductive, NumbersLieAhead, TypeOK, TablesTyped,
        Checkpoint
  <2>3. \A c \in checkpoints : \A f \in c.leaves : f.seq <= c.last /\ f.seq \in Nat
    BY RowsAre, RowsAreNumbered
    DEF SubmissionState, SealingState, SealingIsInductive, CheckpointsCoverTheirPrefix
  <2>4. \A f \in Log!Sealed : \E c \in checkpoints : f \in c.leaves
    BY DEF Log!Sealed
  <2>5. \A f \in Log!Sealed : f.seq < e.seq
    BY <2>2, <2>3, <2>4
  <2>6. /\ \A f \in events' : f.key = e.key \/ f.seq = e.seq => f = e
        /\ e.parent # 0 => \A f \in events' : f.parent = e.parent => f = e
    BY <1>1, <2>1 DEF SubmissionState, SubmissionHolds, RowsAreUnique, NoEvent
  <2>7. ExtendsItsLine(e)
    BY <2>1 DEF SubmissionState, SubmissionHolds, RowsExtendTheirLines
  <2> QED
    BY <2>5, <2>6, <2>7 DEF ExtendsItsLine, WithSeq, NoEvent
<1>3. \E batch \in {{Fingerprint(c.items[i]) : i \in 1 .. Len(c.items)} : c \in Calls} :
        {Fingerprint(e) : e \in events'} = {Fingerprint(e) : e \in events} \cup batch
  <2> DEFINE Asked(c) == {Fingerprint(c.items[i]) : i \in 1 .. Len(c.items)}
  <2>1. work[w].call \in Calls
        /\ {Fingerprint(e) : e \in events'} =
             {Fingerprint(e) : e \in events} \cup Asked(work[w].call)
    BY OnlyCommitsAppend, CommitsAreWhole, Zenon
  <2>2. Asked(work[w].call) \in {Asked(c) : c \in Calls}
    BY <2>1, Zenon
  <2> QED
    BY <2>1, <2>2, Zenon
<1> QED
  BY <1>1, <1>2, <1>3 DEF Log!AppendCall, Log!AppendEvents

LEMMA SealSeals ==
  ASSUME SealingState, NEW s \in Sealers, Sealer(s), checkpoints' # checkpoints
  PROVE  Log!SealPrefix
<1> DEFINE n == NewCheckpoint(s)
           prefixes == {c.leaves : c \in checkpoints}
           sealed == UNION prefixes
<1>1. /\ UNCHANGED events /\ spc[s] = "seal" /\ checkpoints' = checkpoints \cup {n}
  BY SealerTables
<1>2. /\ n.leaves = {e \in events : e.seq <= n.last} /\ Latest.last < n.last
      /\ n.last \in {e.seq : e \in n.leaves} /\ n.last \in Nat
  BY <1>1, NewCheckpointFacts DEF Checkpoint
<1>3. /\ \A c \in checkpoints : c.leaves = {e \in events : e.seq <= c.last} /\ c.last <= Latest.last
      /\ Latest.last \in Nat /\ \A c \in checkpoints : c.last \in Nat
      /\ \A e \in events : e.seq \in Nat
  BY LatestBoundary
  DEF SealingState, SealingIsInductive, CheckpointsCoverTheirPrefix, Checkpoint, TypeOK,
      TablesTyped, Row
<1> HIDE DEF n
<1>4. \A c \in checkpoints : c.leaves \subseteq n.leaves
  BY <1>2, <1>3
<1>5. {c.leaves : c \in checkpoints'} = prefixes \cup {n.leaves}
  BY <1>1
<1>6. UNION {c.leaves : c \in checkpoints'} = n.leaves
  BY <1>4, <1>5
<1>7. sealed \subseteq n.leaves /\ sealed # n.leaves
  <2>1. PICK e \in n.leaves : e.seq = n.last
    BY <1>2
  <2>2. \A c \in checkpoints : e \notin c.leaves
    BY <1>2, <1>3, <2>1
  <2> QED
    BY <1>4, <2>1, <2>2
<1>8. n.leaves \subseteq events /\ \A e \in n.leaves : \A f \in events : f.seq <= e.seq => f \in n.leaves
  BY <1>2, <1>3
<1> QED
  BY <1>1, <1>5, <1>6, <1>7, <1>8 DEF Log!SealPrefix, Log!Sealed

\* Every behaviour of writers and sealers, faults included, is one of the log: a commit
\* appends unsealed events only, all of a call or none, and a checkpoint seals a longer
\* prefix.
THEOREM LedgerImplementsLog == Spec => ImplementsLog
<1>1. Init => Log!Init
  BY DEF Init, Log!Init
<1>2. SubmissionState /\ [Next]_vars => [Log!Next]_(Log!logVars)
  <2> SUFFICES ASSUME SubmissionState, [Next]_vars, ~ UNCHANGED Log!logVars
               PROVE  Log!Next
    OBVIOUS
  <2>1. events' # events \/ checkpoints' # checkpoints
    BY DEF Log!logVars
  <2>2. ASSUME NEW w \in Writers, Writer(w) PROVE Log!Next
    BY <2>1, <2>2, CommitAppends, WriterTables DEF SubmissionState, SealingState, Log!Next
  <2>3. ASSUME NEW s \in Sealers, Sealer(s) PROVE Log!Next
    BY <2>1, <2>3, SealSeals, SealerTables DEF SubmissionState, Log!Next
  <2> QED
    BY <2>1, <2>2, <2>3 DEF Next, vars
<1> QED
  BY <1>1, <1>2, SubmissionStateHolds, PTL DEF Spec, ImplementsLog, Log!Spec

\* What a reader relies on: every sealed prefix is the beginning of the log, and stays it
\* whatever is appended later.
THEOREM SealedPrefixesAreClosed == Spec => []Log!PrefixesAreClosed
<1>1. SubmissionState => Log!PrefixesAreClosed
  <2> SUFFICES ASSUME SubmissionState, NEW c \in checkpoints
               PROVE  /\ c.leaves \subseteq events
                      /\ \A e \in c.leaves : \A f \in events \ c.leaves : e.seq < f.seq
    BY DEF Log!PrefixesAreClosed
  <2>1. c.leaves = {e \in events : e.seq <= c.last} /\ c.last \in Nat
    BY DEF SubmissionState, SealingState, SealingIsInductive, CheckpointsCoverTheirPrefix, TypeOK,
           TablesTyped, Checkpoint
  <2>2. \A e \in events : e.seq \in Nat
    BY DEF SubmissionState, SealingState, TypeOK, TablesTyped, Row
  <2> QED
    BY <2>1, <2>2
<1> QED
  BY <1>1, SubmissionStateHolds, PTL

=============================================================================
