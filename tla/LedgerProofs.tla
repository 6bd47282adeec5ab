---------------------------- MODULE LedgerProofs ----------------------------
(***************************************************************************)
(* Proofs about Ledger for every set of writers, sealers, keys and calls,  *)
(* every batch size and every bound: types are kept, and sealing is safe.  *)
(*                                                                         *)
(* The argument for sealing: a number is drawn only under the shared       *)
(* advisory lock, which is kept until the row is committed or gone, so     *)
(* while a sealer holds the lock exclusively no number is in flight and    *)
(* the tables stand still; every number drawn later lies above the         *)
(* boundary it seals.                                                      *)
(***************************************************************************)
EXTENDS Ledger, FiniteSetTheorems, WellFoundedInduction, TLAPS

(***************************************************************************)
(* Numbers and finite sets.                                                *)
(***************************************************************************)

\* A non-empty bounded set of naturals has a greatest element.
LEMMA GreatestExists ==
  ASSUME NEW S, S \subseteq Nat, S # {}, NEW b \in Nat, \A x \in S : x <= b
  PROVE  \E m \in S : \A x \in S : x <= m
<1> DEFINE T == {n \in Nat : \A x \in S : x <= n}
<1>1. T \subseteq Nat /\ T # {}
  OBVIOUS
<1>2. PICK m \in T : \A y \in T : ~ (<<y, m>> \in OpToRel(<, Nat))
  <2> HIDE DEF T
  <2> QED BY <1>1, WFMin, NatLessThanWellFounded
<1>3. \A y \in T : ~ (y < m)
  BY <1>2, <1>1 DEF OpToRel
<1>4. m \in S
  <2> SUFFICES ASSUME m \notin S PROVE FALSE
    OBVIOUS
  <2>1. PICK x \in S : TRUE
    OBVIOUS
  <2>2. m > 0 /\ m - 1 \in Nat
    BY <2>1
  <2>3. \A y \in S : y <= m - 1
    BY <2>2
  <2>4. m - 1 \in T
    BY <2>2, <2>3
  <2> QED BY <2>2, <2>4, <1>3
<1> QED BY <1>4

\* The oldest rows of a finite set are a set of its rows closed downwards.
LEMMA OldestIsPrefix ==
  ASSUME NEW S, IsFiniteSet(S), \A e \in S : e.seq \in Nat, NEW n \in Nat,
         NEW e \in Oldest(n, S), NEW f \in S, f.seq < e.seq
  PROVE  e \in S /\ f \in Oldest(n, S)
<1> DEFINE Below(x) == {g \in S : g.seq < x.seq}
<1>1. e \in S /\ Cardinality(Below(e)) < n
  BY DEF Oldest
<1>2. Below(f) \subseteq Below(e)
  BY <1>1
<1>3. IsFiniteSet(Below(e)) /\ IsFiniteSet(Below(f))
  BY FS_Subset
<1>4. Cardinality(Below(f)) <= Cardinality(Below(e))
  BY <1>2, <1>3, FS_Subset
<1>5. Cardinality(Below(f)) \in Nat /\ Cardinality(Below(e)) \in Nat
  BY <1>3, FS_CardinalityType
<1>6. Cardinality(Below(f)) < n
  BY <1>1, <1>4, <1>5
<1> QED BY <1>1, <1>6 DEF Oldest

\* The rows up to a boundary are the oldest ones, as many as there are.
LEMMA OldestOfBoundary ==
  ASSUME NEW S, IsFiniteSet(S), \A e \in S : e.seq \in Nat, NEW n \in Nat
  PROVE  LET P == {e \in S : e.seq <= n} IN Oldest(Cardinality(P), S) = P
<1> DEFINE P == {e \in S : e.seq <= n}
           Below(x) == {g \in S : g.seq < x.seq}
<1>1. IsFiniteSet(P) /\ Cardinality(P) \in Nat
  BY FS_Subset, FS_CardinalityType
<1>2. ASSUME NEW e \in P PROVE Cardinality(Below(e)) < Cardinality(P)
  <2>1. Below(e) \subseteq P /\ e \notin Below(e)
    OBVIOUS
  <2>2. IsFiniteSet(Below(e)) /\ Cardinality(Below(e)) <= Cardinality(P)
    BY <2>1, <1>1, FS_Subset
  <2>3. Cardinality(Below(e)) # Cardinality(P)
    BY <2>1, <1>1, FS_Subset
  <2> QED BY <2>2, <2>3, <1>1, FS_CardinalityType
<1>3. ASSUME NEW e \in S \ P PROVE Cardinality(P) <= Cardinality(Below(e))
  <2>1. P \subseteq Below(e)
    BY <1>3
  <2>2. IsFiniteSet(Below(e))
    BY FS_Subset
  <2> QED BY <2>1, <2>2, FS_Subset
<1>4. \A e \in S : Cardinality(Below(e)) \in Nat
  BY FS_Subset, FS_CardinalityType
<1>5. \A e \in S : e \in Oldest(Cardinality(P), S) <=> e \in P
  <2> TAKE e \in S
  <2>1. e \in Oldest(Cardinality(P), S) <=> Cardinality(Below(e)) < Cardinality(P)
    BY DEF Oldest
  <2> HIDE DEF P, Below
  <2>2. CASE e \in P
    BY <2>1, <2>2, <1>2
  <2>3. CASE e \notin P
    BY <2>1, <2>3, <1>1, <1>3, <1>4
  <2> QED BY <2>2, <2>3
<1>6. Oldest(Cardinality(P), S) \subseteq S /\ P \subseteq S
  BY DEF Oldest
<1> QED BY <1>5, <1>6

-----------------------------------------------------------------------------
(***************************************************************************)
(* Types.                                                                  *)
(***************************************************************************)

\* The item a running writer is at is a submission of one of the calls.
LEMMA ItemFacts ==
  ASSUME TypeOK, WritersAreWellPlaced, NEW w \in Writers, pc[w] # "idle", ItemsLeft(w)
  PROVE  /\ Item(w) \in Submission
         /\ work[w].pos \in 1 .. Len(Items(w))
         /\ work[w].call.api = "batch" => Item(w).type = "report"
         /\ work[w].call.api = "single" => Len(Items(w)) = 1
         /\ Item(w).type = "report" <=> Item(w).parent = NoEvent
         /\ Item(w).type = "revocation" <=> Item(w).instrument = NoInstrument
<1>1. work[w].call \in Calls
  BY DEF WritersAreWellPlaced, IsWellPlaced
<1>2. work[w].call \in Call /\ work[w].pos \in Nat \ {0}
  BY DEF TypeOK, WritersTyped
<1>3. Items(w) \in Seq(Submission) /\ work[w].pos \in 1 .. Len(Items(w))
  BY <1>2 DEF Call, Items, ItemsLeft
<1>4. Item(w) \in Submission
  BY <1>3 DEF Item
<1> QED BY <1>1, <1>3, <1>4, CallsAssumption DEF Item, Items

\* The row an insert adds is a row of the schema.
LEMMA NewRowType ==
  ASSUME TypeOK, WritersAreWellPlaced, NEW w \in Writers, pc[w] = "index"
  PROVE  NewRow(w) \in Row
<1>1. ItemsLeft(w) /\ pc[w] # "idle"
  BY DEF WritersAreWellPlaced, IsWellPlaced
<1>2. Item(w) \in Submission /\ ticket[w] \in Nat
  BY <1>1, ItemFacts DEF TypeOK, LocksTyped
<1>3. CASE Item(w).parent = NoEvent
  <2>1. Item(w).instrument \in Instruments
    BY <1>1, <1>2, <1>3, ItemFacts DEF Submission
  <2> QED BY <1>2, <1>3, <2>1 DEF NewRow, StoredInstrument, Row, Submission
<1>4. CASE Item(w).parent # NoEvent
  <2>1. WithSeq(Item(w).parent) # {}
    BY <1>1, <1>4 DEF WritersAreWellPlaced, IsWellPlaced
  <2>2. Parent(w) \in Row
    BY <2>1 DEF Parent, WithSeq, TypeOK, TablesTyped
  <2> QED BY <1>2, <1>4, <2>2 DEF NewRow, StoredInstrument, Row, Submission
<1> QED BY <1>3, <1>4

LEMMA TypeInit == Init => TypeOK
<1> SUFFICES ASSUME Init PROVE TypeOK
  OBVIOUS
<1>1. \A s \in Sealers : NoCheckpoint \in Checkpoint
  BY KeysAssumption DEF NoCheckpoint, Checkpoint, NoEvent
<1>2. [api |-> "single", items |-> << >>] \in Call
  BY DEF Call
<1>3. << >> \in Seq(Result)
  OBVIOUS
<1> QED BY <1>1, <1>2, <1>3 DEF Init, TypeOK, TablesTyped, LocksTyped, WritersTyped,
     SealersTyped, Labels, Statuses, NothingRead, NoEvent

\* Going to another statement, answering, and ending a transaction keep types.
LEMMA GotoType ==
  ASSUME WritersTyped, NEW w \in Writers, NEW label \in Labels, Goto(w, label)
  PROVE  pc' \in [Writers -> Labels]
         /\ reply' \in [Writers -> [status : Statuses, results : Seq(Result)]]
BY DEF WritersTyped, Goto

LEMMA AnswerType ==
  ASSUME WritersTyped, NEW w \in Writers, NEW status \in Statuses,
         NEW results \in Seq(Result), Answer(w, status, results)
  PROVE  pc' \in [Writers -> Labels]
         /\ reply' \in [Writers -> [status : Statuses, results : Seq(Result)]]
BY DEF WritersTyped, Answer, Labels

LEMMA EndTransactionType ==
  ASSUME LocksTyped, NEW w \in Writers, EndTransaction(w)
  PROVE  LocksTyped'
BY DEF LocksTyped, EndTransaction, NoEvent

LEMMA RejectType ==
  ASSUME LocksTyped, WritersTyped, NEW w \in Writers, NEW status \in Statuses,
         Reject(w, status), calls' \in Nat, faults' \in Nat
  PROVE  LocksTyped' /\ WritersTyped'
<1>1. LocksTyped'
  BY EndTransactionType DEF Reject
<1>2. << >> \in Seq(Result)
  OBVIOUS
<1>3. WritersTyped'
  BY <1>2, AnswerType DEF Reject, WritersTyped
<1> QED BY <1>1, <1>3

LEMMA TypeWriter ==
  ASSUME TypeOK, WritersAreWellPlaced, NEW w \in Writers, Writer(w)
  PROVE  TypeOK'
<1> USE DEF TypeOK
<1>0. << >> \in Seq(Result)
  OBVIOUS
<1>1. CASE Submit(w)
  <2>1. PICK c \in Calls :
          /\ work' = [work EXCEPT ![w] = [call |-> c, pos |-> 1, seen |-> {},
                                         results |-> << >>, attempt |-> 1]]
          /\ \/ Goto(w, "check") \/ Goto(w, "lock") \/ Answer(w, "IDEMPOTENCY_CONFLICT", << >>)
    BY <1>1 DEF Submit
  <2>2. c \in Call
    BY CallsAssumption
  <2>3. /\ pc' \in [Writers -> Labels]
        /\ reply' \in [Writers -> [status : Statuses, results : Seq(Result)]]
    BY <1>0, <2>1, GotoType, AnswerType DEF Labels, Statuses
  <2>4. work' \in [Writers -> [call : Call, pos : Nat \ {0}, seen : SUBSET Row,
                               results : Seq(Result), attempt : Nat \ {0}]]
    BY <1>0, <2>1, <2>2 DEF WritersTyped
  <2>5. WritersTyped'
    BY <1>1, <2>3, <2>4 DEF Submit, WritersTyped
  <2> QED BY <1>1, <2>5 DEF Submit, tables, locks, TablesTyped, LocksTyped, SealersTyped
<1>2. CASE CheckExisting(w)
  <2>1. \A e \in WithKey(Item(w).key) : <<[seq |-> e.seq, created |-> FALSE]>> \in Seq(Result)
    BY DEF WithKey, TablesTyped, Row, Result
  <2>2. WritersTyped'
    BY <1>0, <1>2, <2>1, GotoType, AnswerType
    DEF CheckExisting, WritersTyped, AnswerFromRow, Labels, Statuses
  <2> QED BY <1>2, <2>2 DEF CheckExisting, tables, locks, TablesTyped, LocksTyped, SealersTyped
<1>3. CASE LockShared(w)
  <2>1. WritersTyped'
    BY <1>3, GotoType DEF LockShared, WritersTyped, Labels
  <2>2. LocksTyped'
    BY <1>3 DEF LockShared, LocksTyped
  <2> QED BY <1>3, <2>1, <2>2 DEF LockShared, tables, TablesTyped, SealersTyped
<1>4. CASE Scan(w)
  <2>1. RowsOfBatch(w) \in SUBSET Row
    BY DEF RowsOfBatch, TablesTyped
  <2>2. WritersTyped'
    BY <1>4, <2>1, GotoType DEF Scan, WritersTyped, Labels
  <2> QED BY <1>4, <2>2 DEF Scan, tables, locks, TablesTyped, LocksTyped, SealersTyped
<1>5. CASE LockParent(w)
  <2>1. CASE /\ rowLock' = [rowLock EXCEPT ![w] = Item(w).parent]
             /\ Goto(w, "successor")
             /\ UNCHANGED <<shared, inserted, ticket, work>>
    <3>1. Item(w).parent \in Int
      BY <1>5, ItemFacts DEF LockParent, WritersAreWellPlaced, IsWellPlaced, Submission
    <3>2. WritersTyped'
      BY <1>5, <2>1, GotoType DEF LockParent, WritersTyped, Labels
    <3>3. LocksTyped'
      BY <2>1, <3>1 DEF LocksTyped
    <3> QED BY <1>5, <3>2, <3>3 DEF LockParent, tables, TablesTyped, SealersTyped
  <2>2. CASE Reject(w, "NOT_FOUND") \/ Reject(w, "RECORD_REVOKED")
    BY <1>5, <2>2, RejectType
    DEF LockParent, tables, TablesTyped, SealersTyped, WritersTyped, Statuses
  <2> QED BY <1>5, <2>1, <2>2 DEF LockParent
<1>6. CASE CheckSuccessor(w)
  <2>1. CASE Reject(w, "EVENT_ALREADY_SUPERSEDED") \/ Reject(w, "INSTRUMENT_MISMATCH")
    BY <1>6, <2>1, RejectType
    DEF CheckSuccessor, tables, TablesTyped, SealersTyped, WritersTyped, Statuses
  <2>2. CASE Goto(w, "insert") /\ UNCHANGED <<locks, work>>
    <3>1. WritersTyped'
      BY <1>6, <2>2, GotoType DEF CheckSuccessor, WritersTyped, Labels
    <3> QED BY <1>6, <2>2, <3>1
            DEF CheckSuccessor, tables, locks, TablesTyped, LocksTyped, SealersTyped
  <2> QED BY <1>6, <2>1, <2>2 DEF CheckSuccessor
<1>7. CASE FoldItem(w)
  <2>1. CASE Reject(w, "IDEMPOTENCY_CONFLICT")
    BY <1>7, <2>1, RejectType
    DEF FoldItem, tables, TablesTyped, SealersTyped, WritersTyped, Statuses
  <2>2. CASE \E e \in Resolved(w) :
               /\ work' = [work EXCEPT
                             ![w].results = Append(@, [seq |-> e.seq, created |-> FALSE]),
                             ![w].pos = @ + 1]
               /\ UNCHANGED <<locks, pc, reply>>
    <3>1. PICK e \in Resolved(w) :
            work' = [work EXCEPT ![w].results = Append(@, [seq |-> e.seq, created |-> FALSE]),
                                 ![w].pos = @ + 1]
      BY <2>2
    <3>2. [seq |-> e.seq, created |-> FALSE] \in Result
      BY DEF Resolved, WritersTyped, LocksTyped, Row, Result
    <3>3. work' \in [Writers -> [call : Call, pos : Nat \ {0}, seen : SUBSET Row,
                                 results : Seq(Result), attempt : Nat \ {0}]]
      BY <3>1, <3>2 DEF WritersTyped
    <3>4. WritersTyped'
      BY <1>7, <2>2, <3>3 DEF FoldItem, WritersTyped
    <3> QED BY <1>7, <2>2, <3>4
            DEF FoldItem, tables, locks, TablesTyped, LocksTyped, SealersTyped
  <2> QED BY <1>7, <2>1, <2>2 DEF FoldItem
<1>8. CASE DrawSequence(w)
  <2>1. WritersTyped'
    BY <1>8, GotoType DEF DrawSequence, WritersTyped, Labels
  <2>2. TablesTyped' /\ LocksTyped'
    BY <1>8 DEF DrawSequence, TablesTyped, LocksTyped
  <2> QED BY <1>8, <2>1, <2>2 DEF DrawSequence, SealersTyped
<1>9. CASE InsertRow(w)
  <2>1. CASE EndTransaction(w) /\ Goto(w, "recheck") /\ UNCHANGED work
    <3>1. WritersTyped' /\ LocksTyped'
      BY <1>9, <2>1, GotoType, EndTransactionType DEF InsertRow, WritersTyped, Labels
    <3> QED BY <1>9, <3>1 DEF InsertRow, tables, TablesTyped, SealersTyped
  <2>2. CASE /\ inserted' = [inserted EXCEPT ![w] = @ \cup {NewRow(w)}]
             /\ ticket' = [ticket EXCEPT ![w] = NoEvent]
             /\ work' = [work EXCEPT
                           ![w].results = Append(@, [seq |-> ticket[w], created |-> TRUE]),
                           ![w].pos = @ + 1]
             /\ Goto(w, "insert")
             /\ UNCHANGED <<shared, rowLock>>
    <3>1. NewRow(w) \in Row
      BY <1>9, NewRowType DEF InsertRow
    <3>2. [seq |-> ticket[w], created |-> TRUE] \in Result
      BY DEF LocksTyped, Result
    <3>3. work' \in [Writers -> [call : Call, pos : Nat \ {0}, seen : SUBSET Row,
                                 results : Seq(Result), attempt : Nat \ {0}]]
      BY <2>2, <3>2 DEF WritersTyped
    <3>4. WritersTyped'
      BY <1>9, <2>2, <3>3, GotoType DEF InsertRow, WritersTyped, Labels
    <3>5. LocksTyped'
      BY <2>2, <3>1 DEF LocksTyped, NoEvent
    <3> QED BY <1>9, <3>4, <3>5 DEF InsertRow, tables, TablesTyped, SealersTyped
  <2> QED BY <1>9, <2>1, <2>2 DEF InsertRow
<1>10. CASE Commit(w)
  <2>1. work[w].results \in Seq(Result)
    BY DEF WritersTyped
  <2>2. /\ pc' \in [Writers -> Labels]
        /\ reply' \in [Writers -> [status : Statuses, results : Seq(Result)]]
    <3>1. "ok" \in Statuses /\ "lost" \in Statuses
      BY DEF Statuses
    <3>2. CASE Answer(w, "ok", work[w].results)
      BY <2>1, <3>1, <3>2, AnswerType
    <3>3. CASE Answer(w, "lost", << >>)
      BY <1>0, <3>1, <3>3, AnswerType
    <3> QED BY <1>10, <3>2, <3>3 DEF Commit
  <2>4. WritersTyped'
    BY <1>10, <2>2 DEF Commit, WritersTyped
  <2>3. LocksTyped' /\ TablesTyped'
    BY <1>10, EndTransactionType DEF Commit, TablesTyped, LocksTyped
  <2> QED BY <1>10, <2>3, <2>4 DEF Commit, SealersTyped
<1>11. CASE RecheckSingle(w)
  <2>1. \A e \in WithKey(Item(w).key) : <<[seq |-> e.seq, created |-> FALSE]>> \in Seq(Result)
    BY DEF WithKey, TablesTyped, Row, Result
  <2>2. WritersTyped'
    BY <1>0, <1>11, <2>1, AnswerType DEF RecheckSingle, WritersTyped, AnswerFromRow, Statuses
  <2> QED BY <1>11, <2>2 DEF RecheckSingle, tables, locks, TablesTyped, LocksTyped, SealersTyped
<1>12. CASE RecheckBatch(w)
  <2>1. CASE /\ Answer(w, "IDEMPOTENCY_CONFLICT", << >>) \/ Answer(w, "INTEGRITY_ERROR", << >>)
             /\ UNCHANGED work
    <3>1. WritersTyped'
      BY <1>0, <1>12, <2>1, AnswerType DEF RecheckBatch, WritersTyped, Statuses
    <3> QED BY <1>12, <3>1
            DEF RecheckBatch, tables, locks, TablesTyped, LocksTyped, SealersTyped
  <2>2. CASE /\ work' = [work EXCEPT ![w] =
                           [call |-> @.call, pos |-> 1, seen |-> {}, results |-> << >>,
                            attempt |-> @.attempt + 1]]
             /\ Goto(w, "lock")
    <3>1. work' \in [Writers -> [call : Call, pos : Nat \ {0}, seen : SUBSET Row,
                                 results : Seq(Result), attempt : Nat \ {0}]]
      BY <1>0, <2>2 DEF WritersTyped
    <3>2. WritersTyped'
      BY <1>12, <2>2, <3>1, GotoType DEF RecheckBatch, WritersTyped, Labels
    <3> QED BY <1>12, <3>2
            DEF RecheckBatch, tables, locks, TablesTyped, LocksTyped, SealersTyped
  <2> QED BY <1>12, <2>1, <2>2 DEF RecheckBatch
<1>13. CASE DeadlockVictim(w)
  BY <1>13, RejectType
  DEF DeadlockVictim, tables, TablesTyped, SealersTyped, WritersTyped, Statuses
<1>14. CASE WriterFault(w)
  BY <1>14, RejectType
  DEF WriterFault, tables, TablesTyped, SealersTyped, WritersTyped, Statuses
<1> QED BY <1>1, <1>2, <1>3, <1>4, <1>5, <1>6, <1>7, <1>8, <1>9, <1>10, <1>11, <1>12, <1>13, <1>14
        DEF Writer, WriterRuns

-----------------------------------------------------------------------------
(***************************************************************************)
(* What a sealer finds.                                                    *)
(***************************************************************************)

\* Of two checkpoints, the one with the later boundary has more leaves.
LEMMA LaterHasMore ==
  ASSUME TypeOK, NumbersLieAhead, CheckpointsCoverTheirPrefix, BoundariesAreEvents,
         NEW c \in checkpoints, NEW d \in checkpoints, c.last < d.last
  PROVE  c.leaves \subseteq d.leaves /\ c.count < d.count
<1>1. /\ c.leaves = {e \in events : e.seq <= c.last}
      /\ d.leaves = {e \in events : e.seq <= d.last}
      /\ c.count = Cardinality(c.leaves) /\ d.count = Cardinality(d.leaves)
  BY DEF CheckpointsCoverTheirPrefix
<1>2. c.last \in Nat /\ d.last \in Nat /\ \A e \in events : e.seq \in Nat
  BY DEF TypeOK, TablesTyped, Checkpoint, Row
<1>3. c.leaves \subseteq d.leaves
  BY <1>1, <1>2
<1>4. PICK e \in d.leaves : e.seq = d.last
  BY DEF BoundariesAreEvents
<1>5. e \notin c.leaves
  BY <1>1, <1>2, <1>4
<1>6. IsFiniteSet(d.leaves) /\ IsFiniteSet(c.leaves)
  BY <1>1, FS_Subset DEF NumbersLieAhead
<1>7. Cardinality(c.leaves) <= Cardinality(d.leaves) /\ Cardinality(c.leaves) # Cardinality(d.leaves)
  BY <1>3, <1>4, <1>5, <1>6, FS_Subset
<1>8. Cardinality(c.leaves) \in Nat /\ Cardinality(d.leaves) \in Nat
  BY <1>6, FS_CardinalityType
<1> QED BY <1>1, <1>3, <1>7, <1>8

\* ORDER BY leaf_count DESC LIMIT 1 finds the checkpoint with the last boundary.
LEMMA LatestIsLast ==
  ASSUME TypeOK, NumbersLieAhead, CheckpointsCoverTheirPrefix, BoundariesAreEvents,
         checkpoints # {}
  PROVE  Latest \in checkpoints /\ \A d \in checkpoints : d.last <= Latest.last
<1> DEFINE counts == {c.count : c \in checkpoints}
<1>1. counts \subseteq Nat /\ counts # {}
  BY DEF TypeOK, TablesTyped, Checkpoint
<1>2. Cardinality(events) \in Nat
  BY FS_CardinalityType DEF NumbersLieAhead
<1>3. ASSUME NEW c \in checkpoints PROVE c.count <= Cardinality(events)
  <2>1. c.leaves \subseteq events /\ c.count = Cardinality(c.leaves)
    BY DEF CheckpointsCoverTheirPrefix
  <2> QED BY <2>1, FS_Subset DEF NumbersLieAhead
<1>4. \E m \in counts : \A x \in counts : x <= m
  <2>1. \A x \in counts : x <= Cardinality(events)
    BY <1>3
  <2> HIDE DEF counts
  <2> QED BY <1>1, <1>2, <2>1, GreatestExists
<1>5. \E c \in checkpoints : \A d \in checkpoints : d.count <= c.count
  BY <1>4
<1>6. Latest \in checkpoints /\ \A d \in checkpoints : d.count <= Latest.count
  BY <1>5 DEF Latest
<1>7. ASSUME NEW d \in checkpoints PROVE d.last <= Latest.last
  <2>1. d.last \in Nat /\ Latest.last \in Nat /\ d.count \in Nat /\ Latest.count \in Nat
    BY <1>6 DEF TypeOK, TablesTyped, Checkpoint
  <2>2. CASE Latest.last < d.last
    <3>1. Latest.count < d.count
      BY <1>6, <2>2, LaterHasMore
    <3> QED BY <1>6, <2>1, <3>1
  <2> QED BY <2>1, <2>2
<1> QED BY <1>6, <1>7

\* With or without a checkpoint, `previous` describes the sealed prefix.
LEMMA LatestBoundary ==
  ASSUME TypeOK, NumbersLieAhead, CheckpointsCoverTheirPrefix, BoundariesAreEvents,
         NEW s \in Sealers
  PROVE  /\ Latest \in Checkpoint
         /\ Latest.last < nextSeq
         /\ Latest.leaves = {e \in events : e.seq <= Latest.last}
         /\ Latest.count = Cardinality(Latest.leaves)
         /\ \A d \in checkpoints : d.last <= Latest.last
<1>1. CASE checkpoints = {}
  <2>1. Latest = NoCheckpoint /\ NoCheckpoint \in Checkpoint
    BY <1>1, KeysAssumption DEF Latest, NoCheckpoint, Checkpoint, NoEvent
  <2>2. Latest.last = 0 /\ Latest.leaves = {} /\ Latest.count = 0
    BY <2>1 DEF NoCheckpoint, NoEvent
  <2>3. \A e \in events : 0 < e.seq /\ e.seq \in Nat
    BY DEF NumbersLieAhead, TypeOK, TablesTyped, Row
  <2>4. {e \in events : e.seq <= 0} = {}
    BY <2>3
  <2>5. nextSeq \in Nat \ {0}
    BY DEF TypeOK, TablesTyped
  <2> QED BY <1>1, <2>1, <2>2, <2>4, <2>5, FS_EmptySet
<1>2. CASE checkpoints # {}
  <2>1. Latest \in checkpoints /\ \A d \in checkpoints : d.last <= Latest.last
    BY <1>2, LatestIsLast
  <2> QED BY <2>1 DEF TypeOK, TablesTyped, NumbersLieAhead, CheckpointsCoverTheirPrefix
<1> QED BY <1>1, <1>2

\* The batch a sealer has read runs without a hole from the sealed prefix to
\* its own last number.
LEMMA BatchIsInterval ==
  ASSUME TypeOK, NumbersLieAhead, CheckpointsCoverTheirPrefix, BoundariesAreEvents,
         ReadsAgree, NEW s \in Sealers, spc[s] \in {"prefix", "seal"}
  PROVE  LET target == LastSeq(read[s].batch)
         IN  /\ target \in Nat /\ Latest.last < target /\ target < nextSeq
             /\ target \in {e.seq : e \in events}
             /\ read[s].batch = {e \in events : Latest.last < e.seq /\ e.seq <= target}
<1> DEFINE batch == read[s].batch
           new == {e \in events : e.seq > Latest.last}
           numbers == {e.seq : e \in batch}
           target == LastSeq(batch)
<1>1. read[s].previous = Latest /\ batch = Oldest(BatchSize, new) /\ batch # {}
  BY DEF ReadsAgree
<1>2. batch \subseteq new /\ new \subseteq events /\ IsFiniteSet(new)
  <2>1. new \subseteq events
    OBVIOUS
  <2> QED BY <1>1, <2>1, FS_Subset DEF Oldest, NumbersLieAhead
<1>3. \A e \in events : e.seq \in Nat /\ e.seq < nextSeq
  BY DEF TypeOK, TablesTyped, Row, NumbersLieAhead
<1>4. nextSeq \in Nat /\ Latest.last \in Nat
  BY LatestBoundary DEF TypeOK, TablesTyped, Checkpoint
<1>5. numbers \subseteq Nat /\ numbers # {} /\ \A n \in numbers : n <= nextSeq
  BY <1>1, <1>2, <1>3, <1>4
<1>6. \E m \in numbers : \A n \in numbers : n <= m
  <2> HIDE DEF numbers
  <2> QED BY <1>4, <1>5, GreatestExists
<1>7. target \in numbers /\ \A e \in batch : e.seq <= target
  BY <1>6 DEF LastSeq
<1>8. PICK l \in batch : l.seq = target
  BY <1>7
<1>9. target \in Nat /\ Latest.last < target /\ target < nextSeq /\ target \in {e.seq : e \in events}
  BY <1>2, <1>3, <1>4, <1>8
<1>10. ASSUME NEW f \in events, Latest.last < f.seq, f.seq <= target PROVE f \in batch
  <2>1. f \in new
    BY <1>3, <1>4, <1>10
  <2>2. CASE f.seq < l.seq
    <3> HIDE DEF new
    <3> QED BY <1>1, <1>2, <1>3, <1>8, <2>1, <2>2, OldestIsPrefix, BoundsAssumption
  <2>3. CASE f.seq = l.seq
    <3> DEFINE Below(x) == {g \in new : g.seq < x.seq}
    <3>1. Below(f) = Below(l)
      BY <2>3
    <3>2. Cardinality(Below(l)) < BatchSize
      BY <1>1 DEF Oldest
    <3>3. Cardinality(Below(f)) < BatchSize
      <4> HIDE DEF Below
      <4> QED BY <3>1, <3>2
    <3> QED BY <1>1, <2>1, <3>3 DEF Oldest
  <2> QED BY <1>3, <1>8, <1>9, <1>10, <2>2, <2>3
<1>11. batch = {e \in events : Latest.last < e.seq /\ e.seq <= target}
  BY <1>2, <1>3, <1>4, <1>7, <1>10
<1> QED BY <1>9, <1>11

\* The state every step starts from.
SealingState == TypeOK /\ SealingIsInductive

\* Nothing a sealer checks can fail but the lookup of a key.
LEMMA VerdictFacts ==
  ASSUME SealingState, NEW s \in Sealers, spc[s] = "seal"
  PROVE  Verdict(s) \in {"sealed", "UNKNOWN_KEY_VERSION"}
<1> USE DEF SealingState, SealingIsInductive
<1> DEFINE batch == read[s].batch
           prefix == read[s].prefix
           target == LastSeq(batch)
           old == Latest.leaves
<1>1. /\ read[s].previous = Latest
      /\ prefix = {e \in events : e.seq <= target}
  BY DEF ReadsAgree
<1>2. /\ target \in Nat /\ Latest.last < target
      /\ batch = {e \in events : Latest.last < e.seq /\ e.seq <= target}
  BY BatchIsInterval
<1>3. /\ Latest.last \in Nat
      /\ old = {e \in events : e.seq <= Latest.last}
      /\ Latest.count = Cardinality(old)
      /\ \A d \in checkpoints : d.last <= Latest.last
  BY LatestBoundary DEF Checkpoint
<1>4. \A e \in events : e.seq \in Nat
  BY DEF TypeOK, TablesTyped, Row
<1>5. IsFiniteSet(prefix) /\ IsFiniteSet(old) /\ IsFiniteSet(batch)
  BY <1>1, <1>2, <1>3, FS_Subset DEF NumbersLieAhead
<1>6. Cardinality(prefix) = Latest.count + Cardinality(batch)
  <2>1. prefix = old \cup batch /\ old \cap batch = {}
    BY <1>1, <1>2, <1>3, <1>4
  <2>2. Cardinality(old \cup batch) = Cardinality(old) + Cardinality(batch) - Cardinality(old \cap batch)
    BY <1>5, FS_Union
  <2>3. Cardinality(old) \in Nat /\ Cardinality(batch) \in Nat /\ Cardinality({}) = 0
    BY <1>5, FS_CardinalityType, FS_EmptySet
  <2>4. Latest.count = Cardinality(old)
    BY <1>3
  <2> HIDE DEF prefix, old, batch
  <2>5. Cardinality(prefix) = Cardinality(old \cup batch) /\ Cardinality(old \cap batch) = 0
    BY <2>1, <2>3
  <2> QED BY <2>2, <2>3, <2>4, <2>5
<1>7. Oldest(Latest.count, prefix) = old
  <2> DEFINE P == {e \in prefix : e.seq <= Latest.last}
  <2>1. P = old
    BY <1>1, <1>2, <1>3, <1>4
  <2>2. \A e \in prefix : e.seq \in Nat
    BY <1>1, <1>4
  <2>3. Oldest(Cardinality(P), prefix) = P
    <3> HIDE DEF prefix
    <3> QED BY <1>3, <1>5, <2>2, OldestOfBoundary
  <2> HIDE DEF P
  <2> QED BY <1>3, <2>1, <2>3
<1>8. ASSUME NEW d \in checkpoints
      PROVE  /\ d.count # Cardinality(prefix)
             /\ d.last # target
             /\ d.previous # Latest.last \/ Latest.last = NoEvent
  <2>1. d.last \in Nat /\ d.previous \in Nat /\ d.last <= Latest.last /\ d.previous < d.last
    BY <1>3 DEF TypeOK, TablesTyped, Checkpoint, BoundariesAreEvents
  <2>2. d.last # target /\ d.previous # Latest.last
    BY <1>2, <1>3, <2>1
  <2>3. d.leaves = {e \in events : e.seq <= d.last} /\ d.count = Cardinality(d.leaves)
    BY DEF CheckpointsCoverTheirPrefix
  <2>4. PICK e \in batch : TRUE
    BY DEF ReadsAgree
  <2>5. e \in prefix /\ e \notin d.leaves /\ d.leaves \subseteq prefix
    BY <1>1, <1>2, <1>3, <1>4, <2>1, <2>3, <2>4
  <2>6. Cardinality(d.leaves) # Cardinality(prefix)
    BY <1>5, <2>5, FS_Subset
  <2> QED BY <2>2, <2>3, <2>6
<1> HIDE DEF batch, prefix, target, old
<1>9. /\ NewCheckpoint(s).count = Cardinality(prefix)
      /\ NewCheckpoint(s).last = target
      /\ NewCheckpoint(s).previous = Latest.last
  BY <1>1 DEF NewCheckpoint, prefix, target, batch
<1> QED BY <1>1, <1>6, <1>7, <1>8, <1>9 DEF Verdict, prefix, old, batch

\* The checkpoint a sealer inserts.
LEMMA NewCheckpointFacts ==
  ASSUME SealingState, NEW s \in Sealers, spc[s] = "seal"
  PROVE  LET c == NewCheckpoint(s)
         IN  /\ c \in Checkpoint
             /\ 0 < c.last /\ c.last < nextSeq /\ Latest.last < c.last
             /\ c.leaves = {e \in events : e.seq <= c.last}
             /\ c.count = Cardinality(c.leaves)
             /\ c.last \in {e.seq : e \in c.leaves}
             /\ c.previous = Latest.last /\ c.previousLeaves = Latest.leaves
             /\ Latest.leaves \subseteq c.leaves /\ Latest.count < c.count
<1> USE DEF SealingState, SealingIsInductive
<1> DEFINE c == NewCheckpoint(s)
           batch == read[s].batch
           target == LastSeq(batch)
<1>1. /\ read[s].previous = Latest
      /\ read[s].prefix = {e \in events : e.seq <= target}
  BY DEF ReadsAgree
<1>2. /\ target \in Nat /\ Latest.last < target /\ target < nextSeq
      /\ target \in {e.seq : e \in events}
  BY BatchIsInterval
<1>3. /\ Latest.last \in Nat /\ Latest.leaves \subseteq Row
      /\ Latest.leaves = {e \in events : e.seq <= Latest.last}
      /\ Latest.count = Cardinality(Latest.leaves)
  BY LatestBoundary DEF Checkpoint
<1>4. /\ c.last = target /\ c.leaves = read[s].prefix /\ c.count = Cardinality(c.leaves)
      /\ c.previous = Latest.last /\ c.previousLeaves = Latest.leaves
  BY <1>1 DEF NewCheckpoint
<1>5. \A e \in events : e.seq \in Nat
  BY DEF TypeOK, TablesTyped, Row
<1>6. IsFiniteSet(c.leaves) /\ IsFiniteSet(Latest.leaves)
  BY <1>1, <1>3, <1>4, FS_Subset DEF NumbersLieAhead
<1>7. c.count \in Nat /\ Latest.count \in Nat
  BY <1>3, <1>4, <1>6, FS_CardinalityType
<1>8. c \in Checkpoint
  <2>1. read[s].prefix \subseteq Row
    BY DEF TypeOK, SealersTyped
  <2> QED BY <1>1, <1>2, <1>3, <1>4, <1>7, <2>1, KeysAssumption DEF NewCheckpoint, Checkpoint
<1>9. PICK e \in events : e.seq = target
  BY <1>2
<1>10. e \in c.leaves /\ e \notin Latest.leaves /\ Latest.leaves \subseteq c.leaves
  BY <1>1, <1>2, <1>3, <1>4, <1>5, <1>9
<1>11. Latest.count < c.count
  <2>1. Cardinality(Latest.leaves) <= Cardinality(c.leaves)
        /\ Cardinality(Latest.leaves) # Cardinality(c.leaves)
    BY <1>6, <1>10, FS_Subset
  <2> QED BY <1>3, <1>4, <1>7, <2>1
<1> HIDE DEF c
<1> QED BY <1>1, <1>2, <1>3, <1>4, <1>8, <1>9, <1>10, <1>11 DEF c

-----------------------------------------------------------------------------
(***************************************************************************)
(* Steps of a sealer.                                                      *)
(***************************************************************************)

LEMMA EndSealType ==
  ASSUME SealersTyped, NEW s \in Sealers, NEW result, EndSeal(s, result),
         result \in {"none", "busy", "idle", "sealed", "lost", "UNKNOWN_KEY_VERSION",
                     "EVENT_SEQUENCE_CORRUPT", "CHECKPOINT_CORRUPT", "INTEGRITY_ERROR"}
  PROVE  SealersTyped'
<1>1. NothingRead \in [previous : Checkpoint, batch : SUBSET Row, prefix : SUBSET Row]
  BY KeysAssumption DEF NothingRead, NoCheckpoint, Checkpoint, NoEvent
<1>2. read' \in [Sealers -> [previous : Checkpoint, batch : SUBSET Row, prefix : SUBSET Row]]
  BY <1>1 DEF EndSeal, SealersTyped
<1> QED BY <1>2 DEF EndSeal, SealersTyped

LEMMA TypeSealer ==
  ASSUME SealingState, NEW s \in Sealers, Sealer(s)
  PROVE  TypeOK'
<1> USE DEF TypeOK, SealingState
<1>1. CASE TryLock(s)
  <2>1. SealersTyped'
    BY <1>1, EndSealType DEF TryLock, SealersTyped
  <2> QED BY <1>1, <2>1
          DEF TryLock, tables, locks, writerVars, TablesTyped, LocksTyped, WritersTyped
<1>2. CASE ReadPrevious(s)
  <2>1. Latest \in Checkpoint
    BY LatestBoundary DEF SealingIsInductive
  <2>2. SealersTyped'
    BY <1>2, <2>1 DEF ReadPrevious, SealersTyped
  <2> QED BY <1>2, <2>2
          DEF ReadPrevious, tables, locks, writerVars, TablesTyped, LocksTyped, WritersTyped
<1>3. CASE ReadBatch(s)
  <2> DEFINE new == Oldest(BatchSize, {e \in events : e.seq > read[s].previous.last})
  <2>1. new \in SUBSET Row
    BY DEF Oldest, TablesTyped
  <2> HIDE DEF new
  <2>2. SUFFICES SealersTyped'
    BY <1>3, <2>2
    DEF ReadBatch, tables, locks, writerVars, TablesTyped, LocksTyped, WritersTyped
  <2>3. CASE EndSeal(s, "idle")
    BY <2>3, EndSealType
  <2>4. CASE /\ read' = [read EXCEPT ![s].batch = new]
             /\ spc' = [spc EXCEPT ![s] = "prefix"]
             /\ UNCHANGED <<exclusive, outcome>>
    BY <2>1, <2>4 DEF SealersTyped
  <2> QED BY <1>3, <2>3, <2>4 DEF ReadBatch, new
<1>4. CASE ReadPrefix(s)
  <2> DEFINE prefix == {e \in events : e.seq <= LastSeq(read[s].batch)}
  <2>1. prefix \in SUBSET Row
    BY DEF TablesTyped
  <2> HIDE DEF prefix
  <2>2. read' = [read EXCEPT ![s].prefix = prefix]
    BY <1>4 DEF ReadPrefix, prefix
  <2>3. SealersTyped'
    BY <1>4, <2>1, <2>2 DEF ReadPrefix, SealersTyped
  <2> QED BY <1>4, <2>3
          DEF ReadPrefix, tables, locks, writerVars, TablesTyped, LocksTyped, WritersTyped
<1>5. CASE Seal(s)
  <2>1. Verdict(s) \in {"sealed", "UNKNOWN_KEY_VERSION"} /\ NewCheckpoint(s) \in Checkpoint
    BY <1>5, VerdictFacts, NewCheckpointFacts DEF Seal
  <2>2. SealersTyped'
    BY <1>5, <2>1, EndSealType DEF Seal
  <2>3. TablesTyped'
    BY <1>5, <2>1 DEF Seal, TablesTyped
  <2> QED BY <1>5, <2>2, <2>3 DEF Seal, locks, writerVars, LocksTyped, WritersTyped
<1>6. CASE SealerFault(s)
  <2>1. SealersTyped'
    BY <1>6, EndSealType DEF SealerFault
  <2> QED BY <1>6, <2>1
          DEF SealerFault, tables, locks, writerVars, TablesTyped, LocksTyped, WritersTyped
<1> QED BY <1>1, <1>2, <1>3, <1>4, <1>5, <1>6 DEF Sealer, SealerRuns

\* While a sealer works, no number is in flight and no other sealer works.
LEMMA SealerIsAlone ==
  ASSUME SealingState, NEW s \in Sealers, spc[s] # "idle"
  PROVE  /\ exclusive = {s} /\ shared = {}
         /\ \A t \in Sealers \ {s} : spc[t] = "idle"
         /\ \A w \in Writers : inserted[w] = {} /\ ticket[w] = NoEvent
                                 /\ pc[w] \notin {"insert", "index"}
BY DEF SealingState, SealingIsInductive, LocksAreHeld, TypeOK, LocksTyped, SealersTyped

\* A sealer's step keeps what the writers rely on.
LEMMA SealerKeepsWriters ==
  ASSUME SealingState, NEW s \in Sealers, Sealer(s)
  PROVE  WritersAreWellPlaced'
<1>1. UNCHANGED <<events, nextSeq, shared, rowLock, inserted, ticket, pc, work, reply, calls>>
  BY DEF Sealer, SealerRuns, TryLock, ReadPrevious, ReadBatch, ReadPrefix, Seal, SealerFault,
         tables, locks, writerVars
<1> QED BY <1>1 DEF SealingState, SealingIsInductive, WritersAreWellPlaced, IsWellPlaced,
                    ItemsLeft, Items, Item, WithSeq

LEMMA SealerKeepsLocks ==
  ASSUME SealingState, NEW s \in Sealers, Sealer(s)
  PROVE  LocksAreHeld'
<1>1. LocksAreHeld /\ spc \in [Sealers -> {"idle", "previous", "batch", "prefix", "seal"}]
  BY DEF SealingState, SealingIsInductive, TypeOK, SealersTyped
<1>2. UNCHANGED <<shared, inserted, ticket, pc>>
  BY DEF Sealer, SealerRuns, TryLock, ReadPrevious, ReadBatch, ReadPrefix, Seal, SealerFault,
         tables, locks, writerVars
<1>3. CASE \E result : EndSeal(s, result)
  BY <1>1, <1>2, <1>3 DEF EndSeal, LocksAreHeld
<1>4. CASE LockIsFree /\ exclusive' = exclusive \cup {s} /\ spc' = [spc EXCEPT ![s] = "previous"]
  BY <1>1, <1>2, <1>4 DEF LockIsFree, LocksAreHeld
<1>5. CASE /\ spc[s] # "idle" /\ UNCHANGED exclusive
           /\ \E label : spc' = [spc EXCEPT ![s] = label]
  BY <1>1, <1>2, <1>5 DEF LocksAreHeld
<1> QED BY <1>3, <1>4, <1>5
        DEF Sealer, SealerRuns, TryLock, ReadPrevious, ReadBatch, ReadPrefix, Seal, SealerFault

\* A sealer changes the tables only by adding the checkpoint it computed.
LEMMA SealerTables ==
  ASSUME SealingState, NEW s \in Sealers, Sealer(s)
  PROVE  /\ UNCHANGED <<events, nextSeq, shared, inserted, ticket, pc>>
         /\ \/ UNCHANGED checkpoints
            \/ spc[s] = "seal" /\ checkpoints' = checkpoints \cup {NewCheckpoint(s)}
BY DEF Sealer, SealerRuns, TryLock, ReadPrevious, ReadBatch, ReadPrefix, Seal, SealerFault,
       tables, locks, writerVars

LEMMA SealerKeepsNumbers ==
  ASSUME SealingState, NEW s \in Sealers, Sealer(s)
  PROVE  NumbersLieAhead'
<1>1. NumbersLieAhead
  BY DEF SealingState, SealingIsInductive
<1>2. CASE UNCHANGED checkpoints
  BY <1>1, <1>2, SealerTables DEF NumbersLieAhead
<1>3. CASE spc[s] = "seal" /\ checkpoints' = checkpoints \cup {NewCheckpoint(s)}
  <2>1. 0 < NewCheckpoint(s).last /\ NewCheckpoint(s).last < nextSeq
    BY <1>3, NewCheckpointFacts
  <2>2. \A w \in Writers : inserted[w] = {} /\ ticket[w] = NoEvent
    BY <1>3, SealerIsAlone
  <2> QED BY <1>1, <1>3, <2>1, <2>2, SealerTables DEF NumbersLieAhead
<1> QED BY <1>2, <1>3, SealerTables

LEMMA SealerKeepsCover ==
  ASSUME SealingState, NEW s \in Sealers, Sealer(s)
  PROVE  CheckpointsCoverTheirPrefix'
<1>1. CheckpointsCoverTheirPrefix
  BY DEF SealingState, SealingIsInductive
<1>2. CASE UNCHANGED checkpoints
  BY <1>1, <1>2, SealerTables DEF CheckpointsCoverTheirPrefix
<1>3. CASE spc[s] = "seal" /\ checkpoints' = checkpoints \cup {NewCheckpoint(s)}
  <2>1. /\ NewCheckpoint(s).leaves = {e \in events : e.seq <= NewCheckpoint(s).last}
        /\ NewCheckpoint(s).count = Cardinality(NewCheckpoint(s).leaves)
    BY <1>3, NewCheckpointFacts
  <2> QED BY <1>1, <1>3, <2>1, SealerTables DEF CheckpointsCoverTheirPrefix
<1> QED BY <1>2, <1>3, SealerTables

LEMMA SealerKeepsBoundaries ==
  ASSUME SealingState, NEW s \in Sealers, Sealer(s)
  PROVE  BoundariesAreEvents'
<1>1. BoundariesAreEvents
  BY DEF SealingState, SealingIsInductive
<1>2. CASE UNCHANGED checkpoints
  BY <1>1, <1>2 DEF BoundariesAreEvents
<1>3. CASE spc[s] = "seal" /\ checkpoints' = checkpoints \cup {NewCheckpoint(s)}
  <2> DEFINE n == NewCheckpoint(s)
  <2>1. /\ n.last \in {e.seq : e \in n.leaves} /\ n.previous = Latest.last
        /\ Latest.last < n.last /\ n \in Checkpoint
    BY <1>3, NewCheckpointFacts
  <2>2. \A d \in checkpoints : d.last <= Latest.last /\ d.last \in Nat /\ Latest.last \in Nat
    BY LatestBoundary DEF SealingState, SealingIsInductive, TypeOK, TablesTyped, Checkpoint
  <2>3. \A d \in checkpoints : d.last # n.last
    BY <2>1, <2>2 DEF Checkpoint
  <2> HIDE DEF n
  <2>4. checkpoints' = checkpoints \cup {n}
    BY <1>3 DEF n
  <2> QED BY <1>1, <2>1, <2>3, <2>4 DEF BoundariesAreEvents
<1> QED BY <1>2, <1>3, SealerTables

LEMMA LatestIsStable ==
  ASSUME UNCHANGED checkpoints
  PROVE  Latest' = Latest
BY DEF Latest, NoCheckpoint

LEMMA SealerKeepsReads ==
  ASSUME SealingState, NEW s \in Sealers, Sealer(s)
  PROVE  ReadsAgree'
<1>1. ReadsAgree
  BY DEF SealingState, SealingIsInductive
<1>2. /\ spc \in [Sealers -> {"idle", "previous", "batch", "prefix", "seal"}]
      /\ read \in [Sealers -> [previous : Checkpoint, batch : SUBSET Row, prefix : SUBSET Row]]
  BY DEF SealingState, TypeOK, SealersTyped
<1>3. UNCHANGED events
  BY SealerTables
<1>4. ASSUME NEW t \in Sealers \ {s}, spc[t] # "idle" PROVE UNCHANGED <<checkpoints, spc[t], read[t]>>
  BY <1>2, <1>4, SealerIsAlone
  DEF Sealer, SealerRuns, TryLock, ReadPrevious, ReadBatch, ReadPrefix, Seal, SealerFault,
      EndSeal, tables
<1>5. \A t \in Sealers \ {s} : spc[t] = "idle" => spc'[t] = "idle"
  BY <1>2
  DEF Sealer, SealerRuns, TryLock, ReadPrevious, ReadBatch, ReadPrefix, Seal, SealerFault, EndSeal
<1>6. CASE spc'[s] \in {"idle", "previous"}
  <2>1. ASSUME NEW t \in Sealers, spc'[t] \notin {"idle", "previous"}
        PROVE  t # s /\ spc[t] # "idle" /\ UNCHANGED <<events, Latest, spc[t], read[t]>>
    BY <1>3, <1>4, <1>5, <1>6, <2>1, LatestIsStable
  <2>2. ASSUME NEW t \in Sealers, spc'[t] \in {"prefix", "seal"}
        PROVE  /\ read'[t].batch =
                    Oldest(BatchSize, {e \in events' : e.seq > read'[t].previous.last})
               /\ read'[t].batch # {}
    <3>1. {e \in events' : e.seq > read'[t].previous.last}
            = {e \in events : e.seq > read[t].previous.last}
      BY <2>1, <2>2
    <3> QED BY <1>1, <2>1, <2>2, <3>1 DEF ReadsAgree
  <2>3. ASSUME NEW t \in Sealers, spc'[t] = "seal"
        PROVE  read'[t].prefix = {e \in events' : e.seq <= LastSeq(read'[t].batch)}
    BY <1>1, <2>1, <2>3 DEF ReadsAgree
  <2>4. ASSUME NEW t \in Sealers, spc'[t] \in {"batch", "prefix", "seal"}
        PROVE  read'[t].previous = Latest'
    BY <1>1, <2>1, <2>4 DEF ReadsAgree
  <2> QED BY <2>2, <2>3, <2>4 DEF ReadsAgree, Oldest, LastSeq
<1>7. CASE spc[s] # "idle" /\ spc'[s] \in {"batch", "prefix", "seal"}
  <2>1. \A t \in Sealers \ {s} : spc'[t] = "idle"
    BY <1>5, <1>7, SealerIsAlone
  <2>2. UNCHANGED <<events, checkpoints, Latest>>
    BY <1>2, <1>3, <1>7, LatestIsStable
    DEF Sealer, SealerRuns, TryLock, ReadPrevious, ReadBatch, ReadPrefix, Seal, SealerFault,
        EndSeal, tables
  <2>3. CASE ReadPrevious(s)
    <3>1. read'[s].previous = Latest /\ spc'[s] = "batch"
      BY <1>2, <2>3 DEF ReadPrevious
    <3> QED BY <2>1, <2>2, <3>1 DEF ReadsAgree
  <2>4. CASE ReadBatch(s)
    <3> DEFINE new == Oldest(BatchSize, {e \in events : e.seq > read[s].previous.last})
    <3>1. new # {} /\ spc'[s] = "prefix" /\ read' = [read EXCEPT ![s].batch = new]
      BY <1>2, <1>7, <2>4 DEF ReadBatch, EndSeal
    <3>2. read'[s].previous = Latest /\ read'[s].batch = new
      <4> HIDE DEF new
      <4> QED BY <1>1, <1>2, <2>4, <3>1 DEF ReadsAgree, ReadBatch
    <3>3. new' = new
      BY <1>1, <2>2, <2>4, <3>2 DEF Oldest, ReadBatch, ReadsAgree
    <3> QED BY <2>1, <2>2, <3>1, <3>2, <3>3 DEF ReadsAgree
  <2>5. CASE ReadPrefix(s)
    <3> DEFINE prefix == {e \in events : e.seq <= LastSeq(read[s].batch)}
    <3>1. read' = [read EXCEPT ![s].prefix = prefix] /\ spc'[s] = "seal"
      BY <1>2, <2>5 DEF ReadPrefix
    <3>2. read'[s].previous = read[s].previous /\ read'[s].batch = read[s].batch
          /\ read'[s].prefix = prefix
      <4> HIDE DEF prefix
      <4> QED BY <1>2, <3>1
    <3>4. /\ read[s].previous = Latest
          /\ read[s].batch = Oldest(BatchSize, {e \in events : e.seq > read[s].previous.last})
          /\ read[s].batch # {}
      BY <1>1, <2>5 DEF ReadsAgree, ReadPrefix
    <3>3. read'[s].prefix = {e \in events' : e.seq <= LastSeq(read'[s].batch)}
      BY <2>2, <3>2
    <3>5. {e \in events' : e.seq > read'[s].previous.last}
            = {e \in events : e.seq > read[s].previous.last}
      BY <2>2, <3>2
    <3>6. read'[s].batch = Oldest(BatchSize, {e \in events' : e.seq > read'[s].previous.last})
      BY <3>2, <3>4, <3>5
    <3>7. read'[s].batch # {} /\ read'[s].previous = Latest'
      BY <2>2, <3>2, <3>4
    <3> QED BY <2>1, <3>1, <3>3, <3>6, <3>7 DEF ReadsAgree, Oldest, LastSeq
  <2> QED BY <1>2, <1>7, <2>3, <2>4, <2>5
          DEF Sealer, SealerRuns, TryLock, Seal, SealerFault, EndSeal
<1> QED BY <1>2, <1>6, <1>7
        DEF Sealer, SealerRuns, TryLock, ReadPrevious, ReadBatch, ReadPrefix, Seal, SealerFault,
            EndSeal

LEMMA SealerKeepsOutcomes ==
  ASSUME SealingState, NEW s \in Sealers, Sealer(s)
  PROVE  SealsAreNeverRejected'
<1>1. SealsAreNeverRejected /\ DOMAIN outcome = Sealers
  BY DEF SealingState, SealingIsInductive, TypeOK, SealersTyped
<1>2. CASE Seal(s)
  <2>1. Verdict(s) \in {"sealed", "UNKNOWN_KEY_VERSION"}
    BY <1>2, VerdictFacts DEF Seal
  <2> QED BY <1>1, <1>2, <2>1 DEF Seal, EndSeal, SealsAreNeverRejected
<1>3. CASE TryLock(s) \/ ReadPrevious(s) \/ ReadBatch(s) \/ ReadPrefix(s) \/ SealerFault(s)
  BY <1>1, <1>3
  DEF TryLock, ReadPrevious, ReadBatch, ReadPrefix, SealerFault, EndSeal, SealsAreNeverRejected
<1> QED BY <1>2, <1>3 DEF Sealer, SealerRuns

LEMMA SealerKeepsChain ==
  ASSUME SealingState, NEW s \in Sealers, Sealer(s)
  PROVE  OneChain'
<1>1. OneChain
  BY DEF SealingState, SealingIsInductive
<1>2. CASE UNCHANGED checkpoints
  BY <1>1, <1>2 DEF OneChain
<1>3. CASE spc[s] = "seal" /\ checkpoints' = checkpoints \cup {NewCheckpoint(s)}
  <2> DEFINE n == NewCheckpoint(s)
  <2>1. /\ n.previous = Latest.last /\ n.previousLeaves = Latest.leaves
        /\ Latest.leaves \subseteq n.leaves /\ Latest.count < n.count
    BY <1>3, NewCheckpointFacts
  <2>2. \A d \in checkpoints : d.previous # Latest.last
    <3>1. \A d \in checkpoints : d.last <= Latest.last /\ Latest.last \in Nat
      BY LatestBoundary DEF SealingState, SealingIsInductive, Checkpoint
    <3>2. \A d \in checkpoints : d.last \in Nat /\ d.previous \in Nat /\ d.previous < d.last
      BY DEF SealingState, SealingIsInductive, TypeOK, TablesTyped, Checkpoint,
             BoundariesAreEvents
    <3> QED BY <3>1, <3>2
  <2>3. \/ Latest.last = NoEvent /\ Latest.leaves = {}
        \/ Latest \in checkpoints
    <3>1. CASE checkpoints = {}
      BY <3>1 DEF Latest, NoCheckpoint
    <3>2. CASE checkpoints # {}
      BY <3>2, LatestIsLast DEF SealingState, SealingIsInductive
    <3> QED BY <3>1, <3>2
  <2> HIDE DEF n
  <2>4. checkpoints' = checkpoints \cup {n}
    BY <1>3 DEF n
  <2> QED BY <1>1, <2>1, <2>2, <2>3, <2>4 DEF OneChain
<1> QED BY <1>2, <1>3, SealerTables

-----------------------------------------------------------------------------
(***************************************************************************)
(* Steps of a writer.                                                      *)
(***************************************************************************)

\* A writer touches the tables only by committing its rows and drawing numbers,
\* and nothing of the sealers or of the other writers.
LEMMA WriterTables ==
  ASSUME TypeOK, NEW w \in Writers, Writer(w)
  PROVE  /\ UNCHANGED <<checkpoints, exclusive, spc, read, outcome>>
         /\ \/ UNCHANGED events
            \/ pc[w] = "insert" /\ events' = events \cup inserted[w]
         /\ \/ UNCHANGED nextSeq
            \/ pc[w] = "insert" /\ nextSeq' = nextSeq + 1
         /\ \A v \in Writers \ {w} :
              /\ UNCHANGED <<pc[v], work[v], inserted[v], ticket[v], rowLock[v]>>
              /\ v \in shared' <=> v \in shared
<1> USE DEF TypeOK, LocksTyped, WritersTyped
<1>1. CASE Submit(w)
  BY <1>1 DEF Submit, Goto, Answer, tables, locks
<1>2. CASE CheckExisting(w)
  BY <1>2 DEF CheckExisting, AnswerFromRow, Goto, Answer, tables, locks
<1>3. CASE Scan(w)
  BY <1>3 DEF Scan, Goto, tables, locks
<1>4. CASE CheckSuccessor(w)
  BY <1>4 DEF CheckSuccessor, Goto, Reject, Answer, EndTransaction, tables, locks
<1>5. CASE FoldItem(w)
  BY <1>5 DEF FoldItem, Reject, Answer, EndTransaction, tables, locks
<1>6. CASE DrawSequence(w)
  BY <1>6 DEF DrawSequence, Goto
<1>7. CASE Commit(w)
  BY <1>7 DEF Commit, Answer, EndTransaction
<1>8. CASE RecheckSingle(w)
  BY <1>8 DEF RecheckSingle, AnswerFromRow, Answer, tables, locks
<1>9. CASE RecheckBatch(w)
  BY <1>9 DEF RecheckBatch, Goto, Answer, tables, locks
<1>10. CASE LockShared(w)
  BY <1>10 DEF LockShared, Goto, tables
<1>11. CASE LockParent(w)
  BY <1>11 DEF LockParent, Goto, Reject, Answer, EndTransaction, tables
<1>12. CASE InsertRow(w)
  BY <1>12 DEF InsertRow, Goto, EndTransaction, tables
<1>13. CASE DeadlockVictim(w) \/ WriterFault(w)
  BY <1>13 DEF DeadlockVictim, WriterFault, Reject, Answer, EndTransaction, tables
<1> QED BY <1>1, <1>2, <1>3, <1>4, <1>5, <1>6, <1>7, <1>8, <1>9, <1>10, <1>11, <1>12, <1>13
        DEF Writer, WriterRuns

\* A transaction with rows or a number of its own keeps the sealers out.
LEMMA WriterExcludesSealers ==
  ASSUME SealingState, NEW w \in Writers,
         pc[w] \in {"insert", "index"} \/ inserted[w] # {} \/ ticket[w] # NoEvent
  PROVE  exclusive = {} /\ \A s \in Sealers : spc[s] = "idle"
BY DEF SealingState, SealingIsInductive, LocksAreHeld

LEMMA WriterKeepsCheckpoints ==
  ASSUME SealingState, NEW w \in Writers, Writer(w)
  PROVE  /\ BoundariesAreEvents' /\ OneChain' /\ SealsAreNeverRejected'
         /\ CheckpointsCoverTheirPrefix' /\ ReadsAgree'
<1> USE DEF SealingState, SealingIsInductive
<1>1. UNCHANGED <<checkpoints, spc, read, outcome>>
  BY WriterTables
<1>2. BoundariesAreEvents' /\ OneChain' /\ SealsAreNeverRejected'
  BY <1>1 DEF BoundariesAreEvents, OneChain, SealsAreNeverRejected
<1>3. CASE UNCHANGED events
  <2>1. CheckpointsCoverTheirPrefix'
    BY <1>1, <1>3 DEF CheckpointsCoverTheirPrefix
  <2>2. ReadsAgree'
    BY <1>1, <1>3, LatestIsStable DEF ReadsAgree, Oldest, LastSeq
  <2> QED BY <1>2, <2>1, <2>2
<1>4. CASE pc[w] = "insert" /\ events' = events \cup inserted[w]
  <2>1. \A c \in checkpoints : \A e \in inserted[w] : ~ (e.seq <= c.last)
    BY DEF NumbersLieAhead, TypeOK, TablesTyped, LocksTyped, Checkpoint, Row
  <2>2. CheckpointsCoverTheirPrefix'
    BY <1>1, <1>4, <2>1 DEF CheckpointsCoverTheirPrefix
  <2>3. ReadsAgree'
    BY <1>1, <1>4, WriterExcludesSealers DEF ReadsAgree
  <2> QED BY <1>2, <2>2, <2>3
<1> QED BY <1>3, <1>4, WriterTables

\* The four ways in which a step treats the transaction of its writer.
LEMMA WriterTransaction ==
  ASSUME TypeOK, NEW w \in Writers, Writer(w)
  PROVE  \/ EndTransaction(w) /\ pc'[w] \in {"idle", "recheck"} /\ UNCHANGED nextSeq
         \/ /\ pc'[w] # "index"
            /\ UNCHANGED <<inserted, ticket, nextSeq>>
            /\ \/ NoSealerRuns /\ shared' = shared \cup {w}
               \/ UNCHANGED shared /\ pc'[w] \in {"idle", "check", "lock"}
               \/ UNCHANGED shared /\ pc[w] \in {"scan", "parent", "successor", "insert"}
         \/ /\ pc[w] = "insert" /\ pc'[w] = "index"
            /\ ticket' = [ticket EXCEPT ![w] = nextSeq] /\ nextSeq' = nextSeq + 1
            /\ UNCHANGED <<shared, inserted>>
         \/ /\ pc[w] = "index" /\ pc'[w] = "insert"
            /\ inserted' = [inserted EXCEPT ![w] = @ \cup {NewRow(w)}]
            /\ ticket' = [ticket EXCEPT ![w] = NoEvent]
            /\ UNCHANGED <<shared, nextSeq>>
<1> USE DEF TypeOK, WritersTyped
<1>1. CASE Submit(w)
  BY <1>1 DEF Submit, Goto, Answer, tables, locks
<1>2. CASE CheckExisting(w)
  BY <1>2 DEF CheckExisting, AnswerFromRow, Goto, Answer, tables, locks
<1>3. CASE Scan(w)
  BY <1>3 DEF Scan, Goto, tables, locks
<1>4. CASE CheckSuccessor(w)
  BY <1>4 DEF CheckSuccessor, Goto, Reject, Answer, tables, locks
<1>5. CASE FoldItem(w)
  BY <1>5 DEF FoldItem, Reject, Answer, tables, locks
<1>6. CASE DrawSequence(w)
  BY <1>6 DEF DrawSequence, Goto
<1>7. CASE Commit(w)
  BY <1>7 DEF Commit, Answer
<1>8. CASE RecheckSingle(w)
  BY <1>8 DEF RecheckSingle, AnswerFromRow, Answer, tables, locks
<1>9. CASE RecheckBatch(w)
  BY <1>9 DEF RecheckBatch, Goto, Answer, tables, locks
<1>10. CASE LockShared(w)
  BY <1>10 DEF LockShared, Goto, tables
<1>11. CASE LockParent(w)
  BY <1>11 DEF LockParent, Goto, Reject, Answer, tables
<1>12. CASE InsertRow(w)
  BY <1>12 DEF InsertRow, Goto, tables
<1>13. CASE DeadlockVictim(w) \/ WriterFault(w)
  BY <1>13 DEF DeadlockVictim, WriterFault, Reject, Answer, tables
<1> QED BY <1>1, <1>2, <1>3, <1>4, <1>5, <1>6, <1>7, <1>8, <1>9, <1>10, <1>11, <1>12, <1>13
        DEF Writer, WriterRuns

LEMMA WriterKeepsLocks ==
  ASSUME SealingState, NEW w \in Writers, Writer(w)
  PROVE  LocksAreHeld'
<1> USE DEF SealingState, TypeOK, LocksTyped, WritersTyped
<1>1. LocksAreHeld
  BY DEF SealingIsInductive
<1>2. UNCHANGED <<exclusive, spc>>
      /\ \A v \in Writers \ {w} : /\ UNCHANGED <<pc[v], inserted[v], ticket[v]>>
                                  /\ v \in shared' <=> v \in shared
  BY WriterTables
<1>3. shared' \subseteq shared \/ exclusive = {}
  BY WriterTransaction DEF EndTransaction, NoSealerRuns
<1>4. \/ pc'[w] \in {"scan", "parent", "successor", "insert", "index"}
      \/ inserted'[w] # {}
      \/ ticket'[w] # NoEvent
      => w \in shared'
  <2>1. \/ pc[w] \in {"scan", "parent", "successor", "insert", "index"}
        \/ inserted[w] # {}
        \/ ticket[w] # NoEvent
        => w \in shared
    BY <1>1 DEF LocksAreHeld
  <2>2. CASE EndTransaction(w) /\ pc'[w] \in {"idle", "recheck"}
    BY <2>2 DEF EndTransaction
  <2>3. CASE NoSealerRuns /\ shared' = shared \cup {w}
    BY <2>3
  <2>4. CASE UNCHANGED <<shared, inserted, ticket>> /\ pc'[w] \in {"idle", "check", "lock"}
    BY <2>1, <2>4
  <2>5. CASE UNCHANGED shared /\ pc[w] \in {"scan", "parent", "successor", "insert", "index"}
    BY <2>1, <2>5
  <2> QED BY <2>2, <2>3, <2>4, <2>5, WriterTransaction
<1>5. shared' \subseteq Writers
  BY WriterTransaction DEF EndTransaction
<1> QED BY <1>1, <1>2, <1>3, <1>4, <1>5 DEF LocksAreHeld

LEMMA WriterKeepsNumbers ==
  ASSUME SealingState, NEW w \in Writers, Writer(w)
  PROVE  NumbersLieAhead'
<1> USE DEF SealingState, TypeOK, TablesTyped, LocksTyped, WritersTyped
<1>1. NumbersLieAhead
  BY DEF SealingIsInductive
<1>2. /\ UNCHANGED checkpoints
      /\ \A v \in Writers \ {w} : UNCHANGED <<pc[v], inserted[v], ticket[v]>>
      /\ nextSeq' \in {nextSeq, nextSeq + 1}
  BY WriterTables
<1>3. \A c \in checkpoints : c.last \in Nat
  BY DEF Checkpoint
<1>4. \A e \in Row : e.seq \in Nat
  BY DEF Row
<1>5. IsFiniteSet(events') /\ \A e \in events' : 0 < e.seq /\ e.seq < nextSeq'
  <2>1. CASE UNCHANGED events
    BY <1>1, <1>2, <1>4, <2>1 DEF NumbersLieAhead
  <2>2. CASE events' = events \cup inserted[w]
    <3>1. IsFiniteSet(events) /\ IsFiniteSet(inserted[w])
      BY <1>1 DEF NumbersLieAhead
    <3>2. IsFiniteSet(events \cup inserted[w])
      BY <3>1, FS_Union
    <3>3. \A e \in events \cup inserted[w] : 0 < e.seq /\ e.seq < nextSeq /\ e.seq \in Nat
      BY <1>1, <1>4 DEF NumbersLieAhead
    <3> QED BY <1>2, <2>2, <3>2, <3>3
  <2> QED BY <2>1, <2>2, WriterTables
<1>6. \A c \in checkpoints : 0 < c.last /\ c.last < nextSeq'
  BY <1>1, <1>2, <1>3 DEF NumbersLieAhead
<1>7. /\ IsFiniteSet(inserted'[w])
      /\ pc'[w] = "index" => ticket'[w] # NoEvent
      /\ ticket'[w] < nextSeq'
      /\ ticket'[w] # NoEvent => \A c \in checkpoints : c.last < ticket'[w]
      /\ \A e \in inserted'[w] :
           /\ 0 < e.seq /\ e.seq < nextSeq'
           /\ \A c \in checkpoints : c.last < e.seq
  <2>1. CASE EndTransaction(w) /\ pc'[w] \in {"idle", "recheck"} /\ UNCHANGED nextSeq
    BY <2>1, FS_EmptySet DEF EndTransaction, NoEvent
  <2>2. CASE pc'[w] # "index" /\ UNCHANGED <<inserted, ticket, nextSeq>>
    BY <1>1, <2>2 DEF NumbersLieAhead
  <2>3. CASE /\ pc[w] = "insert" /\ pc'[w] = "index"
             /\ ticket' = [ticket EXCEPT ![w] = nextSeq] /\ nextSeq' = nextSeq + 1
             /\ UNCHANGED <<shared, inserted>>
    BY <1>1, <1>3, <1>4, <2>3 DEF NumbersLieAhead, NoEvent
  <2>4. CASE /\ pc[w] = "index" /\ pc'[w] = "insert"
             /\ inserted' = [inserted EXCEPT ![w] = @ \cup {NewRow(w)}]
             /\ ticket' = [ticket EXCEPT ![w] = NoEvent]
             /\ UNCHANGED <<shared, nextSeq>>
    <3>1. NewRow(w).seq = ticket[w] /\ ticket[w] # NoEvent /\ ticket[w] \in Nat
      BY <1>1, <2>4 DEF NewRow, NumbersLieAhead
    <3>2. inserted'[w] = inserted[w] \cup {NewRow(w)} /\ ticket'[w] = NoEvent
      BY <2>4
    <3>3. IsFiniteSet(inserted'[w])
      <4>1. IsFiniteSet(inserted[w])
        BY <1>1 DEF NumbersLieAhead
      <4>2. IsFiniteSet(inserted[w] \cup {NewRow(w)})
        BY <4>1, FS_AddElement
      <4> QED BY <3>2, <4>2
    <3> QED BY <1>1, <2>4, <3>1, <3>2, <3>3 DEF NumbersLieAhead, NoEvent
  <2> QED BY <2>1, <2>2, <2>3, <2>4, WriterTransaction
<1>8. ASSUME NEW v \in Writers \ {w}
      PROVE  /\ IsFiniteSet(inserted'[v])
             /\ pc'[v] = "index" => ticket'[v] # NoEvent
             /\ ticket'[v] < nextSeq'
             /\ ticket'[v] # NoEvent => \A c \in checkpoints : c.last < ticket'[v]
             /\ \A e \in inserted'[v] :
                  /\ 0 < e.seq /\ e.seq < nextSeq'
                  /\ \A c \in checkpoints : c.last < e.seq
  BY <1>1, <1>2, <1>4 DEF NumbersLieAhead
<1> QED BY <1>2, <1>5, <1>6, <1>7, <1>8 DEF NumbersLieAhead

\* A call has an item, a single call one only, and a batch carries reports.
LEMMA CallFacts ==
  ASSUME NEW c \in Calls
  PROVE  /\ c.api \in {"single", "batch"} /\ Len(c.items) \in Nat /\ 1 <= Len(c.items)
         /\ c.api = "single" => Len(c.items) = 1
         /\ c.api = "batch" => \A i \in 1 .. Len(c.items) : c.items[i].parent = NoEvent
<1>1. c \in Call /\ c.items # << >>
  BY CallsAssumption
<1>2. c.items \in Seq(Submission) /\ c.api \in {"single", "batch"}
  BY <1>1 DEF Call
<1>3. Len(c.items) \in Nat /\ Len(c.items) # 0
  BY <1>1, <1>2
<1> QED BY <1>2, <1>3, CallsAssumption

LEMMA SingleHasOneItem ==
  ASSUME NEW c \in Calls, c.api = "single", NEW n \in Nat \ {0}, n <= Len(c.items)
  PROVE  n = 1
<1>1. Len(c.items) = 1
  BY CallFacts
<1> QED BY <1>1

\* Writers that do not move stay well placed: committed parents stay committed.
LEMMA OthersKeepPlaces ==
  ASSUME TypeOK, WritersAreWellPlaced, NEW w \in Writers, Writer(w), NEW v \in Writers \ {w}
  PROVE  IsWellPlaced(v)'
<1>1. IsWellPlaced(v) /\ UNCHANGED <<pc[v], work[v], inserted[v]>> /\ events \subseteq events'
  BY WriterTables DEF WritersAreWellPlaced
<1>2. ItemsLeft(v)' = ItemsLeft(v) /\ Item(v)' = Item(v)
  BY <1>1 DEF ItemsLeft, Items, Item
<1> QED BY <1>1, <1>2 DEF IsWellPlaced, WithSeq

LEMMA WriterKeepsPlaces ==
  ASSUME TypeOK, WritersAreWellPlaced, NEW w \in Writers, Writer(w)
  PROVE  WritersAreWellPlaced'
<1> USE DEF TypeOK, LocksTyped, WritersTyped
<1> SUFFICES IsWellPlaced(w)'
  BY OthersKeepPlaces DEF WritersAreWellPlaced
<1>0. IsWellPlaced(w)
  BY DEF WritersAreWellPlaced
<1>1. CASE Submit(w)
  <2>1. PICK c \in Calls :
          /\ work'[w] = [call |-> c, pos |-> 1, seen |-> {}, results |-> << >>, attempt |-> 1]
          /\ \/ c.api = "single" /\ pc'[w] = "check"
             \/ pc'[w] \in {"lock", "idle"}
    BY <1>1 DEF Submit, Goto, Answer
  <2>2. pc[w] = "idle" /\ inserted'[w] = inserted[w]
    BY <1>1 DEF Submit, locks
  <2> QED BY <1>0, <2>1, <2>2, CallFacts DEF IsWellPlaced, ItemsLeft, Items
<1>2. CASE CheckExisting(w)
  BY <1>0, <1>2
  DEF CheckExisting, AnswerFromRow, Goto, Answer, tables, locks, IsWellPlaced, ItemsLeft, Items
<1>3. CASE LockShared(w)
  <2>1. /\ UNCHANGED <<events, inserted, work>>
        /\ work[w].call \in Calls /\ ItemsLeft(w) /\ inserted[w] = {}
    BY <1>0, <1>3 DEF LockShared, tables, IsWellPlaced
  <2>2. \/ work[w].call.api = "batch" /\ pc'[w] = "scan"
        \/ work[w].call.api = "single" /\ Item(w).type = "report" /\ pc'[w] = "insert"
        \/ work[w].call.api = "single" /\ pc'[w] = "parent"
    BY <1>3, <2>1, CallFacts DEF LockShared, Goto
  <2>3. Item(w).type = "report" => Item(w).parent = NoEvent
    BY <1>3, <2>1, ItemFacts DEF LockShared
  <2> QED BY <1>0, <2>1, <2>2, <2>3 DEF IsWellPlaced, ItemsLeft, Items, Item
<1>4. CASE Scan(w)
  <2>1. /\ UNCHANGED <<events, inserted>> /\ pc'[w] = "insert"
        /\ work'[w].call = work[w].call /\ work'[w].pos = work[w].pos
        /\ work[w].call \in Calls /\ work[w].call.api = "batch"
    BY <1>0, <1>4 DEF Scan, Goto, tables, locks, IsWellPlaced
  <2>2. ItemsLeft(w) => Item(w).parent = NoEvent
    BY <2>1, CallFacts DEF ItemsLeft, Items, Item
  <2> QED BY <1>0, <1>4, <2>1, <2>2 DEF Scan, IsWellPlaced, ItemsLeft, Items, Item
<1>5. CASE LockParent(w)
  <2>1. CASE Reject(w, "NOT_FOUND") \/ Reject(w, "RECORD_REVOKED")
    BY <1>0, <1>5, <2>1
    DEF Reject, Answer, EndTransaction, IsWellPlaced, ItemsLeft, Items
  <2>2. CASE /\ \E e \in WithSeq(Item(w).parent) : MayBeFollowed(e)
             /\ Goto(w, "successor") /\ UNCHANGED <<inserted, work, events>>
    BY <1>0, <1>5, <2>2
    DEF LockParent, Goto, MayBeFollowed, IsWellPlaced, ItemsLeft, Items, Item, WithSeq
  <2> QED BY <1>5, <2>1, <2>2 DEF LockParent, tables
<1>6. CASE CheckSuccessor(w)
  <2>1. CASE Reject(w, "EVENT_ALREADY_SUPERSEDED") \/ Reject(w, "INSTRUMENT_MISMATCH")
    BY <1>0, <1>6, <2>1
    DEF Reject, Answer, EndTransaction, IsWellPlaced, ItemsLeft, Items
  <2>2. CASE Goto(w, "insert") /\ UNCHANGED <<inserted, work, events>>
    BY <1>0, <1>6, <2>2
    DEF CheckSuccessor, Goto, IsWellPlaced, ItemsLeft, Items, Item, WithSeq
  <2> QED BY <1>6, <2>1, <2>2 DEF CheckSuccessor, tables, locks
<1>7. CASE FoldItem(w)
  <2>1. CASE Reject(w, "IDEMPOTENCY_CONFLICT")
    BY <1>0, <1>7, <2>1
    DEF Reject, Answer, EndTransaction, IsWellPlaced, ItemsLeft, Items
  <2>2. CASE /\ \E e \in Resolved(w) :
                  work' = [work EXCEPT
                             ![w].results = Append(@, [seq |-> e.seq, created |-> FALSE]),
                             ![w].pos = @ + 1]
             /\ UNCHANGED <<locks, pc, reply, events>>
    <3>1. /\ work'[w].call = work[w].call /\ work'[w].pos = work[w].pos + 1
          /\ work'[w].seen = work[w].seen /\ pc'[w] = "insert" /\ pc[w] = "insert"
          /\ UNCHANGED <<inserted, events>> /\ work[w].call \in Calls /\ Resolved(w) # {}
      BY <1>0, <1>7, <2>2 DEF FoldItem, locks, IsWellPlaced
    <3>2. work[w].call.api = "batch"
      BY <1>0, <1>7, <3>1, CallFacts DEF FoldItem, Resolved, IsWellPlaced
    <3>3. ItemsLeft(w)' => Item(w)'.parent = NoEvent
      <4> DEFINE c == work[w].call
      <4>1. \A i \in 1 .. Len(c.items) : c.items[i].parent = NoEvent
        BY <3>1, <3>2, CallFacts
      <4>2. /\ ItemsLeft(w)' <=> work'[w].pos <= Len(c.items)
            /\ Item(w)' = c.items[work'[w].pos]
        BY <3>1 DEF ItemsLeft, Items, Item
      <4>3. Len(c.items) \in Nat /\ work'[w].pos \in Nat \ {0}
        BY <3>1, CallFacts
      <4> HIDE DEF c
      <4> QED BY <4>1, <4>2, <4>3
    <3> QED BY <1>0, <3>1, <3>2, <3>3 DEF IsWellPlaced
  <2> QED BY <1>7, <2>1, <2>2 DEF FoldItem, tables
<1>8. CASE DrawSequence(w)
  BY <1>0, <1>8 DEF DrawSequence, Goto, IsWellPlaced, ItemsLeft, Items, Item, WithSeq
<1>9. CASE InsertRow(w)
  <2>1. CASE EndTransaction(w) /\ Goto(w, "recheck") /\ UNCHANGED work
    <3>1. pc[w] = "index" /\ ItemsLeft(w) /\ work[w].call \in Calls /\ work[w].pos \in Nat \ {0}
      BY <1>0, <1>9 DEF InsertRow, IsWellPlaced
    <3>2. work[w].call.api = "single" => work[w].pos = 1
      BY <3>1, SingleHasOneItem DEF ItemsLeft, Items
    <3> QED BY <1>0, <2>1, <3>1, <3>2 DEF Goto, EndTransaction, IsWellPlaced, ItemsLeft, Items
  <2>2. CASE /\ work' = [work EXCEPT
                           ![w].results = Append(@, [seq |-> ticket[w], created |-> TRUE]),
                           ![w].pos = @ + 1]
             /\ Goto(w, "insert") /\ UNCHANGED events
    <3>1. /\ work'[w].call = work[w].call /\ work'[w].pos = work[w].pos + 1
          /\ work'[w].pos \in Nat \ {0, 1} /\ pc'[w] = "insert"
          /\ work[w].call \in Calls
      BY <1>0, <1>9, <2>2 DEF InsertRow, Goto, IsWellPlaced
    <3>2. ItemsLeft(w)' => work[w].call.api = "batch" /\ Item(w)'.parent = NoEvent
      <4> DEFINE c == work[w].call
      <4>1. /\ c.api \in {"single", "batch"} /\ Len(c.items) \in Nat
            /\ c.api = "single" => Len(c.items) = 1
            /\ c.api = "batch" => \A i \in 1 .. Len(c.items) : c.items[i].parent = NoEvent
        BY <3>1, CallFacts
      <4>2. /\ ItemsLeft(w)' <=> work'[w].pos <= Len(c.items)
            /\ Item(w)' = c.items[work'[w].pos]
        BY <3>1 DEF ItemsLeft, Items, Item
      <4> HIDE DEF c
      <4> QED BY <3>1, <4>1, <4>2 DEF c
    <3> QED BY <1>0, <3>1, <3>2 DEF IsWellPlaced
  <2> QED BY <1>9, <2>1, <2>2 DEF InsertRow, tables
<1>10. CASE Commit(w)
  BY <1>0, <1>10 DEF Commit, Answer, EndTransaction, IsWellPlaced, ItemsLeft, Items
<1>11. CASE RecheckSingle(w)
  BY <1>0, <1>11
  DEF RecheckSingle, AnswerFromRow, Answer, locks, IsWellPlaced, ItemsLeft, Items
<1>12. CASE RecheckBatch(w)
  <2>1. CASE pc'[w] = "idle" /\ UNCHANGED <<work, inserted>>
    BY <1>0, <1>12, <2>1 DEF RecheckBatch, IsWellPlaced, ItemsLeft, Items
  <2>2. CASE /\ work' = [work EXCEPT ![w] =
                           [call |-> @.call, pos |-> 1, seen |-> {}, results |-> << >>,
                            attempt |-> @.attempt + 1]]
             /\ Goto(w, "lock") /\ UNCHANGED inserted
    BY <1>0, <1>12, <2>2, CallFacts DEF RecheckBatch, Goto, IsWellPlaced, ItemsLeft, Items
  <2> QED BY <1>12, <2>1, <2>2 DEF RecheckBatch, Answer, locks
<1>13. CASE DeadlockVictim(w) \/ WriterFault(w)
  BY <1>0, <1>13
  DEF DeadlockVictim, WriterFault, Reject, Answer, EndTransaction, IsWellPlaced, ItemsLeft, Items
<1> QED BY <1>1, <1>2, <1>3, <1>4, <1>5, <1>6, <1>7, <1>8, <1>9, <1>10, <1>11, <1>12, <1>13
        DEF Writer, WriterRuns

-----------------------------------------------------------------------------
(***************************************************************************)
(* The theorems.                                                           *)
(***************************************************************************)

LEMMA SealingInit == Init => SealingState
<1> SUFFICES ASSUME Init PROVE SealingState
  OBVIOUS
<1>1. TypeOK
  BY TypeInit
<1>2. WritersAreWellPlaced
  BY DEF Init, WritersAreWellPlaced, IsWellPlaced, ItemsLeft, Items
<1>3. LocksAreHeld /\ ReadsAgree
  BY DEF Init, LocksAreHeld, ReadsAgree
<1>4. NumbersLieAhead
  BY FS_EmptySet DEF Init, NumbersLieAhead, NoEvent
<1>5. BoundariesAreEvents /\ CheckpointsCoverTheirPrefix /\ SealsAreNeverRejected /\ OneChain
  BY DEF Init, BoundariesAreEvents, CheckpointsCoverTheirPrefix, SealsAreNeverRejected, OneChain
<1> QED BY <1>1, <1>2, <1>3, <1>4, <1>5 DEF SealingState, SealingIsInductive

LEMMA SealingStutter ==
  ASSUME SealingState, UNCHANGED vars
  PROVE  SealingState'
<1> USE DEF SealingState, SealingIsInductive
<1>1. UNCHANGED <<events, checkpoints, nextSeq, shared, exclusive, rowLock, inserted, ticket,
                  pc, work, reply, spc, read, outcome, calls, faults>>
  BY DEF vars
<1>2. TypeOK'
  BY <1>1 DEF TypeOK, TablesTyped, LocksTyped, WritersTyped, SealersTyped
<1>3. WritersAreWellPlaced'
  BY <1>1 DEF WritersAreWellPlaced, IsWellPlaced, ItemsLeft, Items, Item, WithSeq
<1>4. LocksAreHeld' /\ NumbersLieAhead'
  BY <1>1 DEF LocksAreHeld, NumbersLieAhead
<1>5. BoundariesAreEvents' /\ CheckpointsCoverTheirPrefix' /\ SealsAreNeverRejected' /\ OneChain'
  BY <1>1 DEF BoundariesAreEvents, CheckpointsCoverTheirPrefix, SealsAreNeverRejected, OneChain
<1>6. ReadsAgree'
  BY <1>1, LatestIsStable DEF ReadsAgree, Oldest, LastSeq
<1> QED BY <1>2, <1>3, <1>4, <1>5, <1>6

LEMMA SealingStep ==
  ASSUME SealingState, [Next]_vars
  PROVE  SealingState'
<1>1. ASSUME NEW w \in Writers, Writer(w) PROVE SealingState'
  <2>1. TypeOK /\ WritersAreWellPlaced
    BY DEF SealingState, SealingIsInductive
  <2>2. TypeOK' /\ WritersAreWellPlaced'
    BY <1>1, <2>1, TypeWriter, WriterKeepsPlaces
  <2> QED BY <1>1, <2>2, WriterKeepsLocks, WriterKeepsNumbers, WriterKeepsCheckpoints
          DEF SealingState, SealingIsInductive
<1>2. ASSUME NEW s \in Sealers, Sealer(s) PROVE SealingState'
  BY <1>2, TypeSealer, SealerKeepsWriters, SealerKeepsLocks, SealerKeepsNumbers,
     SealerKeepsBoundaries, SealerKeepsReads, SealerKeepsCover, SealerKeepsOutcomes,
     SealerKeepsChain
  DEF SealingState, SealingIsInductive
<1> QED BY <1>1, <1>2, SealingStutter DEF Next

\* Every reachable state is one the statements of writers and sealers rely on.
THEOREM SealingStateHolds == Spec => []SealingState
<1>1. Init => SealingState
  BY SealingInit
<1>2. SealingState /\ [Next]_vars => SealingState'
  BY SealingStep
<1> QED BY <1>1, <1>2, PTL DEF Spec

\* Every column and local variable keeps its domain, whatever the interleaving.
THEOREM TypeCorrect == Spec => []TypeOK
<1>1. SealingState => TypeOK
  BY DEF SealingState
<1> QED BY <1>1, SealingStateHolds, PTL

\* The invariant of a run of any size: locks, numbers in flight and reads agree.
THEOREM SealingInvariant == Spec => []SealingIsInductive
<1>1. SealingState => SealingIsInductive
  BY DEF SealingState
<1> QED BY <1>1, SealingStateHolds, PTL

\* No event is ever committed below a checkpoint boundary: the claim of the
\* advisory lock protocol of _coordinate_insert and seal_once.
THEOREM CheckpointsAreComplete == Spec => []CheckpointsCoverTheirPrefix
<1>1. SealingState => CheckpointsCoverTheirPrefix
  BY DEF SealingState, SealingIsInductive
<1> QED BY <1>1, SealingStateHolds, PTL

\* seal_once never reports corruption, nor a unique constraint of checkpoints.
THEOREM SealersAgree == Spec => []SealsAreNeverRejected
<1>1. SealingState => SealsAreNeverRejected
  BY DEF SealingState, SealingIsInductive
<1> QED BY <1>1, SealingStateHolds, PTL

\* However many replicas seal, the checkpoints form one chain of growing roots.
THEOREM CheckpointsFormAChain == Spec => []OneChain
<1>1. SealingState => OneChain
  BY DEF SealingState, SealingIsInductive
<1> QED BY <1>1, SealingStateHolds, PTL

=============================================================================
