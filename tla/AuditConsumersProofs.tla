------------------------ MODULE AuditConsumersProofs ------------------------
(***************************************************************************)
(* Proofs about AuditConsumers, for every number of requests, consumers,   *)
(* checkpoints, calls and faults.                                          *)
(*                                                                         *)
(* Rows are never deleted and cursors never fall (RowsGrow), so what a     *)
(* request has read can only be behind the row, an answer stays true after *)
(* it was given, and a change a caller was told of stays in the row.       *)
(***************************************************************************)
EXTENDS AuditConsumers, TLAPS

\* The consumer a caller registered exists, and the cursor has passed what it
\* acknowledged.
ChangeStands(p) ==
  reply[p].changed =>
    Exists(call[p].key) /\ call[p].checkpoint <= consumer[call[p].key].cursor

\* A registration has a name, an acknowledgement has a checkpoint.
IsWellStarted(p) ==
  /\ pc[p] \in {"register", "insert", "settle"} =>
       call[p].name # NoName /\ call[p].checkpoint = 0
  /\ pc[p] \in {"read", "classify", "update", "reload"} => call[p].checkpoint >= 1

RequestInv(p) ==
  /\ IsWellStarted(p)
  /\ IsBehind(p)
  /\ pc[p] = "idle" => AnswerIsTrue(p) /\ ChangeStands(p)

ConsumersInv == TypeOK /\ (\A p \in Callers : RequestInv(p)) /\ ChangesHaveOneAuthor

\* Consumers are not deleted, cursors do not fall, the chain does not shrink.
RowsGrow ==
  /\ sealed <= sealed'
  /\ \A k \in Keys : /\ Exists(k) => Exists(k)'
                     /\ consumer[k].cursor <= consumer'[k].cursor

Untouched(p) == pc'[p] = pc[p] /\ call'[p] = call[p] /\ reply'[p] = reply[p]

-----------------------------------------------------------------------------
LEMMA InitInv == Init => ConsumersInv
  BY ConsumersAssumption
  DEF Init, ConsumersInv, RequestInv, IsWellStarted, TypeOK, IsBehind, AnswerIsTrue, ChangeStands,
      ChangesHaveOneAuthor, Exists, Conflicts

Labels == {"idle", "register", "insert", "settle", "read", "classify", "update", "reload"}

Replies ==
  [status : {"none", "ok", "lost", "NOT_FOUND", "IDEMPOTENCY_CONFLICT"} \cup Conflicts,
   changed : BOOLEAN, cursor : Nat]

LEMMA AnswerType ==
  ASSUME TypeOK, NEW p \in Callers, NEW status, NEW changed \in BOOLEAN, NEW cursor \in Nat,
         status \in {"none", "ok", "lost", "NOT_FOUND", "IDEMPOTENCY_CONFLICT"} \cup Conflicts,
         Answer(p, status, changed, cursor)
  PROVE  pc' \in [Callers -> Labels] /\ reply' \in [Callers -> Replies]
  BY DEF TypeOK, Answer, Goto, Labels, Replies

LEMMA AnswerFromRowType ==
  ASSUME TypeOK, NEW p \in Callers, AnswerFromRow(p)
  PROVE  pc' \in [Callers -> Labels] /\ reply' \in [Callers -> Replies]
<1> DEFINE row == consumer[call[p].key]
           status == IF row.name = call[p].name THEN "ok" ELSE "IDEMPOTENCY_CONFLICT"
<1>1. row.cursor \in Nat
  BY DEF TypeOK
<1>2. status \in {"none", "ok", "lost", "NOT_FOUND", "IDEMPOTENCY_CONFLICT"} \cup Conflicts
  OBVIOUS
<1>3. Answer(p, status, FALSE, row.cursor)
  BY DEF AnswerFromRow
<1> QED
  BY <1>1, <1>2, <1>3, AnswerType

LEMMA TypeStep ==
  ASSUME TypeOK, NEW p \in Callers, IsBehind(p), Caller(p)
  PROVE  TypeOK'
<1> USE ConsumersAssumption DEF TypeOK, Exists
<1>1. CASE Register(p)
  BY <1>1 DEF Register, Start, Goto
<1>2. CASE CheckKey(p)
  <2>1. CASE AnswerFromRow(p)
    BY <1>2, <2>1, AnswerFromRowType DEF CheckKey, Labels, Replies
  <2>2. CASE ~ AnswerFromRow(p)
    BY <1>2, <2>2 DEF CheckKey, Goto
  <2> QED
    BY <2>1, <2>2
<1>3. CASE Insert(p)
  <2> DEFINE k == call[p].key
  <2>1. CASE KeyIsFree(k)
    <3>1. consumer' = [consumer EXCEPT ![k] = [name |-> call[p].name, cursor |-> 0]]
      BY <1>3, <2>1 DEF Insert
    <3>2. consumer' \in [Keys -> [name : Names \cup {NoName}, cursor : 0 .. sealed]]
      BY <3>1
    <3>3. \A j \in Keys : consumer'[j].name = NoName => consumer'[j].cursor = 0
      BY <3>1
    <3>4. pc' \in [Callers -> Labels] /\ reply' \in [Callers -> Replies]
      BY <1>3, <2>1, AnswerType DEF Insert
    <3> QED
      BY <1>3, <3>2, <3>3, <3>4 DEF Insert, Labels, Replies
  <2>2. CASE ~ KeyIsFree(k)
    BY <1>3, <2>2 DEF Insert, Goto
  <2> QED
    BY <2>1, <2>2
<1>4. CASE SettleFromRow(p)
  BY <1>4, AnswerFromRowType DEF SettleFromRow, Labels, Replies
<1>5. CASE Acknowledge(p)
  BY <1>5 DEF Acknowledge, Start, Checkpoints, Goto
<1>6. CASE ReadCursor(p)
  <2>1. CASE Exists(call[p].key)
    <3> DEFINE cursor == consumer[call[p].key].cursor
    <3>1. cursor \in Nat
      OBVIOUS
    <3>2. /\ call' = [call EXCEPT ![p].current = cursor]
          /\ pc' = [pc EXCEPT ![p] = "classify"]
          /\ UNCHANGED <<consumer, sealed, reply, calls, faults>>
      BY <1>6, <2>1 DEF ReadCursor, Goto
    <3>3. call' \in [Callers -> [key : Keys, name : Names \cup {NoName}, checkpoint : Nat,
                                current : Nat]]
      BY <3>1, <3>2
    <3> QED
      BY <3>2, <3>3
  <2>2. CASE ~ Exists(call[p].key)
    BY <1>6, <2>2, AnswerType DEF ReadCursor, Labels, Replies
  <2> QED
    BY <2>1, <2>2
<1>7. CASE ClassifySubmitted(p)
  <2> DEFINE conflict == Conflict(call[p].current, call[p].checkpoint)
  <2>1. conflict \in {"none"} \cup Conflicts
    BY DEF Conflict, Conflicts
  <2>2. CASE Goto(p, "update") /\ UNCHANGED reply
    BY <1>7, <2>2 DEF ClassifySubmitted, Goto
  <2>3. CASE Answer(p, "NOT_FOUND", FALSE, 0)
    BY <1>7, <2>3, AnswerType DEF ClassifySubmitted, Labels, Replies
  <2>4. CASE conflict # "none" /\ Answer(p, conflict, FALSE, call[p].current)
    BY <1>7, <2>1, <2>4, AnswerType DEF ClassifySubmitted, Labels, Replies
  <2> QED
    BY <1>7, <2>2, <2>3, <2>4 DEF ClassifySubmitted
<1>8. CASE Advance(p)
  <2> DEFINE k == call[p].key
             n == call[p].checkpoint
  <2>1. CASE CursorMatches(p)
    <3>1. consumer' = [consumer EXCEPT ![k].cursor = n]
      BY <1>8, <2>1 DEF Advance, CursorMatches
    <3>2. n \in 0 .. sealed /\ consumer[k].name # NoName
      BY <1>8 DEF Advance, IsBehind
    <3>3. consumer' \in [Keys -> [name : Names \cup {NoName}, cursor : 0 .. sealed]]
      BY <3>1, <3>2
    <3>4. \A j \in Keys : consumer'[j].name = NoName => consumer'[j].cursor = 0
      BY <3>1, <3>2
    <3>5. pc' \in [Callers -> Labels] /\ reply' \in [Callers -> Replies]
      BY <1>8, <2>1, AnswerType DEF Advance, CursorMatches
    <3> QED
      BY <1>8, <3>3, <3>4, <3>5 DEF Advance, Labels, Replies
  <2>2. CASE ~ CursorMatches(p)
    BY <1>8, <2>2 DEF Advance, Goto
  <2> QED
    BY <2>1, <2>2
<1>9. CASE ReloadAndClassify(p)
  <2> DEFINE conflict == Conflict(Reloaded(p), call[p].checkpoint)
             status == IF conflict = "none" THEN "SKIPPED" ELSE conflict
  <2>1. conflict \in {"none"} \cup Conflicts
    BY DEF Conflict, Conflicts
  <2>2. status \in Conflicts
    BY <2>1 DEF Conflicts
  <2>3. Reloaded(p) \in Nat
    BY DEF Reloaded
  <2>4. Answer(p, status, FALSE, Reloaded(p))
    BY <1>9 DEF ReloadAndClassify
  <2>5. pc' \in [Callers -> Labels] /\ reply' \in [Callers -> Replies]
    BY <2>2, <2>3, <2>4, AnswerType
  <2> QED
    BY <1>9, <2>5 DEF ReloadAndClassify, Labels, Replies
<1>10. CASE Fault(p)
  <2>1. pc' \in [Callers -> Labels] /\ reply' \in [Callers -> Replies]
    BY <1>10, AnswerType DEF Fault
  <2>2. faults' \in 0 .. MaxFaults
    BY <1>10 DEF Fault
  <2> QED
    BY <1>10, <2>1, <2>2 DEF Fault, Labels, Replies
<1> QED
  BY <1>1, <1>2, <1>3, <1>4, <1>5, <1>6, <1>7, <1>8, <1>9, <1>10 DEF Caller

LEMMA CallerGrowsRows ==
  ASSUME TypeOK, NEW p \in Callers, IsBehind(p), Caller(p)
  PROVE  RowsGrow
<1> DEFINE k == call[p].key
<1>1. k \in Keys /\ consumer[k].cursor \in Nat
  BY DEF TypeOK
<1>2. \A j \in Keys : consumer[j].cursor \in Nat
  BY DEF TypeOK
<1>3. sealed' = sealed /\ sealed \in Nat
  <2>1. sealed' = sealed
    BY DEF Caller, Register, CheckKey, Insert, SettleFromRow, Acknowledge, ReadCursor,
           ClassifySubmitted, Advance, ReloadAndClassify, Fault, Start
  <2> QED
    BY <2>1, ConsumersAssumption DEF TypeOK
<1>4. CASE Insert(p) /\ ~ Exists(k)
  <2>1. /\ consumer' = [consumer EXCEPT ![k] = [name |-> call[p].name, cursor |-> 0]]
        /\ consumer[k].cursor = 0
    BY <1>1, <1>4 DEF Insert, KeyIsFree, TypeOK
  <2> QED
    BY <1>1, <1>2, <1>3, <1>4, <2>1 DEF RowsGrow, Exists, TypeOK
<1>5. CASE Advance(p) /\ CursorMatches(p)
  <2>1. /\ consumer' = [consumer EXCEPT ![k].cursor = call[p].checkpoint]
        /\ consumer[k].cursor <= call[p].checkpoint
    BY <1>1, <1>5 DEF Advance, CursorMatches, IsBehind
  <2> QED
    BY <1>1, <1>2, <1>3, <2>1 DEF RowsGrow, Exists, TypeOK
<1>6. CASE UNCHANGED consumer
  BY <1>2, <1>3, <1>6 DEF RowsGrow, Exists
<1> QED
  BY <1>4, <1>5, <1>6
  DEF Caller, Register, CheckKey, Insert, SettleFromRow, Acknowledge, ReadCursor,
      ClassifySubmitted, Advance, ReloadAndClassify, Fault, Start, KeyIsFree, CursorMatches

LEMMA OthersAreUntouched ==
  ASSUME TypeOK, NEW p \in Callers, Caller(p), NEW q \in Callers, q # p
  PROVE  Untouched(q)
  BY DEF TypeOK, Untouched, Caller, Register, CheckKey, Insert, SettleFromRow, Acknowledge,
         ReadCursor, ClassifySubmitted, Advance, ReloadAndClassify, Fault, Start, Answer,
         Goto, AnswerFromRow

\* What holds for a request that does nothing keeps holding while rows grow.
LEMMA UntouchedKeepsInv ==
  ASSUME TypeOK, TypeOK', RowsGrow, NEW q \in Callers, Untouched(q), RequestInv(q)
  PROVE  RequestInv(q)'
<1>1. call[q].key \in Keys /\ call[q].current \in Nat /\ call[q].checkpoint \in Nat
      /\ reply[q].cursor \in Nat
  BY DEF TypeOK
<1>2. /\ consumer[call[q].key].cursor \in Nat
      /\ consumer'[call[q].key].cursor \in Nat
      /\ sealed \in Nat /\ sealed' \in Nat
  BY <1>1 DEF TypeOK
<1> QED
  BY <1>1, <1>2 DEF Untouched, RowsGrow, RequestInv, IsWellStarted, IsBehind, AnswerIsTrue, ChangeStands

-----------------------------------------------------------------------------
(***************************************************************************)
(* The request that takes a step.                                          *)
(***************************************************************************)

\* What a conflict has to satisfy to be true now and for ever.
ConflictIsRight(status, n, at) ==
  /\ status = "NOT_FIRST" => at = 0 /\ n > 1
  /\ status = "DUPLICATE" => at = n
  /\ status = "REGRESSED" => at > n
  /\ status = "SKIPPED" => at > 0 /\ n > at + 1

LEMMA RefusedKeepsInv ==
  ASSUME TypeOK, NEW p \in Callers, NEW status, NEW cursor \in Nat,
         Answer(p, status, FALSE, cursor), call' = call,
         cursor <= consumer'[call[p].key].cursor,
         ConflictIsRight(status, call[p].checkpoint, cursor)
  PROVE  RequestInv(p)'
<1>1. pc'[p] = "idle"
  BY DEF TypeOK, Answer, Goto
<1>2. reply'[p] = [status |-> status, changed |-> FALSE, cursor |-> cursor]
  BY DEF TypeOK, Answer
<1> QED
  BY <1>1, <1>2
  DEF RequestInv, IsWellStarted, IsBehind, AnswerIsTrue, ChangeStands, ConflictIsRight

LEMMA LostKeepsInv ==
  ASSUME TypeOK, TypeOK', NEW p \in Callers, NEW status \in {"NOT_FOUND", "lost"},
         Answer(p, status, FALSE, 0), call' = call
  PROVE  RequestInv(p)'
<1>1. pc'[p] = "idle"
  BY DEF TypeOK, Answer, Goto
<1>2. reply'[p] = [status |-> status, changed |-> FALSE, cursor |-> 0]
  BY DEF TypeOK, Answer
<1>3. consumer'[call'[p].key].cursor \in Nat
  BY DEF TypeOK
<1> QED
  BY <1>1, <1>2, <1>3 DEF RequestInv, IsWellStarted, IsBehind, AnswerIsTrue, ChangeStands

LEMMA ChangedKeepsInv ==
  ASSUME TypeOK, NEW p \in Callers, Answer(p, "ok", TRUE, call[p].checkpoint), call' = call,
         Exists(call[p].key)', consumer'[call[p].key].cursor = call[p].checkpoint
  PROVE  RequestInv(p)'
<1>1. pc'[p] = "idle"
  BY DEF TypeOK, Answer, Goto
<1>2. reply'[p] = [status |-> "ok", changed |-> TRUE, cursor |-> call[p].checkpoint]
  BY DEF TypeOK, Answer
<1>3. call[p].checkpoint \in Nat
  BY DEF TypeOK
<1> QED
  BY <1>1, <1>2, <1>3
  DEF RequestInv, IsWellStarted, IsBehind, AnswerIsTrue, ChangeStands, Exists

\* _classify speaks the truth about the cursor it is given.
LEMMA ConflictFacts ==
  ASSUME NEW at \in Nat, NEW n \in Nat, n >= 1
  PROVE  /\ ConflictIsRight(Conflict(at, n), n, at)
         /\ Conflict(at, n) = "none" <=> n = at + 1
  BY DEF Conflict, ConflictIsRight

LEMMA ActingKeepsInv ==
  ASSUME TypeOK, TypeOK', RowsGrow, NEW p \in Callers, RequestInv(p), Caller(p)
  PROVE  RequestInv(p)'
<1> DEFINE k == call[p].key
           n == call[p].checkpoint
           row == consumer[k]
<1>1. k \in Keys /\ n \in Nat /\ call[p].current \in Nat
  BY DEF TypeOK
<1>2. row.cursor \in Nat /\ consumer'[k].cursor \in Nat /\ row.cursor <= consumer'[k].cursor
  BY <1>1 DEF TypeOK, RowsGrow
<1>3. CASE Register(p)
  BY <1>3, ConsumersAssumption
  DEF Register, Start, Goto, TypeOK, RequestInv, IsWellStarted, IsBehind
<1>4. CASE Acknowledge(p)
  BY <1>4 DEF Acknowledge, Start, Goto, Checkpoints, TypeOK, RequestInv, IsWellStarted, IsBehind
<1>5. ASSUME AnswerFromRow(p), call' = call
      PROVE  RequestInv(p)'
  <2> DEFINE status == IF row.name = call[p].name THEN "ok" ELSE "IDEMPOTENCY_CONFLICT"
  <2>1. Answer(p, status, FALSE, row.cursor)
    BY <1>5 DEF AnswerFromRow
  <2>2. ConflictIsRight(status, n, row.cursor)
    BY DEF ConflictIsRight
  <2> QED
    BY <1>2, <1>5, <2>1, <2>2, RefusedKeepsInv
<1>6. CASE CheckKey(p)
  <2>1. CASE AnswerFromRow(p)
    BY <1>5, <1>6, <2>1 DEF CheckKey
  <2>2. CASE Goto(p, "insert") /\ UNCHANGED reply
    BY <1>6, <2>2 DEF CheckKey, Goto, TypeOK, RequestInv, IsWellStarted, IsBehind
  <2> QED
    BY <1>6, <2>1, <2>2 DEF CheckKey
<1>7. CASE Insert(p)
  <2>1. CASE KeyIsFree(k)
    <3>1. Answer(p, "ok", TRUE, 0) /\ call' = call
      BY <1>7, <2>1 DEF Insert
    <3>2. consumer'[k] = [name |-> call[p].name, cursor |-> 0]
      BY <1>1, <1>7, <2>1 DEF Insert, TypeOK
    <3>3. call[p].name # NoName /\ n = 0
      BY <1>7 DEF Insert, RequestInv, IsWellStarted
    <3>4. Exists(k)' /\ consumer'[k].cursor = n
      BY <3>1, <3>2, <3>3 DEF Exists
    <3> QED
      BY <3>1, <3>3, <3>4, ChangedKeepsInv
  <2>2. CASE ~ KeyIsFree(k)
    BY <1>7, <2>2 DEF Insert, KeyIsFree, Goto, TypeOK, RequestInv, IsWellStarted, IsBehind, Exists
  <2> QED
    BY <2>1, <2>2
<1>8. CASE SettleFromRow(p)
  BY <1>5, <1>8 DEF SettleFromRow
<1>9. CASE ReadCursor(p)
  <2>1. CASE ~ Exists(k)
    <3>1. Answer(p, "NOT_FOUND", FALSE, 0) /\ call' = call
      BY <1>9, <2>1 DEF ReadCursor
    <3> QED
      BY <3>1, LostKeepsInv
  <2>2. CASE Exists(k)
    <3>1. /\ pc' = [pc EXCEPT ![p] = "classify"] /\ UNCHANGED consumer
          /\ call' = [call EXCEPT ![p].current = row.cursor]
          /\ n >= 1
      BY <1>9, <2>2 DEF ReadCursor, Goto, RequestInv, IsWellStarted
    <3>2. /\ call'[p].key = k /\ call'[p].current = row.cursor /\ call'[p].checkpoint = n
          /\ pc'[p] = "classify"
      BY <3>1 DEF TypeOK
    <3> QED
      BY <1>2, <2>2, <3>1, <3>2 DEF RequestInv, IsWellStarted, IsBehind, Exists
  <2> QED
    BY <2>1, <2>2
<1>10. CASE ClassifySubmitted(p)
  <2> DEFINE conflict == Conflict(call[p].current, n)
  <2>1. n >= 1 /\ Exists(k) /\ call[p].current <= row.cursor /\ call' = call
    BY <1>10 DEF ClassifySubmitted, RequestInv, IsWellStarted, IsBehind
  <2>2. /\ ConflictIsRight(conflict, n, call[p].current)
        /\ conflict = "none" <=> n = call[p].current + 1
    BY <1>1, <2>1, ConflictFacts
  <2>3. CASE Answer(p, "NOT_FOUND", FALSE, 0)
    BY <2>1, <2>3, LostKeepsInv
  <2>4. CASE Answer(p, conflict, FALSE, call[p].current)
    <3>1. call[p].current <= consumer'[k].cursor
      BY <1>1, <1>2, <2>1
    <3> QED
      BY <1>1, <2>1, <2>2, <2>4, <3>1, RefusedKeepsInv
  <2>5. CASE IsSealed(n) /\ conflict = "none" /\ Goto(p, "update") /\ UNCHANGED reply
    <3>1. UNCHANGED <<consumer, sealed, call>>
      BY <1>10 DEF ClassifySubmitted
    <3> QED
      BY <2>1, <2>2, <2>5, <3>1
      DEF IsSealed, Goto, TypeOK, RequestInv, IsWellStarted, IsBehind, Exists
  <2> QED
    BY <1>10, <2>3, <2>4, <2>5 DEF ClassifySubmitted
<1>11. CASE Advance(p)
  <2>1. /\ n = call[p].current + 1 /\ n >= 1 /\ Exists(k)
        /\ call[p].current <= row.cursor
        /\ call' = call /\ sealed' = sealed
    BY <1>11 DEF Advance, RequestInv, IsWellStarted, IsBehind
  <2>2. CASE CursorMatches(p)
    <3>1. Answer(p, "ok", TRUE, n)
      BY <1>11, <2>2 DEF Advance
    <3>2. consumer'[k].cursor = n /\ Exists(k)'
      BY <1>1, <1>11, <2>1, <2>2 DEF Advance, TypeOK, Exists
    <3> QED
      BY <2>1, <3>1, <3>2, ChangedKeepsInv
  <2>3. CASE ~ CursorMatches(p)
    <3>1. Goto(p, "reload") /\ UNCHANGED <<consumer, reply>>
      BY <1>11, <2>3 DEF Advance
    <3> QED
      BY <1>11, <2>1, <2>3, <3>1
      DEF Advance, CursorMatches, Goto, TypeOK, RequestInv, IsWellStarted, IsBehind, Exists
  <2> QED
    BY <2>2, <2>3
<1>12. CASE ReloadAndClassify(p)
  <2>1. /\ n = call[p].current + 1 /\ n >= 1 /\ call[p].current < row.cursor
        /\ call' = call
    BY <1>1, <1>2, <1>12 DEF ReloadAndClassify, RequestInv, IsWellStarted, IsBehind
  <2>2. /\ ConflictIsRight(Conflict(row.cursor, n), n, row.cursor)
        /\ Conflict(row.cursor, n) # "none"
    BY <1>1, <1>2, <2>1, ConflictFacts
  <2>3. Answer(p, Conflict(row.cursor, n), FALSE, row.cursor)
    BY <1>12, <2>2 DEF ReloadAndClassify, Reloaded
  <2> QED
    BY <1>2, <2>1, <2>2, <2>3, RefusedKeepsInv
<1>13. CASE Fault(p)
  <2>1. Answer(p, "lost", FALSE, 0) /\ call' = call
    BY <1>13 DEF Fault
  <2> QED
    BY <2>1, LostKeepsInv
<1> QED
  BY <1>3, <1>4, <1>6, <1>7, <1>8, <1>9, <1>10, <1>11, <1>12, <1>13 DEF Caller

-----------------------------------------------------------------------------
(***************************************************************************)
(* Every step.                                                             *)
(***************************************************************************)

\* A caller is told of a change only in the step that makes it.
LEMMA ChangeIsNew ==
  ASSUME TypeOK, NEW p \in Callers, IsBehind(p), Caller(p), pc'[p] = "idle", reply'[p].changed
  PROVE  /\ call'[p] = call[p]
         /\ Exists(call[p].key) => call[p].checkpoint > consumer[call[p].key].cursor
<1> USE DEF TypeOK, Answer, Goto
<1>1. CASE Insert(p)
  BY <1>1 DEF Insert, KeyIsFree
<1>2. CASE Advance(p)
  BY <1>2 DEF Advance, CursorMatches, IsBehind
<1> QED
  BY <1>1, <1>2
  DEF Caller, Register, CheckKey, SettleFromRow, Acknowledge, ReadCursor, ClassifySubmitted,
      ReloadAndClassify, Fault, Start, AnswerFromRow

LEMMA AuthorStep ==
  ASSUME ConsumersInv, NEW p \in Callers, Caller(p)
  PROVE  ChangesHaveOneAuthor'
<1> DEFINE Told(q) == pc[q] = "idle" /\ reply[q].changed
<1>1. \A q \in Callers \ {p} : Untouched(q)
  BY OthersAreUntouched DEF ConsumersInv
<1>2. \A q \in Callers \ {p} :
        ~ (Told(p)' /\ Told(q) /\ call[p].key = call[q].key
                    /\ call[p].checkpoint = call[q].checkpoint)
  <2> SUFFICES ASSUME NEW q \in Callers \ {p}, Told(p)', Told(q),
                      call[p].key = call[q].key, call[p].checkpoint = call[q].checkpoint
               PROVE  FALSE
    OBVIOUS
  <2>1. Exists(call[p].key) => call[p].checkpoint > consumer[call[p].key].cursor
    BY ChangeIsNew DEF ConsumersInv, RequestInv
  <2>2. Exists(call[q].key) /\ call[q].checkpoint <= consumer[call[q].key].cursor
    BY DEF ConsumersInv, RequestInv, ChangeStands
  <2>3. call[q].checkpoint \in Nat /\ consumer[call[q].key].cursor \in Nat
    BY DEF ConsumersInv, TypeOK
  <2> QED
    BY <2>1, <2>2, <2>3
<1>3. Told(p)' => call'[p] = call[p]
  BY ChangeIsNew DEF ConsumersInv, RequestInv
<1> QED
  BY <1>1, <1>2, <1>3 DEF ChangesHaveOneAuthor, ConsumersInv, Untouched

LEMMA InvStep == ConsumersInv /\ [Next]_vars => ConsumersInv'
<1> SUFFICES ASSUME ConsumersInv, [Next]_vars
             PROVE  ConsumersInv'
  OBVIOUS
<1>1. CASE UNCHANGED vars
  BY <1>1 DEF vars, ConsumersInv, TypeOK, RequestInv, IsWellStarted, IsBehind, AnswerIsTrue,
              ChangeStands, ChangesHaveOneAuthor, Exists
<1>2. CASE SealCheckpoint
  <2>1. TypeOK'
    BY <1>2, ConsumersAssumption DEF SealCheckpoint, ConsumersInv, TypeOK, Exists
  <2>2. RowsGrow
    BY <1>2, ConsumersAssumption DEF SealCheckpoint, ConsumersInv, TypeOK, Exists, RowsGrow
  <2>3. \A q \in Callers : Untouched(q)
    BY <1>2 DEF SealCheckpoint, Untouched
  <2>4. \A q \in Callers : RequestInv(q)'
    BY <2>1, <2>2, <2>3, UntouchedKeepsInv DEF ConsumersInv
  <2>5. ChangesHaveOneAuthor'
    BY <1>2 DEF SealCheckpoint, ConsumersInv, ChangesHaveOneAuthor
  <2> QED
    BY <2>1, <2>4, <2>5 DEF ConsumersInv
<1>3. ASSUME NEW p \in Callers, Caller(p)
      PROVE  ConsumersInv'
  <2>1. TypeOK /\ IsBehind(p) /\ RequestInv(p)
    BY DEF ConsumersInv, RequestInv
  <2>2. TypeOK' /\ RowsGrow
    BY <1>3, <2>1, TypeStep, CallerGrowsRows
  <2>3. RequestInv(p)'
    BY <1>3, <2>1, <2>2, ActingKeepsInv
  <2>4. \A q \in Callers \ {p} : RequestInv(q)'
    BY <1>3, <2>1, <2>2, OthersAreUntouched, UntouchedKeepsInv DEF ConsumersInv
  <2>5. ChangesHaveOneAuthor'
    BY <1>3, AuthorStep
  <2> QED
    BY <2>2, <2>3, <2>4, <2>5 DEF ConsumersInv
<1> QED
  BY <1>1, <1>2, <1>3 DEF Next

\* The inductive invariant holds in every reachable state.
THEOREM ConsumersInvHolds == Spec => []ConsumersInv
  BY InitInv, InvStep, PTL DEF Spec

\* Columns and local variables keep their domains, and no cursor lies beyond the chain.
THEOREM TypeCorrect == Spec => []TypeOK
<1>1. ConsumersInv => TypeOK
  BY DEF ConsumersInv
<1> QED
  BY <1>1, ConsumersInvHolds, PTL

\* What a request has read is never ahead of the committed row
\* (acknowledge_checkpoint).
THEOREM StaleReadsAreBehind == Spec => [](TypeOK /\ ReadsAreBehind)
<1>1. ConsumersInv => TypeOK /\ ReadsAreBehind
  BY DEF ConsumersInv, ReadsAreBehind, RequestInv
<1> QED
  BY <1>1, ConsumersInvHolds, PTL

\* Every conflict that a caller was told is right, also after a lost race
\* (acknowledge_checkpoint).
THEOREM ConflictsAreJustified == Spec => []ConflictsAreTrue
<1>1. ConsumersInv => ConflictsAreTrue
  BY DEF ConsumersInv, ConflictsAreTrue, RequestInv
<1> QED
  BY <1>1, ConsumersInvHolds, PTL

\* Exactly one request makes each change (the conditional UPDATE of
\* acknowledge_checkpoint, the unique index of register_consumer).
THEOREM ChangesAreMadeOnce == Spec => []ChangesHaveOneAuthor
<1>1. ConsumersInv => ChangesHaveOneAuthor
  BY DEF ConsumersInv
<1> QED
  BY <1>1, ConsumersInvHolds, PTL

\* A cursor climbs the chain one checkpoint at a time and never falls
\* (acknowledge_checkpoint).
THEOREM CursorsOnlyClimb == Spec => CursorsClimb
<1> DEFINE Climb(k) ==
             consumer'[k].cursor # consumer[k].cursor =>
               /\ Exists(k)
               /\ consumer'[k].cursor = consumer[k].cursor + 1
               /\ consumer'[k].cursor <= sealed
<1>1. ConsumersInv /\ [Next]_vars => [\A k \in Keys : Climb(k)]_vars
  <2> SUFFICES ASSUME ConsumersInv, Next, NEW k \in Keys
               PROVE  Climb(k)
    OBVIOUS
  <2>1. CASE SealCheckpoint
    BY <2>1 DEF SealCheckpoint
  <2>2. ASSUME NEW p \in Callers, Caller(p)
        PROVE  Climb(k)
    <3>1. TypeOK /\ IsBehind(p)
      BY DEF ConsumersInv, RequestInv
    <3>2. CASE Insert(p)
      <4>1. CASE KeyIsFree(call[p].key)
        <5>1. consumer' = [consumer EXCEPT ![call[p].key] = [name |-> call[p].name, cursor |-> 0]]
          BY <3>2, <4>1 DEF Insert
        <5>2. consumer[call[p].key].cursor = 0 /\ call[p].key \in Keys
          BY <3>1, <4>1 DEF KeyIsFree, TypeOK
        <5> QED
          BY <3>1, <5>1, <5>2 DEF TypeOK
      <4>2. CASE ~ KeyIsFree(call[p].key)
        BY <3>2, <4>2 DEF Insert
      <4> QED
        BY <4>1, <4>2
    <3>3. CASE Advance(p)
      <4> DEFINE j == call[p].key
      <4>1. /\ Exists(j) /\ j \in Keys
            /\ call[p].checkpoint = call[p].current + 1 /\ call[p].checkpoint <= sealed
        BY <3>1, <3>3 DEF Advance, IsBehind, TypeOK
      <4>2. CASE CursorMatches(p)
        <5>1. consumer' = [consumer EXCEPT ![j].cursor = call[p].checkpoint]
          BY <3>3, <4>2 DEF Advance
        <5> QED
          BY <3>1, <4>1, <4>2, <5>1 DEF CursorMatches, TypeOK
      <4>3. CASE ~ CursorMatches(p)
        BY <3>3, <4>3 DEF Advance
      <4> QED
        BY <4>2, <4>3
    <3>4. CASE UNCHANGED consumer
      BY <3>4
    <3> QED
      BY <2>2, <3>2, <3>3, <3>4
      DEF Caller, Register, CheckKey, SettleFromRow, Acknowledge, ReadCursor,
          ClassifySubmitted, ReloadAndClassify, Fault, Start
  <2> QED
    BY <2>1, <2>2 DEF Next
<1> QED
  BY <1>1, ConsumersInvHolds, PTL DEF Spec, CursorsClimb

=============================================================================
