--------------------------- MODULE AuditorsProofs ---------------------------
(***************************************************************************)
(* Theorems about Auditors: what an audit system acknowledges it has       *)
(* stored, whatever crashes, is lost or races, and pages lead it through   *)
(* every increment without a gap.                                          *)
(***************************************************************************)
EXTENDS Auditors, ReadsProofs

-----------------------------------------------------------------------------
(***************************************************************************)
(* Requests to the access point.                                           *)
(***************************************************************************)

Row == consumer[AccessPoint]

AccessLabels == {"idle"} \cup Enrolling \cup Acknowledging

GoodStatuses == {"none", "ok", "lost", "DUPLICATE", "REGRESSED"}

Calls == [key : {AccessPoint}, name : {SystemName, NoName}, checkpoint : Nat, current : Nat]

Replies == [status : GoodStatuses, changed : BOOLEAN, cursor : Nat]

\* The row of the access point is never deleted, and its cursor never falls.
RowGrows ==
  /\ C!Exists(AccessPoint) => C!Exists(AccessPoint)'
  /\ Row.cursor <= Row.cursor'

\* What the request of replica a does to the requests of the others.
OthersWait(a) ==
  \A b \in Auditors \ {a} : pc'[b] = pc[b] /\ call'[b] = call[b] /\ reply'[b] = reply[b]

LEMMA RowIsTyped ==
  ASSUME AccessTypeOK
  PROVE  Row.cursor \in 0 .. ChainLength /\ Row.name \in {SystemName, NoName}
BY DEF AccessTypeOK, Row

LEMMA RowStays ==
  ASSUME LedgerOK, AccessTypeOK, UNCHANGED consumer
  PROVE  RowGrows
<1>1. Row.cursor \in Nat
  BY RowIsTyped, Boundaries
<1> QED
  BY <1>1 DEF RowGrows, Row, C!Exists

\* An answer puts a request to rest.
LEMMA Told ==
  ASSUME AccessTypeOK, NEW a \in Auditors,
         NEW status \in GoodStatuses, NEW changed \in BOOLEAN, NEW cursor \in Nat,
         C!Answer(a, status, changed, cursor)
  PROVE  /\ pc' \in [Auditors -> AccessLabels] /\ reply' \in [Auditors -> Replies]
         /\ pc'[a] = "idle" /\ reply'[a].status = status
         /\ \A b \in Auditors \ {a} : pc'[b] = pc[b] /\ reply'[b] = reply[b]
BY DEF AccessTypeOK, C!Answer, C!Goto, AccessLabels, Replies, GoodStatuses

LEMMA AnsweredIsExact ==
  ASSUME LedgerOK, AccessTypeOK, NEW a \in Auditors, AccessIsExact(a), RowGrows,
         pc'[a] = "idle", reply'[a].status = "ok" => C!Exists(AccessPoint)',
         UNCHANGED <<stage, place>>, place[a] \in Nat, Row.cursor' \in Nat
  PROVE  AccessIsExact(a)'
<1>1. Row.cursor \in Nat
  BY RowIsTyped, Boundaries
<1>2. C!IsBehind(a)'
  BY DEF C!IsBehind
<1>3. place'[a] <= consumer'[AccessPoint].cursor + 1
  BY <1>1 DEF AccessIsExact, RowGrows, Row
<1> QED
  BY <1>2, <1>3 DEF AccessIsExact, RowGrows, Enrolling, Acknowledging

\* What a statement of an access request leaves behind.
AccessLeaves(a) ==
  AccessTypeOK' /\ RowGrows /\ AccessIsExact(a)' /\ OthersWait(a)

LEMMA ToldLeaves ==
  ASSUME LedgerOK, AccessTypeOK, NEW a \in Auditors, AccessIsExact(a),
         UNCHANGED <<prefixes, stage, place, call, calls>>, place[a] \in Nat,
         NEW status \in GoodStatuses, NEW changed \in BOOLEAN, NEW cursor \in Nat,
         C!Answer(a, status, changed, cursor),
         status = "ok" => C!Exists(AccessPoint)',
         consumer' \in [{AccessPoint} -> [name : {SystemName, NoName}, cursor : 0 .. ChainLength]],
         C!Exists(AccessPoint)' \/ consumer'[AccessPoint].cursor = 0,
         RowGrows
  PROVE  AccessLeaves(a)
<1>1. /\ pc' \in [Auditors -> AccessLabels] /\ reply' \in [Auditors -> Replies]
      /\ pc'[a] = "idle" /\ reply'[a].status = status
      /\ \A b \in Auditors \ {a} : pc'[b] = pc[b] /\ reply'[b] = reply[b]
  BY Told
<1>2. ChainLength' = ChainLength /\ ChainLength \in Nat
  BY Boundaries DEF ChainLength
<1>3. AccessTypeOK'
  BY <1>1, <1>2 DEF AccessTypeOK, AccessLabels, Replies, GoodStatuses
<1>4. Row.cursor' \in Nat
  BY <1>2 DEF Row
<1>5. AccessIsExact(a)'
  BY <1>1, <1>4, AnsweredIsExact
<1> QED
  BY <1>1, <1>3, <1>5 DEF AccessLeaves, OthersWait

LEMMA RefusedLeaves ==
  ASSUME LedgerOK, AccessTypeOK, NEW a \in Auditors, AccessIsExact(a),
         UNCHANGED <<consumer, prefixes, stage, place, call, calls>>, place[a] \in Nat,
         NEW status \in GoodStatuses, NEW cursor \in Nat, C!Answer(a, status, FALSE, cursor),
         status = "ok" => C!Exists(AccessPoint)
  PROVE  AccessLeaves(a)
<1>1. C!Exists(AccessPoint)' = C!Exists(AccessPoint)
  BY DEF C!Exists
<1>2. /\ consumer' \in [{AccessPoint} -> [name : {SystemName, NoName}, cursor : 0 .. ChainLength]]
      /\ C!Exists(AccessPoint)' \/ consumer'[AccessPoint].cursor = 0
  BY <1>1 DEF AccessTypeOK
<1> QED
  BY <1>1, <1>2, RowStays, ToldLeaves

LEMMA WentOnLeaves ==
  ASSUME LedgerOK, AccessTypeOK, NEW a \in Auditors,
         UNCHANGED <<consumer, prefixes, reply>>, calls' \in Nat,
         NEW label \in AccessLabels, C!Goto(a, label),
         NEW c \in Calls, call' = [call EXCEPT ![a] = c],
         AccessIsExact(a)'
  PROVE  AccessLeaves(a)
<1>1. ChainLength' = ChainLength
  BY DEF ChainLength
<1>2. AccessTypeOK'
  BY <1>1 DEF AccessTypeOK, C!Goto, C!Exists, AccessLabels, Calls
<1>3. OthersWait(a)
  BY DEF AccessTypeOK, C!Goto, OthersWait
<1> QED
  BY <1>2, <1>3, RowStays DEF AccessLeaves

\* A replica that acknowledges does so for a checkpoint that is there.
AccessActs(a) ==
  \/ C!CheckKey(a) \/ C!Insert(a) \/ C!SettleFromRow(a)
  \/ C!ReadCursor(a) \/ C!ClassifySubmitted(a) \/ C!Advance(a) \/ C!ReloadAndClassify(a)
  \/ C!Fault(a)

LEMMA AnswerFromRowLeaves ==
  ASSUME AuditorsAssumption, LedgerOK, AccessTypeOK, NEW a \in Auditors, AccessIsExact(a),
         UNCHANGED <<consumer, prefixes, stage, place, call, calls>>, place[a] \in Nat,
         pc[a] \in Enrolling, C!Exists(AccessPoint), C!AnswerFromRow(a)
  PROVE  AccessLeaves(a)
<1>1. call[a].key = AccessPoint /\ call[a].name = SystemName /\ Row.name = SystemName
  BY RowIsTyped DEF AccessTypeOK, AccessIsExact, C!Exists, Row
<1>2. C!Answer(a, "ok", FALSE, Row.cursor)
  BY <1>1 DEF C!AnswerFromRow, Row
<1>3. Row.cursor \in Nat
  BY RowIsTyped, Boundaries
<1> QED
  BY <1>2, <1>3, RefusedLeaves DEF GoodStatuses

LEMMA CheckKeyLeaves ==
  ASSUME AuditorsAssumption, LedgerOK, AccessTypeOK, NEW a \in Auditors, AccessIsExact(a),
         UNCHANGED <<prefixes, stage, place>>, place[a] \in Nat, C!CheckKey(a)
  PROVE  AccessLeaves(a)
<1>1. call[a] \in Calls /\ call[a].key = AccessPoint /\ call \in [Auditors -> Calls]
  BY DEF AccessTypeOK, Calls
<1>2. pc[a] = "register" /\ UNCHANGED <<consumer, call, calls>>
  BY DEF C!CheckKey
<1>3. CASE C!Exists(AccessPoint) /\ C!AnswerFromRow(a)
  BY <1>2, <1>3, AnswerFromRowLeaves DEF Enrolling
<1>4. CASE C!Goto(a, "insert") /\ UNCHANGED reply
  <2>1. pc'[a] = "insert"
    BY <1>4 DEF C!Goto, AccessTypeOK
  <2>2. AccessIsExact(a)'
    BY <1>2, <1>4, <2>1 DEF AccessIsExact, C!IsBehind, C!Exists, Enrolling, Acknowledging
  <2>3. call' = [call EXCEPT ![a] = call[a]]
    BY <1>1, <1>2
  <2> QED
    BY <1>1, <1>2, <1>4, <2>2, <2>3, WentOnLeaves DEF AccessLabels, Enrolling, AccessTypeOK
<1> QED
  BY <1>1, <1>3, <1>4 DEF C!CheckKey

LEMMA InsertLeaves ==
  ASSUME AuditorsAssumption, LedgerOK, AccessTypeOK, NEW a \in Auditors, AccessIsExact(a),
         UNCHANGED <<prefixes, stage, place>>, place[a] \in Nat, C!Insert(a)
  PROVE  AccessLeaves(a)
<1>1. call[a] \in Calls /\ call[a].key = AccessPoint /\ call \in [Auditors -> Calls]
  BY DEF AccessTypeOK, Calls
<1>2. pc[a] = "insert" /\ UNCHANGED <<call, calls>> /\ call[a].name = SystemName
  BY DEF C!Insert, AccessIsExact, Enrolling
<1>3. CASE ~ C!Exists(AccessPoint)
  <2>1. /\ consumer' = [consumer EXCEPT ![AccessPoint] = [name |-> SystemName, cursor |-> 0]]
        /\ C!Answer(a, "ok", TRUE, 0)
    BY <1>1, <1>2, <1>3 DEF C!Insert, C!KeyIsFree
  <2>2. consumer'[AccessPoint] = [name |-> SystemName, cursor |-> 0]
    BY <2>1 DEF AccessTypeOK
  <2>3. /\ C!Exists(AccessPoint)'
        /\ consumer' \in [{AccessPoint} -> [name : {SystemName, NoName}, cursor : 0 .. ChainLength]]
    BY <2>1, <2>2, Boundaries DEF C!Exists, AccessTypeOK, AuditorsAssumption
  <2>4. RowGrows
    BY <1>3, <2>2, <2>3 DEF RowGrows, Row, AccessTypeOK
  <2> QED
    BY <1>2, <2>1, <2>3, <2>4, ToldLeaves DEF GoodStatuses
<1>4. CASE C!Exists(AccessPoint)
  <2>1. C!Goto(a, "settle") /\ UNCHANGED <<consumer, reply>>
    BY <1>1, <1>4 DEF C!Insert, C!KeyIsFree
  <2>2. pc'[a] = "settle"
    BY <2>1 DEF C!Goto, AccessTypeOK
  <2>3. AccessIsExact(a)'
    BY <1>1, <1>2, <1>4, <2>1, <2>2 DEF AccessIsExact, C!IsBehind, C!Exists, Enrolling, Acknowledging
  <2>4. call' = [call EXCEPT ![a] = call[a]]
    BY <1>1, <1>2
  <2> QED
    BY <1>1, <1>2, <2>1, <2>3, <2>4, WentOnLeaves DEF AccessLabels, Enrolling, AccessTypeOK
<1> QED
  BY <1>3, <1>4

LEMMA SettleLeaves ==
  ASSUME AuditorsAssumption, LedgerOK, AccessTypeOK, NEW a \in Auditors, AccessIsExact(a),
         UNCHANGED <<prefixes, stage, place>>, place[a] \in Nat, C!SettleFromRow(a)
  PROVE  AccessLeaves(a)
<1>1. pc[a] = "settle" /\ UNCHANGED <<consumer, call, calls>> /\ C!AnswerFromRow(a)
  BY DEF C!SettleFromRow
<1>2. C!Exists(AccessPoint)
  BY <1>1 DEF AccessIsExact, C!IsBehind, C!Exists, AccessTypeOK
<1> QED
  BY <1>1, <1>2, AnswerFromRowLeaves DEF Enrolling

LEMMA ReadCursorLeaves ==
  ASSUME AuditorsAssumption, LedgerOK, AccessTypeOK, NEW a \in Auditors, AccessIsExact(a),
         UNCHANGED <<prefixes, stage, place>>, place[a] \in Nat, C!ReadCursor(a)
  PROVE  AccessLeaves(a)
<1> DEFINE c == [call[a] EXCEPT !.current = Row.cursor]
<1>1. call[a] \in Calls /\ call[a].key = AccessPoint /\ call \in [Auditors -> Calls]
  BY DEF AccessTypeOK, Calls
<1>2. pc[a] = "read" /\ UNCHANGED <<consumer, calls>>
  BY DEF C!ReadCursor
<1>3. stage[a] = "acknowledging" /\ call[a].checkpoint = place[a] /\ C!Exists(AccessPoint)
  BY <1>2 DEF AccessIsExact, Acknowledging
<1>4. C!Goto(a, "classify") /\ UNCHANGED reply /\ call' = [call EXCEPT ![a] = c]
  BY <1>1, <1>3 DEF C!ReadCursor, Row
<1>5. c \in Calls /\ c.current = Row.cursor /\ c.checkpoint = place[a] /\ c.key = AccessPoint
  BY <1>1, <1>3, RowIsTyped, Boundaries DEF Calls
<1> HIDE DEF c
<1>6. pc'[a] = "classify" /\ call'[a] = c
  BY <1>1, <1>4 DEF C!Goto, AccessTypeOK
<1>7. Row.cursor \in Nat
  BY RowIsTyped, Boundaries
<1>8. C!IsBehind(a)'
  BY <1>2, <1>3, <1>5, <1>6, <1>7 DEF C!IsBehind, C!Exists, Row
<1>9. AccessIsExact(a)'
  BY <1>2, <1>3, <1>5, <1>6, <1>8 DEF AccessIsExact, Enrolling, Acknowledging, C!Exists, Row
<1> QED
  BY <1>2, <1>4, <1>5, <1>9, WentOnLeaves DEF AccessLabels, Acknowledging, AccessTypeOK

\* _classify of a checkpoint that is not beyond the successor of the cursor.
LEMMA NoSkip ==
  ASSUME NEW current \in Nat, NEW n \in Nat \ {0}, n <= current + 1
  PROVE  /\ C!Conflict(current, n) \in {"none", "DUPLICATE", "REGRESSED"}
         /\ C!Conflict(current, n) = "none" => n = current + 1
BY DEF C!Conflict

LEMMA ClassifyLeaves ==
  ASSUME AuditorsAssumption, LedgerOK, AccessTypeOK, NEW a \in Auditors, AccessIsExact(a),
         UNCHANGED <<prefixes, stage, place>>, place[a] \in 1 .. ChainLength, C!ClassifySubmitted(a)
  PROVE  AccessLeaves(a)
<1> DEFINE n == call[a].checkpoint
           current == call[a].current
           conflict == C!Conflict(current, n)
<1>1. call[a] \in Calls /\ call[a].key = AccessPoint /\ call \in [Auditors -> Calls]
      /\ current \in Nat /\ ChainLength \in Nat
  BY Boundaries DEF AccessTypeOK, Calls
<1>2. pc[a] = "classify" /\ UNCHANGED <<consumer, call, calls>>
  BY DEF C!ClassifySubmitted
<1>3. n = place[a] /\ n <= current + 1 /\ stage[a] = "acknowledging" /\ C!Exists(AccessPoint)
  BY <1>2 DEF AccessIsExact, Acknowledging
<1>4. C!IsSealed(n) /\ n \in Nat \ {0}
  BY <1>1, <1>3 DEF C!IsSealed
<1>5. conflict \in {"none", "DUPLICATE", "REGRESSED"} /\ (conflict = "none" => n = current + 1)
  BY <1>1, <1>3, <1>4, NoSkip
<1>6. CASE conflict # "none"
  <2>1. C!Answer(a, conflict, FALSE, current)
    BY <1>4, <1>6 DEF C!ClassifySubmitted
  <2>2. conflict \in GoodStatuses /\ conflict # "ok" /\ place[a] \in Nat
    BY <1>1, <1>5, <1>6 DEF GoodStatuses
  <2> HIDE DEF conflict, current
  <2> QED
    BY <1>1, <1>2, <2>1, <2>2, RefusedLeaves
<1>7. CASE conflict = "none"
  <2>1. C!Goto(a, "update") /\ UNCHANGED reply
    BY <1>4, <1>7 DEF C!ClassifySubmitted
  <2>2. pc'[a] = "update"
    BY <2>1 DEF C!Goto, AccessTypeOK
  <2>3. n = current + 1 /\ n <= ChainLength
    BY <1>1, <1>3, <1>5, <1>7
  <2>4. ChainLength' = ChainLength
    BY DEF ChainLength
  <2>5. C!IsBehind(a)'
    BY <1>2, <2>2, <2>3, <2>4 DEF AccessIsExact, C!IsBehind, C!Exists
  <2>6. AccessIsExact(a)'
    BY <1>2, <1>3, <2>2, <2>5 DEF AccessIsExact, Enrolling, Acknowledging, C!Exists
  <2>7. call' = [call EXCEPT ![a] = call[a]]
    BY <1>1, <1>2
  <2> QED
    BY <1>1, <1>2, <2>1, <2>6, <2>7, WentOnLeaves DEF AccessLabels, Acknowledging, AccessTypeOK
<1> QED
  BY <1>6, <1>7

LEMMA AdvanceLeaves ==
  ASSUME AuditorsAssumption, LedgerOK, AccessTypeOK, NEW a \in Auditors, AccessIsExact(a),
         UNCHANGED <<prefixes, stage, place>>, place[a] \in 1 .. ChainLength, C!Advance(a)
  PROVE  /\ AccessLeaves(a)
         /\ Row.cursor' # Row.cursor => Row.cursor' = place[a] /\ place[a] = Row.cursor + 1
<1> DEFINE n == call[a].checkpoint
<1>1. call[a] \in Calls /\ call[a].key = AccessPoint /\ call \in [Auditors -> Calls]
      /\ call[a].current \in Nat /\ ChainLength \in Nat
  BY Boundaries DEF AccessTypeOK, Calls
<1>2. pc[a] = "update" /\ UNCHANGED <<call, calls>>
  BY DEF C!Advance
<1>3. /\ n = place[a] /\ n = call[a].current + 1 /\ stage[a] = "acknowledging"
      /\ C!Exists(AccessPoint) /\ call[a].current <= Row.cursor
  BY <1>1, <1>2 DEF AccessIsExact, C!IsBehind, Acknowledging, Row
<1>4. CASE Row.cursor = call[a].current
  <2>1. /\ consumer' = [consumer EXCEPT ![AccessPoint].cursor = n]
        /\ C!Answer(a, "ok", TRUE, n)
    BY <1>1, <1>4 DEF C!Advance, C!CursorMatches, Row
  <2>2. consumer'[AccessPoint].cursor = n /\ consumer'[AccessPoint].name = Row.name
    BY <2>1 DEF AccessTypeOK, Row
  <2>3. C!Exists(AccessPoint)'
    BY <1>3, <2>2 DEF C!Exists, Row
  <2>4. consumer' \in [{AccessPoint} -> [name : {SystemName, NoName}, cursor : 0 .. ChainLength]]
    BY <1>3, <2>1 DEF AccessTypeOK
  <2>5. RowGrows /\ Row.cursor' = place[a] /\ place[a] = Row.cursor + 1
    BY <1>1, <1>3, <1>4, <2>2, <2>3 DEF RowGrows, Row
  <2>6. n \in Nat /\ place[a] \in Nat
    BY <1>1, <1>3
  <2>7. AccessLeaves(a)
    BY <1>2, <2>1, <2>3, <2>4, <2>5, <2>6, ToldLeaves DEF GoodStatuses
  <2> QED
    BY <2>5, <2>7
<1>5. CASE Row.cursor # call[a].current
  <2>1. C!Goto(a, "reload") /\ UNCHANGED <<consumer, reply>>
    BY <1>1, <1>5 DEF C!Advance, C!CursorMatches, Row
  <2>2. pc'[a] = "reload"
    BY <2>1 DEF C!Goto, AccessTypeOK
  <2>3. ChainLength' = ChainLength
    BY DEF ChainLength
  <2>4. C!IsBehind(a)'
    BY <1>1, <1>2, <1>3, <1>5, <2>1, <2>2, <2>3 DEF AccessIsExact, C!IsBehind, C!Exists, Row
  <2>5. AccessIsExact(a)'
    BY <1>2, <1>3, <2>1, <2>2, <2>4 DEF AccessIsExact, Enrolling, Acknowledging, C!Exists
  <2>6. call' = [call EXCEPT ![a] = call[a]]
    BY <1>1, <1>2
  <2>7. Row.cursor' = Row.cursor
    BY <2>1 DEF Row
  <2>8. AccessLeaves(a)
    BY <1>1, <1>2, <2>1, <2>5, <2>6, WentOnLeaves DEF AccessLabels, Acknowledging, AccessTypeOK
  <2> QED
    BY <2>7, <2>8
<1> QED
  BY <1>4, <1>5

LEMMA ReloadLeaves ==
  ASSUME AuditorsAssumption, LedgerOK, AccessTypeOK, NEW a \in Auditors, AccessIsExact(a),
         UNCHANGED <<prefixes, stage, place>>, place[a] \in 1 .. ChainLength, C!ReloadAndClassify(a)
  PROVE  AccessLeaves(a)
<1> DEFINE n == call[a].checkpoint
           conflict == C!Conflict(Row.cursor, n)
<1>1. call[a].key = AccessPoint /\ call[a].current \in Nat /\ ChainLength \in Nat
      /\ Row.cursor \in Nat
  BY RowIsTyped, Boundaries DEF AccessTypeOK
<1>2. pc[a] = "reload" /\ UNCHANGED <<consumer, call, calls>>
  BY DEF C!ReloadAndClassify
<1>3. /\ n = call[a].current + 1 /\ n \in Nat \ {0} /\ C!Exists(AccessPoint)
      /\ n <= Row.cursor
  BY <1>1, <1>2 DEF AccessIsExact, C!IsBehind, Acknowledging, Row
<1>4. conflict \in {"none", "DUPLICATE", "REGRESSED"} /\ (conflict = "none" => n = Row.cursor + 1)
  BY <1>1, <1>3, NoSkip
<1>5. conflict \in {"DUPLICATE", "REGRESSED"}
  BY <1>1, <1>3, <1>4
<1>6. C!Answer(a, conflict, FALSE, Row.cursor)
  BY <1>1, <1>5 DEF C!ReloadAndClassify, C!Reloaded, Row
<1>7. conflict \in GoodStatuses /\ conflict # "ok" /\ place[a] \in Nat
  BY <1>1, <1>5 DEF GoodStatuses
<1> HIDE DEF conflict
<1> QED
  BY <1>1, <1>2, <1>6, <1>7, RefusedLeaves

LEMMA FaultLeaves ==
  ASSUME AuditorsAssumption, LedgerOK, AccessTypeOK, NEW a \in Auditors, AccessIsExact(a),
         UNCHANGED <<prefixes, stage, place>>, place[a] \in Nat, C!Fault(a)
  PROVE  AccessLeaves(a)
<1>1. UNCHANGED <<consumer, call, calls>> /\ C!Answer(a, "lost", FALSE, 0)
  BY DEF C!Fault
<1> QED
  BY <1>1, RefusedLeaves DEF GoodStatuses

\* Every statement of an access request, and what it does to the cursor.
LEMMA AccessStep ==
  ASSUME AuditorsAssumption, LedgerOK, AccessTypeOK, NEW a \in Auditors, AccessIsExact(a),
         UNCHANGED <<prefixes, stage, place>>, place[a] \in Nat,
         stage[a] = "acknowledging" => place[a] \in 1 .. ChainLength,
         AccessActs(a)
  PROVE  /\ AccessLeaves(a)
         /\ \/ Row.cursor' = Row.cursor \/ Row.cursor' = 0
            \/ stage[a] = "acknowledging" /\ Row.cursor' = place[a] /\ place[a] = Row.cursor + 1
<1>1. pc[a] \in {"classify", "update", "reload"} =>
        stage[a] = "acknowledging" /\ place[a] \in 1 .. ChainLength
  BY DEF AccessIsExact, Acknowledging
<1>2. CASE C!CheckKey(a)
  BY <1>2, CheckKeyLeaves DEF C!CheckKey, Row
<1>3. CASE C!Insert(a)
  <2>1. call[a].key = AccessPoint
    BY DEF AccessTypeOK
  <2>2. \/ consumer' = consumer
        \/ consumer' = [consumer EXCEPT ![AccessPoint] = [name |-> call[a].name, cursor |-> 0]]
    BY <1>3, <2>1 DEF C!Insert
  <2>3. Row.cursor' = Row.cursor \/ Row.cursor' = 0
    BY <2>2 DEF Row, AccessTypeOK
  <2> QED
    BY <1>3, <2>3, InsertLeaves
<1>4. CASE C!SettleFromRow(a)
  BY <1>4, SettleLeaves DEF C!SettleFromRow, Row
<1>5. CASE C!ReadCursor(a)
  BY <1>5, ReadCursorLeaves DEF C!ReadCursor, Row
<1>6. CASE C!ClassifySubmitted(a)
  BY <1>1, <1>6, ClassifyLeaves DEF C!ClassifySubmitted, Row
<1>7. CASE C!Advance(a)
  <2>1. pc[a] = "update"
    BY <1>7 DEF C!Advance
  <2> QED
    BY <1>1, <1>7, <2>1, AdvanceLeaves
<1>8. CASE C!ReloadAndClassify(a)
  BY <1>1, <1>8, ReloadLeaves DEF C!ReloadAndClassify, Row
<1>9. CASE C!Fault(a)
  BY <1>9, FaultLeaves DEF C!Fault, Row
<1> QED
  BY <1>2, <1>3, <1>4, <1>5, <1>6, <1>7, <1>8, <1>9 DEF AccessActs

-----------------------------------------------------------------------------
(***************************************************************************)
(* A replica that waits while others act.                                  *)
(***************************************************************************)

IsServedWell(a) == answer[a].status \notin {"INVALID_CURSOR", "NOT_FOUND"}

\* Everything that holds of a replica.
Held(a) == AccessIsExact(a) /\ PagingIsExact(a) /\ IsTakenExactly(a) /\ IsServedWell(a)

LEMMA AuditGives ==
  ASSUME AuditorsAreInductive
  PROVE  /\ ReadsAreInductive /\ LedgerOK /\ TypeOK /\ AuditTypeOK /\ AccessTypeOK
         /\ AcknowledgedIsStored
         /\ \A a \in Auditors : a \in Readers /\ Held(a) /\ Functions(a) /\ IsReader(a)
<1>1. TypeOK /\ LedgerOK /\ \A r \in Readers : Functions(r) /\ IsReader(r)
  BY InvariantGives DEF AuditorsAreInductive
<1> QED
  BY <1>1, AuditorsAssumption
     DEF AuditorsAreInductive, AuditTypeOK, TakenIsExact, GivenCursorsAreGood, Held, IsServedWell

LEMMA LedgerStandsStill ==
  ASSUME UNCHANGED ledgerVars
  PROVE  /\ log' = log /\ prefixes' = prefixes /\ ChainLength' = ChainLength
         /\ \A n : Boundary(n)' = Boundary(n) /\ Increment(n)' = Increment(n)
BY DEF ledgerVars, ChainLength, Boundary, Increment

LEMMA AccessStays ==
  ASSUME LedgerOK, Growth, AccessTypeOK, NEW b \in Auditors, AccessIsExact(b), RowGrows,
         AccessTypeOK', ChainLength' \in Nat,
         pc'[b] = pc[b], call'[b] = call[b], reply'[b] = reply[b],
         pc[b] # "idle" => stage'[b] = stage[b] /\ place'[b] = place[b],
         stage'[b] \notin {"new", "enrolling"} => C!Exists(AccessPoint),
         place'[b] \in Nat, place'[b] <= Row.cursor + 1
  PROVE  AccessIsExact(b)'
<1>1. /\ Row.cursor \in Nat /\ Row.cursor' \in Nat /\ ChainLength \in Nat
      /\ call[b].current \in Nat /\ call[b].checkpoint \in Nat /\ call[b].key = AccessPoint
      /\ call'[b].key = AccessPoint
  BY RowIsTyped, Boundaries DEF AccessTypeOK, Row
<1>2. ChainLength <= ChainLength'
  BY DEF Growth
<1>3. C!IsBehind(b)'
  <2>1. C!IsBehind(b)
    BY DEF AccessIsExact
  <2> QED
    BY <1>1, <1>2, <2>1 DEF C!IsBehind, RowGrows, Row
<1>4. place'[b] <= consumer'[AccessPoint].cursor + 1
  BY <1>1 DEF RowGrows, Row
<1> QED
  BY <1>3, <1>4 DEF AccessIsExact, RowGrows, Enrolling, Acknowledging

LEMMA PagingStays ==
  ASSUME LedgerOK, Growth, NEW b \in Auditors, PagingIsExact(b), IsTakenExactly(b),
         rpc'[b] = rpc[b], query'[b] = query[b], answer'[b] = answer[b],
         stage'[b] = stage[b], place'[b] = place[b], after'[b] = after[b], taken'[b] = taken[b],
         archive \subseteq archive'
  PROVE  PagingIsExact(b)' /\ IsTakenExactly(b)'
<1>1. CASE stage[b] \in {"new", "enrolling", "learn"}
  BY <1>1 DEF PagingIsExact, IsTakenExactly
<1>2. CASE stage[b] \notin {"new", "enrolling", "learn"}
  <2>1. place[b] \in 1 .. ChainLength
    BY <1>2 DEF IsTakenExactly
  <2>2. place[b] \in 1 .. ChainLength' /\ \A n : n = place[b] => Increment(n)' = Increment(n)
    BY <2>1, PlacesStay
  <2>3. Increment(place[b])' = Increment(place[b])
    BY <2>2
  <2>4. IsTakenExactly(b)'
    BY <1>2, <2>2, <2>3 DEF IsTakenExactly
  <2>5. PagingIsExact(b)'
    BY <1>2, <2>3 DEF PagingIsExact
  <2> QED
    BY <2>4, <2>5
<1> QED
  BY <1>1, <1>2

\* Nothing of replica b moves.
Untouched(b) ==
  /\ pc'[b] = pc[b] /\ call'[b] = call[b] /\ reply'[b] = reply[b]
  /\ rpc'[b] = rpc[b] /\ query'[b] = query[b] /\ answer'[b] = answer[b]
  /\ stage'[b] = stage[b] /\ place'[b] = place[b] /\ after'[b] = after[b] /\ taken'[b] = taken[b]

LEMMA WaitingStays ==
  ASSUME AuditorsAreInductive, Growth, AuditTypeOK', ChainLength' \in Nat, RowGrows,
         archive \subseteq archive', NEW b \in Auditors, Untouched(b)
  PROVE  Held(b)'
<1>1. LedgerOK /\ AuditTypeOK /\ AccessTypeOK /\ Held(b)
  BY AuditGives
<1>2. place[b] \in Nat
  BY <1>1, Boundaries DEF AuditTypeOK
<1>3. AccessIsExact(b)'
  BY <1>1, <1>2, AccessStays DEF Held, Untouched, AuditTypeOK, AccessIsExact, Row
<1>4. PagingIsExact(b)' /\ IsTakenExactly(b)'
  BY <1>1, PagingStays DEF Held, Untouched
<1> QED
  BY <1>1, <1>3, <1>4 DEF Held, IsServedWell, Untouched

-----------------------------------------------------------------------------
(***************************************************************************)
(* A replica that acts.  The ledger stands still meanwhile.                *)
(***************************************************************************)

\* What replica a leaves behind.
Leaves(a) ==
  /\ AuditTypeOK' /\ AcknowledgedIsStored' /\ RowGrows
  /\ archive \subseteq archive'
  /\ Held(a)'
  /\ \A b \in Auditors \ {a} : Untouched(b)

\* What holds before it.
LEMMA BeforeActing ==
  ASSUME AuditorsAreInductive, UNCHANGED ledgerVars, NEW a \in Auditors
  PROVE  /\ LedgerOK /\ TypeOK /\ AuditTypeOK /\ AccessTypeOK /\ AcknowledgedIsStored
         /\ a \in Readers /\ Functions(a) /\ IsReader(a)
         /\ AccessIsExact(a) /\ PagingIsExact(a) /\ IsTakenExactly(a) /\ IsServedWell(a)
         /\ Growth /\ ChainLength \in Nat /\ ChainLength' = ChainLength /\ log' = log
         /\ prefixes' = prefixes
         /\ \A n : Boundary(n)' = Boundary(n) /\ Increment(n)' = Increment(n)
         /\ place[a] \in Nat /\ place[a] <= Row.cursor + 1 /\ Row.cursor \in 0 .. ChainLength
<1>1. LedgerOK /\ AuditTypeOK /\ AccessTypeOK /\ Held(a)
  BY AuditGives
<1>2. ChainLength \in Nat /\ ChainLength' = ChainLength
  BY <1>1, Boundaries, LedgerStandsStill
<1>3. place[a] \in Nat
  BY <1>1, <1>2 DEF AuditTypeOK
<1>4. Growth
  BY <1>1, LedgerStepsGrow
<1> QED
  BY <1>1, <1>2, <1>3, <1>4, AuditGives, LedgerStandsStill, RowIsTyped DEF Held, AccessIsExact, Row

\* The archive only grows, so what was stored for the cursor still is.
LEMMA StoredStays ==
  ASSUME AuditorsAreInductive, UNCHANGED ledgerVars, UNCHANGED consumer, archive \subseteq archive'
  PROVE  AcknowledgedIsStored'
BY AuditGives, LedgerStandsStill DEF AcknowledgedIsStored

\* Steps that do not touch the access point.
LEMMA AccessIsLeft ==
  ASSUME AuditorsAreInductive, UNCHANGED ledgerVars, NEW a \in Auditors, UNCHANGED accessVars,
         pc[a] # "idle" => stage'[a] = stage[a] /\ place'[a] = place[a],
         stage'[a] \notin {"new", "enrolling"} => C!Exists(AccessPoint),
         place'[a] \in Nat, place'[a] <= Row.cursor + 1
  PROVE  /\ AccessTypeOK' /\ RowGrows /\ AccessIsExact(a)'
         /\ pc' = pc /\ call' = call /\ reply' = reply /\ consumer' = consumer
<1>1. LedgerOK /\ AccessTypeOK /\ AccessIsExact(a) /\ Growth
      /\ ChainLength \in Nat /\ ChainLength' = ChainLength
  BY BeforeActing
<1>2. pc' = pc /\ call' = call /\ reply' = reply /\ consumer' = consumer /\ calls' = calls
  BY DEF accessVars
<1>3. AccessTypeOK'
  BY <1>1, <1>2 DEF AccessTypeOK, C!Exists
<1>4. RowGrows
  BY <1>1, <1>2, RowStays
<1>5. AccessIsExact(a)'
  BY <1>1, <1>2, <1>3, <1>4, AccessStays
<1> QED
  BY <1>2, <1>3, <1>4, <1>5

\* A replica that has enrolled has an access point, and works at it when its request rests.
LEMMA RestingReplicas ==
  ASSUME AuditorsAreInductive, NEW a \in Auditors,
         stage[a] \notin {"enrolling", "acknowledging"}
  PROVE  pc[a] = "idle"
<1>1. AccessTypeOK /\ AccessIsExact(a)
  BY AuditGives DEF Held
<1> QED
  BY <1>1 DEF AccessTypeOK, AccessIsExact

\* Steps that move only the stage of a replica, and what it knows.
LEMMA EnrolLeaves ==
  ASSUME AuditorsAreInductive, NEW a \in Auditors, Enrol(a)
  PROVE  Leaves(a)
<1>1. /\ stage[a] = "new" /\ stage' = [stage EXCEPT ![a] = "enrolling"]
      /\ UNCHANGED <<place, after, taken, archive, rpc, query, answer>> /\ UNCHANGED ledgerVars
      /\ C!Register(a)
  BY DEF Enrol, Becomes, vars, ledgerVars
<1>2. /\ LedgerOK /\ AuditTypeOK /\ AccessTypeOK /\ AcknowledgedIsStored
      /\ AccessIsExact(a) /\ PagingIsExact(a) /\ IsTakenExactly(a) /\ IsServedWell(a)
      /\ ChainLength \in Nat /\ ChainLength' = ChainLength /\ log' = log
  BY <1>1, BeforeActing
<1>3. /\ pc' = [pc EXCEPT ![a] = "register"] /\ calls' = calls + 1
      /\ call' = [call EXCEPT ![a] = [key |-> AccessPoint, name |-> SystemName,
                                      checkpoint |-> 0, current |-> 0]]
      /\ UNCHANGED <<consumer, reply>>
  BY <1>1 DEF C!Register, C!Start, C!Goto
<1>4. AccessTypeOK' /\ OthersWait(a)
  BY <1>2, <1>3 DEF AccessTypeOK, OthersWait, C!Exists, Enrolling
<1>5. /\ pc'[a] = "register" /\ call'[a].name = SystemName /\ stage'[a] = "enrolling"
  BY <1>1, <1>2, <1>3 DEF AccessTypeOK, AuditTypeOK
<1>6. AccessIsExact(a)'
  BY <1>1, <1>2, <1>3, <1>5 DEF AccessIsExact, C!IsBehind, C!Exists, Enrolling, Acknowledging
<1>7. PagingIsExact(a)' /\ IsTakenExactly(a)' /\ IsServedWell(a)'
  BY <1>1, <1>2, <1>5 DEF PagingIsExact, IsTakenExactly, IsServedWell
<1>8. AuditTypeOK'
  BY <1>1, <1>2, <1>4 DEF AuditTypeOK, Stages
<1>9. \A b \in Auditors \ {a} : Untouched(b)
  BY <1>1, <1>2, <1>4 DEF Untouched, OthersWait, AuditTypeOK
<1> QED
  BY <1>1, <1>2, <1>3, <1>6, <1>7, <1>8, <1>9, RowStays, StoredStays DEF Leaves, Held

LEMMA EnrolledLeaves ==
  ASSUME AuditorsAreInductive, NEW a \in Auditors, Enrolled(a)
  PROVE  Leaves(a)
<1> DEFINE label == IF reply[a].status = "ok" THEN "learn" ELSE "new"
<1>1. /\ stage[a] = "enrolling" /\ pc[a] = "idle" /\ stage' = [stage EXCEPT ![a] = label]
      /\ UNCHANGED <<place, after, taken, archive, rpc, query, answer>>
      /\ UNCHANGED ledgerVars /\ UNCHANGED accessVars
  BY DEF Enrolled, Becomes, vars, ledgerVars
<1>2. /\ LedgerOK /\ AuditTypeOK /\ AccessTypeOK /\ AcknowledgedIsStored
      /\ AccessIsExact(a) /\ PagingIsExact(a) /\ IsTakenExactly(a) /\ IsServedWell(a)
      /\ ChainLength' = ChainLength /\ log' = log
      /\ place[a] \in Nat /\ place[a] <= Row.cursor + 1
  BY <1>1, BeforeActing
<1>3. stage'[a] = label /\ label \in {"learn", "new"}
      /\ (label = "learn" => C!Exists(AccessPoint))
  BY <1>1, <1>2 DEF AuditTypeOK, AccessIsExact
<1> HIDE DEF label
<1>4. /\ AccessTypeOK' /\ RowGrows /\ AccessIsExact(a)'
      /\ pc' = pc /\ call' = call /\ reply' = reply /\ consumer' = consumer
  BY <1>1, <1>2, <1>3, AccessIsLeft
<1>5. PagingIsExact(a)' /\ IsTakenExactly(a)' /\ IsServedWell(a)'
  BY <1>1, <1>2, <1>3 DEF PagingIsExact, IsTakenExactly, IsServedWell
<1>6. AuditTypeOK'
  BY <1>1, <1>2, <1>3, <1>4 DEF AuditTypeOK, Stages
<1>7. \A b \in Auditors \ {a} : Untouched(b)
  BY <1>1, <1>2, <1>4 DEF Untouched, AuditTypeOK
<1> QED
  BY <1>1, <1>4, <1>5, <1>6, <1>7, StoredStays DEF Leaves, Held

LEMMA LearnLeaves ==
  ASSUME AuditorsAreInductive, NEW a \in Auditors, Learn(a)
  PROVE  Leaves(a)
<1> DEFINE n == Row.cursor + 1
<1>1. /\ stage[a] = "learn" /\ stage' = [stage EXCEPT ![a] = "pull"] /\ Row.cursor < ChainLength
      /\ place' = [place EXCEPT ![a] = n]
      /\ UNCHANGED <<after, taken, archive, rpc, query, answer>>
      /\ UNCHANGED ledgerVars /\ UNCHANGED accessVars
  BY DEF Learn, Becomes, vars, ledgerVars, Row
<1>2. /\ LedgerOK /\ AuditTypeOK /\ AccessTypeOK /\ AcknowledgedIsStored
      /\ AccessIsExact(a) /\ PagingIsExact(a) /\ IsTakenExactly(a) /\ IsServedWell(a)
      /\ ChainLength \in Nat /\ ChainLength' = ChainLength /\ log' = log
      /\ Row.cursor \in 0 .. ChainLength
  BY <1>1, BeforeActing
<1>3. stage'[a] = "pull" /\ place'[a] = n /\ n \in 1 .. ChainLength /\ n \in 0 .. ChainLength
  BY <1>1, <1>2 DEF AuditTypeOK
<1>4. C!Exists(AccessPoint) /\ pc[a] = "idle"
  BY <1>1, <1>2, RestingReplicas DEF AccessIsExact
<1>5. n \in Nat /\ n <= Row.cursor + 1
  BY <1>2
<1> HIDE DEF n
<1>6. /\ AccessTypeOK' /\ RowGrows /\ AccessIsExact(a)'
      /\ pc' = pc /\ call' = call /\ reply' = reply /\ consumer' = consumer
  BY <1>1, <1>3, <1>4, <1>5, AccessIsLeft
<1>7. /\ after[a] = None /\ taken[a] = {} /\ rpc[a] = "idle" /\ answer[a] = NoAnswer
  BY <1>1, <1>2 DEF PagingIsExact
<1>8. PagingIsExact(a)' /\ IsServedWell(a)'
  BY <1>1, <1>2, <1>3, <1>7 DEF PagingIsExact, IsServedWell
<1>9. IsTakenExactly(a)'
  BY <1>1, <1>2, <1>3, <1>7 DEF IsTakenExactly
<1>10. AuditTypeOK'
  BY <1>1, <1>2, <1>3, <1>6 DEF AuditTypeOK, Stages
<1>11. \A b \in Auditors \ {a} : Untouched(b)
  BY <1>1, <1>2, <1>6 DEF Untouched, AuditTypeOK
<1> QED
  BY <1>1, <1>6, <1>8, <1>9, <1>10, <1>11, StoredStays DEF Leaves, Held

\* Steps that move the request of replica a.
LEMMA PullLeaves ==
  ASSUME AuditorsAreInductive, NEW a \in Auditors, Pull(a)
  PROVE  Leaves(a)
<1>1. PICK limit \in Limits : Request(a, Question("page", 0, place[a], after[a], limit))
  BY DEF Pull
<1> DEFINE q == Question("page", 0, place[a], after[a], limit)
<1>2. /\ stage[a] = "pull" /\ stage' = [stage EXCEPT ![a] = "pulling"]
      /\ UNCHANGED <<place, after, taken, archive, answer>>
      /\ UNCHANGED ledgerVars /\ UNCHANGED accessVars
      /\ rpc' = [rpc EXCEPT ![a] = "target"]
      /\ query' = [query EXCEPT ![a] = Started(q)]
  BY <1>1 DEF Pull, Becomes, Request, FirstStatement, Question
<1>3. /\ LedgerOK /\ TypeOK /\ AuditTypeOK /\ AccessTypeOK /\ AcknowledgedIsStored /\ a \in Readers
      /\ AccessIsExact(a) /\ PagingIsExact(a) /\ IsTakenExactly(a) /\ IsServedWell(a)
      /\ ChainLength' = ChainLength /\ log' = log
      /\ \A n : Increment(n)' = Increment(n)
      /\ place[a] \in Nat /\ place[a] <= Row.cursor + 1
  BY <1>2, BeforeActing
<1>4. stage'[a] = "pulling" /\ rpc'[a] = "target" /\ query'[a].asked = q
  BY <1>2, <1>3 DEF AuditTypeOK, TypeOK, Started
<1> HIDE DEF q
<1>5. C!Exists(AccessPoint) /\ pc[a] = "idle"
  BY <1>2, <1>3, RestingReplicas DEF AccessIsExact
<1>6. /\ AccessTypeOK' /\ RowGrows /\ AccessIsExact(a)'
      /\ pc' = pc /\ call' = call /\ reply' = reply /\ consumer' = consumer
  BY <1>2, <1>3, <1>5, AccessIsLeft
<1>7. Increment(place[a])' = Increment(place[a])
  BY <1>2, <1>3
<1>8. \E m \in Limits : q = Question("page", 0, place[a], after[a], m)
  BY DEF q
<1>9. PagingIsExact(a)' /\ IsServedWell(a)'
  BY <1>2, <1>3, <1>4, <1>7, <1>8 DEF PagingIsExact, IsServedWell
<1>10. IsTakenExactly(a)'
  BY <1>2, <1>3, <1>4, <1>7 DEF IsTakenExactly
<1>11. AuditTypeOK'
  BY <1>2, <1>3, <1>6 DEF AuditTypeOK, Stages
<1>12. \A b \in Auditors \ {a} : Untouched(b)
  BY <1>2, <1>3, <1>6, AuditorsAssumption DEF Untouched, AuditTypeOK, TypeOK
<1> QED
  BY <1>2, <1>6, <1>9, <1>10, <1>11, <1>12, StoredStays DEF Leaves, Held

\* The page in hand continues what was taken.
LEMMA PageContinues ==
  ASSUME AuditorsAreInductive, NEW a \in Auditors,
         stage[a] = "pulling", rpc[a] = "idle", answer[a].status = "ok"
  PROVE  LET rest == {e \in Increment(place[a]) : after[a] = None \/ e.seq > after[a]}
             last == answer[a].last
         IN  /\ EventsOf(a) \in SUBSET log
             /\ EventsOf(a) \subseteq rest
             /\ last = 0 => EventsOf(a) = rest
             /\ last # 0 => /\ EventsOf(a) = {e \in rest : e.seq <= last}
                            /\ \E e \in EventsOf(a) : e.seq = last
             /\ last \in Nat
<1> DEFINE rest == {e \in Increment(place[a]) : after[a] = None \/ e.seq > after[a]}
           last == answer[a].last
<1>1. a \in Readers /\ IsReader(a) /\ PagingIsExact(a)
  BY AuditGives DEF Held
<1>2. PICK limit \in Limits : answer[a].asked = Question("page", 0, place[a], after[a], limit)
  BY <1>1 DEF PagingIsExact
<1> DEFINE q == answer[a].asked
<1>3. q.kind = "page" /\ q.at = place[a] /\ q.after = after[a]
  BY <1>2 DEF Question
<1>4. answer[a] \in Answering /\ AnswerIsTrue(answer[a])
  BY <1>1 DEF IsReader, ReaderOK
<1>5. PageIsExact(q, EventsOf(a), last)
  BY <1>3, <1>4 DEF AnswerIsTrue, EventsOf
<1>6. Asked(q) = rest
  BY <1>3 DEF Asked
<1>7. EventsOf(a) \in SUBSET log /\ last \in Nat
  BY <1>4 DEF EventsOf, Answering, Receipts
<1> HIDE DEF q, rest
<1>8. /\ EventsOf(a) \subseteq rest
      /\ last = 0 => EventsOf(a) = rest
      /\ last # 0 => /\ EventsOf(a) = {e \in rest : e.seq <= last}
                     /\ \E e \in EventsOf(a) : e.seq = last
  BY <1>5, <1>6 DEF PageIsExact
<1> QED
  BY <1>7, <1>8 DEF rest

LEMMA TakePageLeaves ==
  ASSUME AuditorsAreInductive, NEW a \in Auditors, TakePage(a)
  PROVE  Leaves(a)
<1> DEFINE events == EventsOf(a)
           last == answer[a].last
           increment == Increment(place[a])
           rest == {e \in increment : after[a] = None \/ e.seq > after[a]}
<1>1. /\ stage[a] = "pulling" /\ rpc[a] = "idle" /\ answer[a].status = "ok"
      /\ answer' = [answer EXCEPT ![a] = NoAnswer]
      /\ UNCHANGED <<place, rpc, query>>
      /\ UNCHANGED ledgerVars /\ UNCHANGED accessVars
      /\ archive' = archive \cup events
      /\ taken' = [taken EXCEPT ![a] = taken[a] \cup events]
  BY DEF TakePage, TakeAnswer
<1>2. /\ LedgerOK /\ TypeOK /\ AuditTypeOK /\ AccessTypeOK /\ AcknowledgedIsStored /\ a \in Readers
      /\ AccessIsExact(a) /\ PagingIsExact(a) /\ IsTakenExactly(a)
      /\ ChainLength' = ChainLength /\ ChainLength \in Nat /\ log' = log
      /\ \A n : Increment(n)' = Increment(n)
      /\ place[a] \in Nat /\ place[a] <= Row.cursor + 1
  BY <1>1, BeforeActing
<1>3. /\ events \in SUBSET log /\ events \subseteq rest /\ last \in Nat
      /\ last = 0 => events = rest
      /\ last # 0 => events = {e \in rest : e.seq <= last} /\ \E e \in events : e.seq = last
  BY <1>1, PageContinues
<1>4. place[a] \in 1 .. ChainLength /\ taken[a] \subseteq archive
      /\ taken[a] = {e \in increment : after[a] # None /\ e.seq <= after[a]}
  BY <1>1, <1>2 DEF IsTakenExactly
<1>5. increment' = increment
  BY <1>1, <1>2
<1>6. increment \subseteq log /\ \A e \in increment : e.seq \in Nat
  <2>1. place[a] \in 0 .. ChainLength
    BY <1>2, <1>4
  <2> QED
    BY <1>2, <2>1, Boundaries, LedgerIsChain DEF Increment, IsLog
<1>7. after[a] \in {None} \cup Nat
  BY <1>2 DEF AuditTypeOK
<1>8. taken'[a] = taken[a] \cup events /\ answer'[a] = NoAnswer
  BY <1>1, <1>2 DEF AuditTypeOK, TypeOK
<1>9. C!Exists(AccessPoint) /\ pc[a] = "idle"
  BY <1>1, <1>2, RestingReplicas DEF AccessIsExact
<1> HIDE DEF events, last
<1>10. CASE last # 0 /\ after' = [after EXCEPT ![a] = last] /\ stage' = [stage EXCEPT ![a] = "pull"]
  <2>1. after'[a] = last /\ stage'[a] = "pull"
    BY <1>2, <1>10 DEF AuditTypeOK
  <2>2. last # None
    BY <1>3 DEF None
  <2>3. taken[a] \cup events = {e \in increment : e.seq <= last}
    <3> HIDE DEF increment
    <3>1. PICK f \in events : f.seq = last
      BY <1>3, <1>10
    <3>2. f \in increment /\ (after[a] # None => after[a] <= last)
      BY <1>3, <1>6, <1>7, <3>1
    <3>3. ASSUME NEW e \in increment, e.seq <= last PROVE e \in taken[a] \cup events
      BY <1>3, <1>4, <1>6, <1>7, <1>10, <3>3
    <3>4. ASSUME NEW e \in taken[a] \cup events PROVE e \in increment /\ e.seq <= last
      BY <1>3, <1>4, <1>6, <1>7, <1>10, <3>2, <3>4
    <3> QED
      BY <3>3, <3>4
  <2>4. \E e \in increment : e.seq = last
    BY <1>3, <1>10
  <2>5. /\ AccessTypeOK' /\ RowGrows /\ AccessIsExact(a)'
        /\ pc' = pc /\ call' = call /\ reply' = reply /\ consumer' = consumer
    BY <1>1, <1>2, <1>9, <2>1, AccessIsLeft
  <2>6. PagingIsExact(a)' /\ IsServedWell(a)'
    BY <1>1, <1>2, <1>5, <1>8, <2>1, <2>4 DEF PagingIsExact, IsServedWell, NoAnswer
  <2>7. IsTakenExactly(a)'
    BY <1>1, <1>2, <1>4, <1>5, <1>8, <2>1, <2>2, <2>3 DEF IsTakenExactly
  <2>8. AuditTypeOK'
    BY <1>1, <1>2, <1>3, <1>10, <2>5 DEF AuditTypeOK, Stages
  <2>9. \A b \in Auditors \ {a} : Untouched(b)
    BY <1>1, <1>2, <1>10, <2>5, AuditorsAssumption DEF Untouched, AuditTypeOK, TypeOK
  <2> QED
    BY <1>1, <2>5, <2>6, <2>7, <2>8, <2>9, StoredStays DEF Leaves, Held
<1>11. CASE last = 0 /\ UNCHANGED after /\ stage' = [stage EXCEPT ![a] = "acknowledge"]
  <2>1. stage'[a] = "acknowledge"
    BY <1>2, <1>11 DEF AuditTypeOK
  <2>2. taken[a] \cup events = increment
    <3> HIDE DEF increment
    <3>1. ASSUME NEW e \in increment PROVE e \in taken[a] \cup events
      BY <1>3, <1>4, <1>6, <1>7, <1>11
    <3>2. taken[a] \subseteq increment /\ events \subseteq increment
      BY <1>3, <1>4
    <3> QED
      BY <3>1, <3>2
  <2>3. /\ AccessTypeOK' /\ RowGrows /\ AccessIsExact(a)'
        /\ pc' = pc /\ call' = call /\ reply' = reply /\ consumer' = consumer
    BY <1>1, <1>2, <1>9, <2>1, AccessIsLeft
  <2>4. PagingIsExact(a)' /\ IsServedWell(a)'
    BY <1>1, <1>2, <1>8, <2>1 DEF PagingIsExact, IsServedWell, NoAnswer
  <2>5. IsTakenExactly(a)'
    BY <1>1, <1>2, <1>4, <1>5, <1>8, <2>1, <2>2 DEF IsTakenExactly
  <2>6. AuditTypeOK'
    BY <1>1, <1>2, <1>3, <1>11, <2>3 DEF AuditTypeOK, Stages
  <2>7. \A b \in Auditors \ {a} : Untouched(b)
    BY <1>1, <1>2, <1>11, <2>3, AuditorsAssumption DEF Untouched, AuditTypeOK, TypeOK
  <2> QED
    BY <1>1, <2>3, <2>4, <2>5, <2>6, <2>7, StoredStays DEF Leaves, Held
<1> QED
  BY <1>10, <1>11 DEF TakePage, Becomes, last

LEMMA PullAgainLeaves ==
  ASSUME AuditorsAreInductive, NEW a \in Auditors, PullAgain(a)
  PROVE  Leaves(a)
<1>1. /\ stage[a] = "pulling" /\ rpc[a] = "idle" /\ stage' = [stage EXCEPT ![a] = "pull"]
      /\ answer' = [answer EXCEPT ![a] = NoAnswer]
      /\ UNCHANGED <<place, after, taken, archive, rpc, query>>
      /\ UNCHANGED ledgerVars /\ UNCHANGED accessVars
  BY DEF PullAgain, TakeAnswer, Becomes
<1>2. /\ TypeOK /\ AuditTypeOK /\ a \in Readers
      /\ AccessIsExact(a) /\ PagingIsExact(a) /\ IsTakenExactly(a)
      /\ ChainLength' = ChainLength /\ log' = log
      /\ \A n : Increment(n)' = Increment(n)
      /\ place[a] \in Nat /\ place[a] <= Row.cursor + 1
  BY <1>1, BeforeActing
<1>3. stage'[a] = "pull" /\ answer'[a] = NoAnswer
  BY <1>1, <1>2 DEF AuditTypeOK, TypeOK
<1>4. C!Exists(AccessPoint) /\ pc[a] = "idle"
  BY <1>1, <1>2, RestingReplicas DEF AccessIsExact
<1>5. /\ AccessTypeOK' /\ RowGrows /\ AccessIsExact(a)'
      /\ pc' = pc /\ call' = call /\ reply' = reply /\ consumer' = consumer
  BY <1>1, <1>2, <1>3, <1>4, AccessIsLeft
<1>6. Increment(place[a])' = Increment(place[a])
  BY <1>1, <1>2
<1>7. PagingIsExact(a)' /\ IsServedWell(a)'
  BY <1>1, <1>2, <1>3, <1>6 DEF PagingIsExact, IsServedWell, NoAnswer
<1>8. IsTakenExactly(a)'
  BY <1>1, <1>2, <1>3, <1>6 DEF IsTakenExactly
<1>9. AuditTypeOK'
  BY <1>1, <1>2, <1>5 DEF AuditTypeOK, Stages
<1>10. \A b \in Auditors \ {a} : Untouched(b)
  BY <1>1, <1>2, <1>5, AuditorsAssumption DEF Untouched, AuditTypeOK, TypeOK
<1> QED
  BY <1>1, <1>5, <1>7, <1>8, <1>9, <1>10, StoredStays DEF Leaves, Held

LEMMA AcknowledgeLeaves ==
  ASSUME AuditorsAreInductive, NEW a \in Auditors, Acknowledge(a)
  PROVE  Leaves(a)
<1>1. /\ stage[a] = "acknowledge" /\ stage' = [stage EXCEPT ![a] = "acknowledging"]
      /\ UNCHANGED <<place, after, taken, archive, rpc, query, answer>> /\ UNCHANGED ledgerVars
      /\ C!Acknowledge(a) /\ call'[a].checkpoint = place[a]
  BY DEF Acknowledge, Becomes, vars, ledgerVars
<1>2. /\ LedgerOK /\ AuditTypeOK /\ AccessTypeOK
      /\ AccessIsExact(a) /\ PagingIsExact(a) /\ IsTakenExactly(a) /\ IsServedWell(a)
      /\ ChainLength' = ChainLength /\ log' = log
      /\ \A n : Increment(n)' = Increment(n)
      /\ place[a] \in Nat
  BY <1>1, BeforeActing
<1>3. PICK n \in C!Checkpoints : C!Start(a, "read", AccessPoint, NoName, n)
  BY <1>1 DEF C!Acknowledge
<1> DEFINE c == [key |-> AccessPoint, name |-> NoName, checkpoint |-> n, current |-> 0]
<1>4. /\ pc' = [pc EXCEPT ![a] = "read"] /\ calls' = calls + 1
      /\ call' = [call EXCEPT ![a] = c]
      /\ UNCHANGED <<consumer, reply>>
  BY <1>3 DEF C!Start, C!Goto
<1>5. call'[a] = c /\ n = place[a]
  BY <1>1, <1>2, <1>4 DEF AccessTypeOK
<1>6. AccessTypeOK' /\ OthersWait(a)
  BY <1>2, <1>4, <1>5 DEF AccessTypeOK, OthersWait, C!Exists, Acknowledging
<1>7. /\ pc'[a] = "read" /\ call'[a].checkpoint = place[a] /\ stage'[a] = "acknowledging"
  BY <1>1, <1>2, <1>4 DEF AccessTypeOK, AuditTypeOK
<1>8. AccessIsExact(a)'
  BY <1>1, <1>2, <1>4, <1>7 DEF AccessIsExact, C!IsBehind, C!Exists, Enrolling, Acknowledging
<1>9. Increment(place[a])' = Increment(place[a])
  BY <1>1, <1>2
<1>10. PagingIsExact(a)' /\ IsTakenExactly(a)' /\ IsServedWell(a)'
  BY <1>1, <1>2, <1>7, <1>9 DEF PagingIsExact, IsTakenExactly, IsServedWell
<1>11. AuditTypeOK'
  BY <1>1, <1>2, <1>6 DEF AuditTypeOK, Stages
<1>12. \A b \in Auditors \ {a} : Untouched(b)
  BY <1>1, <1>2, <1>6 DEF Untouched, OthersWait, AuditTypeOK
<1> QED
  BY <1>1, <1>2, <1>4, <1>8, <1>10, <1>11, <1>12, RowStays, StoredStays DEF Leaves, Held

LEMMA AcknowledgedLeaves ==
  ASSUME AuditorsAreInductive, NEW a \in Auditors, Acknowledged(a)
  PROVE  Leaves(a)
<1>1. /\ stage[a] = "acknowledging" /\ pc[a] = "idle" /\ stage' = [stage EXCEPT ![a] = "learn"]
      /\ Forget(a) /\ UNCHANGED <<archive, rpc, query, answer>>
      /\ UNCHANGED ledgerVars /\ UNCHANGED accessVars
  BY DEF Acknowledged, Becomes, vars, ledgerVars
<1>2. /\ AuditTypeOK /\ AccessTypeOK
      /\ AccessIsExact(a) /\ PagingIsExact(a) /\ IsServedWell(a)
      /\ ChainLength \in Nat /\ ChainLength' = ChainLength /\ log' = log
      /\ Row.cursor \in 0 .. ChainLength
  BY <1>1, BeforeActing
<1>3. /\ stage'[a] = "learn" /\ place'[a] = 0 /\ after'[a] = None /\ taken'[a] = {}
  BY <1>1, <1>2 DEF AuditTypeOK, Forget
<1>4. C!Exists(AccessPoint)
  BY <1>1, <1>2 DEF AccessIsExact
<1>5. 0 \in Nat /\ 0 <= Row.cursor + 1
  BY <1>2
<1>6. /\ AccessTypeOK' /\ RowGrows /\ AccessIsExact(a)'
      /\ pc' = pc /\ call' = call /\ reply' = reply /\ consumer' = consumer
  BY <1>1, <1>3, <1>4, <1>5, AccessIsLeft
<1>7. PagingIsExact(a)' /\ IsServedWell(a)'
  BY <1>1, <1>2, <1>3 DEF PagingIsExact, IsServedWell
<1>8. IsTakenExactly(a)'
  BY <1>3 DEF IsTakenExactly
<1>9. AuditTypeOK'
  BY <1>1, <1>2, <1>6 DEF AuditTypeOK, Stages, Forget
<1>10. \A b \in Auditors \ {a} : Untouched(b)
  BY <1>1, <1>2, <1>6 DEF Untouched, AuditTypeOK, Forget
<1> QED
  BY <1>1, <1>6, <1>7, <1>8, <1>9, <1>10, StoredStays DEF Leaves, Held

LEMMA CrashLeaves ==
  ASSUME AuditorsAreInductive, NEW a \in Auditors, Crash(a)
  PROVE  Leaves(a)
<1>1. /\ rpc[a] = "idle" /\ pc[a] = "idle" /\ stage' = [stage EXCEPT ![a] = "new"]
      /\ Forget(a) /\ answer' = [answer EXCEPT ![a] = NoAnswer]
      /\ UNCHANGED <<archive, rpc, query>>
      /\ UNCHANGED ledgerVars /\ UNCHANGED accessVars
  BY DEF Crash, Becomes
<1>2. /\ TypeOK /\ AuditTypeOK /\ AccessTypeOK /\ a \in Readers
      /\ ChainLength \in Nat /\ ChainLength' = ChainLength /\ log' = log
      /\ Row.cursor \in 0 .. ChainLength
  BY <1>1, BeforeActing
<1>3. /\ stage'[a] = "new" /\ place'[a] = 0 /\ after'[a] = None /\ taken'[a] = {}
      /\ answer'[a] = NoAnswer
  BY <1>1, <1>2 DEF AuditTypeOK, Forget, TypeOK
<1>4. 0 \in Nat /\ 0 <= Row.cursor + 1
  BY <1>2
<1>5. /\ AccessTypeOK' /\ RowGrows /\ AccessIsExact(a)'
      /\ pc' = pc /\ call' = call /\ reply' = reply /\ consumer' = consumer
  BY <1>1, <1>3, <1>4, AccessIsLeft
<1>6. PagingIsExact(a)' /\ IsServedWell(a)'
  BY <1>1, <1>3 DEF PagingIsExact, IsServedWell, NoAnswer
<1>7. IsTakenExactly(a)'
  BY <1>3 DEF IsTakenExactly
<1>8. AuditTypeOK'
  BY <1>1, <1>2, <1>5 DEF AuditTypeOK, Stages, Forget
<1>9. \A b \in Auditors \ {a} : Untouched(b)
  BY <1>1, <1>2, <1>5, AuditorsAssumption DEF Untouched, AuditTypeOK, Forget, TypeOK
<1> QED
  BY <1>1, <1>5, <1>6, <1>7, <1>8, <1>9, StoredStays DEF Leaves, Held

\* A cursor moves on to a checkpoint whose increment is in the archive.
LEMMA AccessRunsLeave ==
  ASSUME AuditorsAreInductive, NEW a \in Auditors, AccessRuns(a) \/ AccessFault(a)
  PROVE  Leaves(a)
<1>1. /\ UNCHANGED <<stage, place, after, taken, archive, rpc, query, answer>>
      /\ UNCHANGED ledgerVars /\ AccessActs(a)
  BY DEF AccessRuns, AccessFault, AccessActs, readVars, auditorVars
<1>2. /\ LedgerOK /\ AuditTypeOK /\ AccessTypeOK /\ AcknowledgedIsStored
      /\ AccessIsExact(a) /\ PagingIsExact(a) /\ IsTakenExactly(a) /\ IsServedWell(a)
      /\ ChainLength \in Nat /\ ChainLength' = ChainLength /\ log' = log /\ prefixes' = prefixes
      /\ \A n : Boundary(n)' = Boundary(n) /\ Increment(n)' = Increment(n)
      /\ place[a] \in Nat /\ Row.cursor \in 0 .. ChainLength
  BY <1>1, BeforeActing
<1>3. stage[a] = "acknowledging" => place[a] \in 1 .. ChainLength /\ Increment(place[a]) \subseteq archive
  BY <1>2 DEF IsTakenExactly
<1>4. /\ AccessLeaves(a)
      /\ \/ Row.cursor' = Row.cursor \/ Row.cursor' = 0
         \/ stage[a] = "acknowledging" /\ Row.cursor' = place[a] /\ place[a] = Row.cursor + 1
  BY <1>1, <1>2, <1>3, AccessStep, AuditorsAssumption
<1>5. AccessTypeOK' /\ RowGrows /\ AccessIsExact(a)' /\ OthersWait(a)
  BY <1>4 DEF AccessLeaves
<1>6. Boundary(Row.cursor') \subseteq archive
  <2>1. Boundary(Row.cursor) \subseteq archive
    BY <1>2 DEF AcknowledgedIsStored, Row
  <2>2. CASE Row.cursor' = Row.cursor
    BY <2>1, <2>2
  <2>3. CASE Row.cursor' = 0
    BY <1>2, <2>3, Boundaries
  <2>4. CASE stage[a] = "acknowledging" /\ Row.cursor' = place[a] /\ place[a] = Row.cursor + 1
    <3>1. place[a] - 1 = Row.cursor
      BY <1>2, <2>4
    <3>2. Boundary(place[a]) \subseteq Increment(place[a]) \cup Boundary(Row.cursor)
      BY <3>1 DEF Increment
    <3> QED
      BY <1>3, <2>1, <2>4, <3>2
  <2> QED
    BY <1>4, <2>2, <2>3, <2>4
<1>7. AcknowledgedIsStored'
  <2>1. Boundary(Row.cursor)' = Boundary(Row.cursor')
    BY <1>1 DEF Boundary, ledgerVars
  <2> QED
    BY <1>1, <1>6, <2>1 DEF AcknowledgedIsStored, Row
<1>8. Increment(place[a])' = Increment(place[a])
  BY <1>1, <1>2
<1>9. PagingIsExact(a)' /\ IsTakenExactly(a)' /\ IsServedWell(a)'
  BY <1>1, <1>2, <1>8 DEF PagingIsExact, IsTakenExactly, IsServedWell
<1>10. AuditTypeOK'
  BY <1>1, <1>2, <1>5 DEF AuditTypeOK
<1>11. \A b \in Auditors \ {a} : Untouched(b)
  BY <1>1, <1>5 DEF Untouched, OthersWait
<1> QED
  BY <1>1, <1>5, <1>7, <1>9, <1>10, <1>11 DEF Leaves, Held

-----------------------------------------------------------------------------
(***************************************************************************)
(* Requests for pages.                                                     *)
(***************************************************************************)

\* The cursor of a replica is one that build_checkpoint_event_page accepts: the start
\* of an increment, or an event of it.
LEMMA CursorIsPlaced ==
  ASSUME LedgerOK, NEW n \in 1 .. ChainLength, NEW cursor, NEW limit,
         cursor = None \/ \E e \in Increment(n) : e.seq = cursor
  PROVE  ~ Misplaced(Question("page", 0, n, cursor, limit))
<1> DEFINE q == Question("page", 0, n, cursor, limit)
           start == LastSeq(Boundary(n - 1))
           end == LastSeq(Boundary(n))
<1>1. ChainLength \in Nat /\ n - 1 \in 0 .. ChainLength /\ n \in 0 .. ChainLength /\ n - 1 < n
  BY Boundaries
<1>2. /\ Boundary(n - 1) \subseteq Boundary(n) /\ Boundary(n) \subseteq log
      /\ IsLog(Boundary(n)) /\ IsLog(Boundary(n - 1))
      /\ Boundary(n - 1) = {e \in log : e.seq <= start}
  BY <1>1, Boundaries DEF PrefixRows
<1>3. start \in Nat /\ end \in Nat /\ \A e \in Boundary(n) : e.seq <= end
  BY <1>2, LastSeqIsLast
<1>4. start <= end
  <2>1. CASE Boundary(n - 1) = {}
    BY <1>3, <2>1 DEF LastSeq
  <2>2. CASE Boundary(n - 1) # {}
    <3>1. PICK e \in Boundary(n - 1) : e.seq = start
      BY <1>2, <2>2, LastSeqIsLast
    <3> QED
      BY <1>2, <1>3, <3>1
  <2> QED
    BY <2>1, <2>2
<1>5. \A e \in Increment(n) : e.seq \in Nat /\ start <= e.seq /\ e.seq <= end
  <2> TAKE e \in Increment(n)
  <2>1. e \in Boundary(n) /\ e \notin Boundary(n - 1) /\ e \in log
    BY <1>2 DEF Increment
  <2>2. e.seq \in Nat
    BY <1>2, <2>1 DEF IsLog
  <2> QED
    BY <1>2, <1>3, <2>1, <2>2
<1>6. q.at = n /\ q.after = cursor
  BY DEF Question
<1> HIDE DEF q
<1>7. IncrementStart(q.at) = start /\ LastSeq(Boundary(q.at)) = end
  BY <1>6 DEF IncrementStart
<1> HIDE DEF start, end
<1>8. Cursor(q) \in start .. end
  BY <1>3, <1>4, <1>5, <1>6, <1>7 DEF Cursor
<1> QED
  BY <1>7, <1>8 DEF Misplaced, q

\* A statement of a request for a page goes on, or ends it with an answer.
GoesOn(a) == rpc'[a] # "idle" /\ query'[a].asked = query[a].asked /\ answer'[a] = answer[a]

Ends(a) ==
  /\ rpc'[a] = "idle" /\ answer'[a].asked = query[a].asked
  /\ answer'[a].status \notin {"INVALID_CURSOR", "NOT_FOUND"}

LEMMA RepliesEnd ==
  ASSUME NEW a \in Readers, Functions(a), NEW status, NEW items, NEW last,
         Reply(a, status, items, last), status \notin {"INVALID_CURSOR", "NOT_FOUND"}
  PROVE  Ends(a)
BY DEF Reply, Functions, Ends

LEMMA RefusalsEnd ==
  ASSUME NEW a \in Readers, Functions(a), NEW status,
         Refuse(a, status), status \notin {"INVALID_CURSOR", "NOT_FOUND"}
  PROVE  Ends(a)
BY RepliesEnd DEF Refuse

LEMMA PageStatements ==
  ASSUME LedgerOK, NEW a \in Readers, Functions(a), IsReader(a),
         query[a].asked.kind = "page", IsKnown(query[a].asked.at), ~ Misplaced(query[a].asked),
         ReaderRuns(a) \/ Fault(a)
  PROVE  GoesOn(a) \/ Ends(a)
<1>1. rpc[a] \in {"target", "prefix", "previous"} \/ Fault(a)
  BY DEF IsReader, ReaderOK, QueryIsExact, Serves, ReaderRuns, FindEvent, FindNewest,
         ReadInstrument, ReadRecord, FindTarget, ReadPrefix, ReadPrevious
<1>2. ASSUME NEW n, NEW rows PROVE Validation(a, n, rows) \notin {"INVALID_CURSOR", "NOT_FOUND"}
  BY DEF Validation
<1>3. ASSUME NEW rows, Render(a, rows) PROVE Ends(a)
  <2>1. ReplyPage(a, query[a].asked, rows)
    BY <1>3 DEF Render
  <2> QED
    BY <2>1, RepliesEnd DEF ReplyPage
<1>4. CASE Fault(a)
  BY <1>4, RefusalsEnd DEF Fault
<1>5. CASE FindTarget(a)
  <2>1. Goto(a, "prefix") /\ UNCHANGED query
    BY <1>5 DEF FindTarget
  <2> QED
    BY <2>1 DEF Goto, GoesOn, Functions
<1>6. CASE ReadPrefix(a)
  <2>1. ASSUME NEW rows, query' = [query EXCEPT ![a].prefix = rows], Goto(a, "previous")
        PROVE  GoesOn(a)
    <3>1. query[a] \in Querying
      BY DEF IsReader, ReaderOK
    <3>2. query'[a].asked = query[a].asked
      BY <2>1, <3>1 DEF Functions, Querying
    <3> QED
      BY <2>1, <3>2 DEF Goto, GoesOn, Functions
  <2> QED
    BY <1>2, <1>3, <1>6, <2>1, RefusalsEnd DEF ReadPrefix
<1>7. CASE ReadPrevious(a)
  BY <1>2, <1>3, <1>7, RefusalsEnd DEF ReadPrevious
<1> QED
  BY <1>1, <1>4, <1>5, <1>6, <1>7
     DEF ReaderRuns, FindEvent, FindNewest, ReadInstrument, ReadRecord

LEMMA PageRunsLeave ==
  ASSUME AuditorsAreInductive, NEW a \in Auditors, PageRuns(a) \/ PageFault(a)
  PROVE  Leaves(a)
<1>1. /\ UNCHANGED <<stage, place, after, taken, archive>> /\ UNCHANGED accessVars
      /\ ReaderRuns(a) \/ Fault(a)
  BY DEF PageRuns, PageFault, auditorVars
<1>2. a \in Readers /\ TypeOK
  BY AuditGives
<1>3. Changes(a) /\ UNCHANGED ledgerVars
  BY <1>1, <1>2, ActingChanges DEF ReaderActs
<1>4. /\ LedgerOK /\ AuditTypeOK /\ Functions(a) /\ IsReader(a)
      /\ AccessIsExact(a) /\ PagingIsExact(a) /\ IsTakenExactly(a)
      /\ ChainLength' = ChainLength /\ log' = log
      /\ \A n : Increment(n)' = Increment(n)
      /\ place[a] \in Nat /\ place[a] <= Row.cursor + 1
  BY <1>3, BeforeActing
<1>5. rpc[a] # "idle"
  BY <1>1 DEF ReaderRuns, Fault, FindEvent, FindNewest, FindTarget, ReadInstrument, ReadPrefix,
              ReadPrevious, ReadRecord
<1>6. stage[a] = "pulling" /\ answer[a] = NoAnswer /\ place[a] \in 1 .. ChainLength
  BY <1>4, <1>5 DEF PagingIsExact, IsTakenExactly
<1>7. after[a] = None \/ \E e \in Increment(place[a]) : e.seq = after[a]
  BY <1>4, <1>6 DEF PagingIsExact
<1>8. \E limit \in Limits : query[a].asked = Question("page", 0, place[a], after[a], limit)
  BY <1>4, <1>5, <1>6 DEF PagingIsExact
<1>9. query[a].asked.kind = "page" /\ IsKnown(query[a].asked.at) /\ ~ Misplaced(query[a].asked)
  <2>1. PICK limit \in Limits : query[a].asked = Question("page", 0, place[a], after[a], limit)
    BY <1>8
  <2>2. ~ Misplaced(Question("page", 0, place[a], after[a], limit))
    BY <1>4, <1>6, <1>7, CursorIsPlaced
  <2>3. query[a].asked.kind = "page" /\ query[a].asked.at = place[a]
    BY <2>1 DEF Question
  <2> QED
    BY <1>6, <2>1, <2>2, <2>3 DEF IsKnown
<1>10. GoesOn(a) \/ Ends(a)
  BY <1>1, <1>2, <1>4, <1>9, PageStatements
<1>11. Increment(place[a])' = Increment(place[a])
  BY <1>1, <1>4
<1>12. IsServedWell(a)'
  BY <1>6, <1>10 DEF GoesOn, Ends, IsServedWell, NoAnswer
<1>13. PagingIsExact(a)'
  <2>1. CASE GoesOn(a)
    BY <1>1, <1>6, <1>7, <1>8, <1>11, <2>1 DEF PagingIsExact, GoesOn
  <2>2. CASE Ends(a)
    BY <1>1, <1>6, <1>7, <1>8, <1>11, <2>2 DEF PagingIsExact, Ends
  <2> QED
    BY <1>10, <2>1, <2>2
<1>14. IsTakenExactly(a)'
  BY <1>1, <1>4, <1>11 DEF IsTakenExactly
<1>15. C!Exists(AccessPoint)
  BY <1>4, <1>6 DEF AccessIsExact
<1>16. /\ AccessTypeOK' /\ RowGrows /\ AccessIsExact(a)'
       /\ pc' = pc /\ call' = call /\ reply' = reply /\ consumer' = consumer
  BY <1>1, <1>3, <1>4, <1>15, AccessIsLeft
<1>17. AuditTypeOK'
  BY <1>1, <1>4, <1>16 DEF AuditTypeOK
<1>18. \A b \in Auditors \ {a} : Untouched(b)
  BY <1>1, <1>2, <1>3, <1>16, AuditorsAssumption DEF Untouched, Changes, TypeOK
<1> QED
  BY <1>1, <1>3, <1>12, <1>13, <1>14, <1>16, <1>17, <1>18, StoredStays DEF Leaves, Held

-----------------------------------------------------------------------------
(***************************************************************************)
(* The same steps, as a reader of the ledger sees them.                    *)
(***************************************************************************)

\* No step of a replica exceeds what bounds its behaviour.
Bounded == queries' \in 0 .. MaxQueries /\ faults' \in 0 .. MaxFaults

LEMMA AnswersArePutAway ==
  ASSUME AuditorsAreInductive, NEW a \in Auditors, rpc[a] = "idle",
         UNCHANGED <<rpc, query>>, answer' = [answer EXCEPT ![a] = NoAnswer]
  PROVE  AllLeave
<1>1. a \in Readers /\ TypeOK /\ Functions(a) /\ IsReader(a) /\ ReadsAreInductive
  BY AuditGives
<1>2. rpc'[a] = "idle" /\ query'[a] = query[a] /\ answer'[a] = NoAnswer
  BY <1>1 DEF TypeOK
<1>3. Changes(a)
  BY <1>1, <1>2 DEF Changes, TypeOK
<1>4. /\ NoAnswer \in Answering
      /\ AnswerIsTrue(NoAnswer) /\ AnswerIsPlaced(NoAnswer) /\ IsNoFalseAlarm(a, NoAnswer)
  BY DEF NoAnswer, Nothing, Question, Answering, Asking, Kinds, Subjects, None, Statuses,
         AnswerIsTrue, AnswerIsPlaced, IsNoFalseAlarm
<1>5. LeavesReader(a)
  BY <1>1, <1>2, <1>4 DEF LeavesReader, IsReader, ReaderOK, NextWitnessIsNewer
<1> QED
  BY <1>1, <1>3, <1>5, OneReaderMoves

LEMMA PullIsExact ==
  ASSUME AuditorsAreInductive, NEW a \in Auditors, Pull(a)
  PROVE  AllLeave
<1>1. PICK limit \in Limits : Request(a, Question("page", 0, place[a], after[a], limit))
  BY DEF Pull
<1> DEFINE q == Question("page", 0, place[a], after[a], limit)
<1>2. /\ a \in Readers /\ LedgerOK /\ TypeOK /\ Functions(a) /\ IsReader(a) /\ ReadsAreInductive
      /\ AuditTypeOK
  BY AuditGives
<1>3. place[a] \in Nat /\ after[a] \in Nat \cup {None} /\ limit \in Nat \ {0}
  BY <1>2, Boundaries, ReadsAssumption DEF AuditTypeOK
<1>4. q \in Asking /\ q.kind = "page"
  BY <1>3 DEF Question, Asking, Kinds, Subjects
<1> HIDE DEF q
<1>5. Request(a, q)
  BY <1>1 DEF q
<1>6. LeavesReader(a)
  BY <1>2, <1>4, <1>5, RequestIsExact
<1>7. Changes(a)
  BY <1>2, <1>5 DEF Request, Changes, TypeOK
<1> QED
  BY <1>2, <1>6, <1>7, OneReaderMoves

LEMMA ReplicasAreReaders ==
  ASSUME AuditorsAreInductive, NEW a \in Auditors,
         AuditorRuns(a) \/ AccessFault(a) \/ PageFault(a) \/ Crash(a)
  PROVE  UNCHANGED ledgerVars /\ AllLeave /\ Bounded
<1>1. /\ a \in Readers /\ LedgerOK /\ TypeOK /\ Functions(a) /\ IsReader(a) /\ ReadsAreInductive
      /\ queries \in 0 .. MaxQueries /\ faults \in 0 .. MaxFaults
      /\ MaxQueries \in Nat /\ MaxFaults \in Nat
  BY AuditGives, ReadsAssumption DEF TypeOK
<1>2. CASE Enrol(a) \/ Enrolled(a) \/ Learn(a) \/ Acknowledge(a) \/ Acknowledged(a)
  <2>1. UNCHANGED vars
    BY <1>2 DEF Enrol, Enrolled, Learn, Acknowledge, Acknowledged
  <2> QED
    BY <1>1, <2>1, NoReaderMoves DEF vars, ledgerVars, readVars, Bounded
<1>3. CASE AccessRuns(a)
  <2>1. UNCHANGED <<ledgerVars, readVars, queries, faults>>
    BY <1>3 DEF AccessRuns, C!CheckKey, C!Insert, C!SettleFromRow, C!ReadCursor,
                C!ClassifySubmitted, C!Advance, C!ReloadAndClassify
  <2> QED
    BY <1>1, <2>1, NoReaderMoves DEF Bounded
<1>4. CASE AccessFault(a)
  <2>1. UNCHANGED <<ledgerVars, readVars, queries>> /\ faults < MaxFaults /\ faults' = faults + 1
    BY <1>4 DEF AccessFault, C!Fault
  <2> QED
    BY <1>1, <2>1, NoReaderMoves DEF Bounded
<1>5. CASE Pull(a)
  BY <1>1, <1>5, PullIsExact DEF Pull, Request, Bounded
<1>6. CASE TakePage(a) \/ PullAgain(a)
  <2>1. TakeAnswer(a)
    BY <1>6 DEF TakePage, PullAgain
  <2> QED
    BY <1>1, <2>1, AnswersArePutAway DEF TakeAnswer, Bounded
<1>7. CASE Crash(a)
  <2>1. /\ rpc[a] = "idle" /\ UNCHANGED <<rpc, query>> /\ answer' = [answer EXCEPT ![a] = NoAnswer]
        /\ UNCHANGED ledgerVars
        /\ queries' = queries /\ faults < MaxFaults /\ faults' = faults + 1
    BY <1>7 DEF Crash
  <2>2. AllLeave
    BY <2>1, AnswersArePutAway
  <2>3. Bounded
    BY <1>1, <2>1 DEF Bounded
  <2> QED
    BY <2>1, <2>2, <2>3
<1>8. CASE PageRuns(a) \/ PageFault(a)
  <2>1. ReaderActs(a) /\ [ReadsNext]_vars
    BY <1>1, <1>8 DEF PageRuns, PageFault, ReaderActs, ReadsNext
  <2> QED
    BY <1>1, <2>1, ActingChanges, ActingIsExact, OneReaderMoves, CountersAreBounded DEF Bounded
<1> QED
  BY <1>2, <1>3, <1>4, <1>5, <1>6, <1>7, <1>8 DEF AuditorRuns

-----------------------------------------------------------------------------
(***************************************************************************)
(* Every step.                                                             *)
(***************************************************************************)

LEMMA ReplicasLeave ==
  ASSUME AuditorsAreInductive, NEW a \in Auditors,
         AuditorRuns(a) \/ AccessFault(a) \/ PageFault(a) \/ Crash(a)
  PROVE  Leaves(a)
BY EnrolLeaves, EnrolledLeaves, LearnLeaves, PullLeaves, TakePageLeaves, PullAgainLeaves,
   AcknowledgeLeaves, AcknowledgedLeaves, CrashLeaves, AccessRunsLeave, PageRunsLeave
   DEF AuditorRuns

LEMMA ReplicasKeep ==
  ASSUME AuditorsAreInductive, NEW a \in Auditors,
         AuditorRuns(a) \/ AccessFault(a) \/ PageFault(a) \/ Crash(a)
  PROVE  AuditorsAreInductive'
<1>1. Leaves(a)
  BY ReplicasLeave
<1>2. UNCHANGED ledgerVars /\ AllLeave /\ Bounded
  BY ReplicasAreReaders
<1>3. ReadsAreInductive'
  BY <1>2, AuditGives, ReadsGoOn DEF Bounded
<1>4. AuditTypeOK' /\ AcknowledgedIsStored' /\ RowGrows /\ archive \subseteq archive' /\ Held(a)'
      /\ \A b \in Auditors \ {a} : Untouched(b)
  BY <1>1 DEF Leaves
<1>5. Growth /\ ChainLength' \in Nat
  BY <1>2, BeforeActing
<1>6. \A b \in Auditors \ {a} : Held(b)'
  BY <1>4, <1>5, WaitingStays
<1>7. \A b \in Auditors : Held(b)'
  BY <1>4, <1>6
<1>8. \A b \in Auditors : reply'[b].status \in GoodStatuses
  BY <1>4 DEF AuditTypeOK, AccessTypeOK, GoodStatuses
<1> QED
  BY <1>3, <1>4, <1>7, <1>8
     DEF AuditorsAreInductive, Held, TakenIsExact, GivenCursorsAreGood, IsServedWell, GoodStatuses

LEMMA LedgerGrowsKeeps ==
  ASSUME AuditorsAreInductive, LedgerGrows
  PROVE  AuditorsAreInductive'
<1>1. /\ CommitEvent \/ SealCheckpoint
      /\ UNCHANGED <<readVars, queries, faults>>
      /\ UNCHANGED accessVars /\ UNCHANGED <<stage, place, after, taken, archive>>
  BY DEF LedgerGrows, CommitEvent, SealCheckpoint, auditorVars
<1>2. /\ ReadsAreInductive /\ LedgerOK /\ TypeOK /\ AuditTypeOK /\ AccessTypeOK
      /\ AcknowledgedIsStored /\ \A b \in Auditors : Held(b)
  BY AuditGives
<1>3. LedgerOK' /\ Growth
  BY <1>1, <1>2, LedgerStepsGrow
<1>4. /\ log \subseteq log' /\ ChainLength \in Nat /\ ChainLength' \in Nat
      /\ ChainLength <= ChainLength'
  BY <1>2, <1>3, Boundaries DEF Growth
<1>5. 0 .. ChainLength \subseteq 0 .. ChainLength'
  BY <1>4
<1>6. ReadsAreInductive'
  <2>1. queries' \in 0 .. MaxQueries /\ faults' \in 0 .. MaxFaults
    BY <1>1, <1>2 DEF TypeOK
  <2> QED
    BY <1>1, <1>2, <2>1, NoReaderMoves, ReadsGoOn
<1>7. consumer' = consumer /\ pc' = pc /\ call' = call /\ reply' = reply /\ calls' = calls
  BY <1>1 DEF accessVars
<1>8. AccessTypeOK'
  <2>1. consumer' \in [{AccessPoint} -> [name : {SystemName, NoName}, cursor : 0 .. ChainLength']]
    BY <1>2, <1>5, <1>7 DEF AccessTypeOK
  <2> QED
    BY <1>2, <1>7, <2>1 DEF AccessTypeOK, C!Exists
<1>9. AuditTypeOK'
  <2>1. /\ place' \in [Auditors -> 0 .. ChainLength'] /\ taken' \in [Auditors -> SUBSET log']
        /\ archive' \subseteq log'
    BY <1>1, <1>2, <1>4, <1>5 DEF AuditTypeOK
  <2> QED
    BY <1>1, <1>2, <1>8, <2>1 DEF AuditTypeOK
<1>10. RowGrows
  BY <1>2, <1>7, RowStays
<1>11. \A b \in Auditors : Untouched(b)
  BY <1>1, <1>7 DEF Untouched, readVars
<1>12. \A b \in Auditors : Held(b)'
  BY <1>1, <1>3, <1>4, <1>9, <1>10, <1>11, WaitingStays
<1>13. AcknowledgedIsStored'
  <2>1. Row.cursor \in 0 .. ChainLength
    BY <1>2, RowIsTyped
  <2>2. \A n : n = Row.cursor => Boundary(n)' = Boundary(n)
    BY <1>3, <2>1 DEF Growth
  <2>3. Boundary(Row.cursor)' = Boundary(Row.cursor)
    BY <1>7, <2>2 DEF Row
  <2> QED
    BY <1>1, <1>2, <2>3 DEF AcknowledgedIsStored, Row
<1>14. \A b \in Auditors : reply'[b].status \in GoodStatuses
  BY <1>9 DEF AuditTypeOK, AccessTypeOK, GoodStatuses
<1> QED
  BY <1>6, <1>9, <1>12, <1>13, <1>14
     DEF AuditorsAreInductive, Held, TakenIsExact, GivenCursorsAreGood, IsServedWell, GoodStatuses

LEMMA NothingKeeps ==
  ASSUME AuditorsAreInductive, UNCHANGED allVars
  PROVE  AuditorsAreInductive'
<1>1. /\ UNCHANGED ledgerVars /\ UNCHANGED readVars /\ UNCHANGED <<queries, faults>>
      /\ UNCHANGED accessVars /\ UNCHANGED <<stage, place, after, taken, archive>>
  BY DEF allVars, vars, ledgerVars, readVars, auditorVars
<1>2. /\ ReadsAreInductive /\ LedgerOK /\ TypeOK /\ AuditTypeOK /\ AccessTypeOK
      /\ AcknowledgedIsStored /\ \A b \in Auditors : Held(b)
  BY AuditGives
<1>3. /\ Growth /\ ChainLength' \in Nat /\ ChainLength' = ChainLength /\ log' = log
  BY <1>1, <1>2, LedgerStepsGrow, LedgerStandsStill, Boundaries
<1>4. ReadsAreInductive'
  <2>1. queries' \in 0 .. MaxQueries /\ faults' \in 0 .. MaxFaults
    BY <1>1, <1>2 DEF TypeOK
  <2> QED
    BY <1>1, <1>2, <2>1, NoReaderMoves, ReadsGoOn
<1>5. AuditTypeOK' /\ RowGrows /\ consumer' = consumer
  <2>1. consumer' = consumer /\ pc' = pc /\ call' = call /\ reply' = reply /\ calls' = calls
    BY <1>1 DEF accessVars
  <2>2. AccessTypeOK'
    BY <1>2, <1>3, <2>1 DEF AccessTypeOK, C!Exists
  <2> QED
    BY <1>1, <1>2, <1>3, <2>1, <2>2, RowStays DEF AuditTypeOK
<1>6. \A b \in Auditors : Untouched(b)
  BY <1>1 DEF Untouched, readVars, accessVars
<1>7. \A b \in Auditors : Held(b)'
  BY <1>1, <1>3, <1>5, <1>6, WaitingStays
<1>8. AcknowledgedIsStored'
  BY <1>1, <1>5, StoredStays
<1>9. \A b \in Auditors : reply'[b].status \in GoodStatuses
  BY <1>5 DEF AuditTypeOK, AccessTypeOK, GoodStatuses
<1> QED
  BY <1>4, <1>5, <1>7, <1>8, <1>9
     DEF AuditorsAreInductive, Held, TakenIsExact, GivenCursorsAreGood, IsServedWell, GoodStatuses

LEMMA AuditStep == AuditorsAreInductive /\ [AuditNext]_allVars => AuditorsAreInductive'
BY LedgerGrowsKeeps, ReplicasKeep, NothingKeeps DEF AuditNext

LEMMA AuditInitially == AuditInit => AuditorsAreInductive
<1> SUFFICES ASSUME AuditInit PROVE AuditorsAreInductive
  OBVIOUS
<1>1. ReadsAreInductive
  BY ReadsInitially DEF AuditInit
<1>2. prefixes = {} /\ log = {} /\ \A a \in Auditors : rpc[a] = "idle" /\ answer[a] = NoAnswer
  BY AuditorsAssumption DEF AuditInit, ReadsInit, Init
<1>3. ChainLength \in Nat /\ Boundary(0) = {}
  BY <1>1, InvariantGives, Boundaries
<1>4. /\ consumer = [k \in {AccessPoint} |-> [name |-> NoName, cursor |-> 0]]
      /\ pc = [a \in Auditors |-> "idle"]
      /\ reply = [a \in Auditors |-> [status |-> "none", changed |-> FALSE, cursor |-> 0]]
      /\ calls = 0
  BY DEF AuditInit, C!Init
<1>5. call = [a \in Auditors |-> [key |-> AccessPoint, name |-> NoName,
                                  checkpoint |-> 0, current |-> 0]]
  <2>1. (CHOOSE k \in {AccessPoint} : TRUE) = AccessPoint
    OBVIOUS
  <2> QED
    BY <2>1 DEF AuditInit, C!Init
<1>6. AccessTypeOK
  BY <1>3, <1>4, <1>5 DEF AccessTypeOK
<1>7. /\ stage = [a \in Auditors |-> "new"] /\ place = [a \in Auditors |-> 0]
      /\ after = [a \in Auditors |-> None] /\ taken = [a \in Auditors |-> {}]
      /\ archive = {}
  BY DEF AuditInit
<1>8. AuditTypeOK
  BY <1>3, <1>6, <1>7 DEF AuditTypeOK, Stages
<1>9. AcknowledgedIsStored
  BY <1>3, <1>4, <1>7 DEF AcknowledgedIsStored
<1>10. ASSUME NEW a \in Auditors
       PROVE  /\ AccessIsExact(a) /\ PagingIsExact(a) /\ IsTakenExactly(a)
              /\ answer[a].status = "none" /\ reply[a].status = "none"
  <2>1. /\ stage[a] = "new" /\ place[a] = 0 /\ after[a] = None /\ taken[a] = {}
        /\ pc[a] = "idle" /\ reply[a].status = "none" /\ consumer[AccessPoint].cursor = 0
    BY <1>4, <1>7
  <2>2. AccessIsExact(a)
    BY <2>1 DEF AccessIsExact, C!IsBehind, Enrolling, Acknowledging
  <2>3. PagingIsExact(a) /\ IsTakenExactly(a)
    BY <1>2, <2>1 DEF PagingIsExact, IsTakenExactly
  <2> QED
    BY <1>2, <2>1, <2>2, <2>3 DEF NoAnswer
<1> QED
  BY <1>1, <1>8, <1>9, <1>10 DEF AuditorsAreInductive, TakenIsExact, GivenCursorsAreGood

-----------------------------------------------------------------------------
(***************************************************************************)
(* The theorems.                                                           *)
(***************************************************************************)

\* What an audit system relies on that follows the ledger through pages and an access
\* point holds in every state.
THEOREM AuditorsInvariant == AuditSpec => []AuditorsAreInductive
<1> QED
  BY AuditInitially, AuditStep, PTL DEF AuditSpec

\* What acknowledge_checkpoint records as consumed is in the archive of the audit
\* system, whatever crashed, was lost, was repeated or raced.
THEOREM AcknowledgedWasStored == AuditSpec => []AcknowledgedIsStored
<1>1. AuditorsAreInductive => AcknowledgedIsStored
  BY DEF AuditorsAreInductive
<1> QED BY <1>1, AuditorsInvariant, PTL

\* Between two pages a replica has taken what build_checkpoint_event_page covers up to
\* its cursor and nothing else, and at the end the whole increment.
THEOREM NothingIsMissed == AuditSpec => []TakenIsExact
<1>1. AuditorsAreInductive => TakenIsExact
  BY DEF AuditorsAreInductive
<1> QED BY <1>1, AuditorsInvariant, PTL

\* A client that only uses what it was given is never refused as if it had made it up,
\* neither by build_checkpoint_event_page nor by _classify.
THEOREM GivenCursorsStayGood == AuditSpec => []GivenCursorsAreGood
<1>1. AuditorsAreInductive => GivenCursorsAreGood
  BY DEF AuditorsAreInductive
<1> QED BY <1>1, AuditorsInvariant, PTL

-----------------------------------------------------------------------------
(***************************************************************************)
(* The order in which events reach a replica.                              *)
(***************************************************************************)

\* The page that is taken lies behind everything taken before it.
Continues(a) ==
  taken'[a] # taken[a] /\ taken'[a] # {} =>
    \A e \in EventsOf(a), f \in taken[a] : f.seq < e.seq

LEMMA PagesAreInOrder ==
  ASSUME AuditorsAreInductive, NEW a \in Auditors,
         stage[a] = "pulling", rpc[a] = "idle", answer[a].status = "ok"
  PROVE  \A e \in EventsOf(a), f \in taken[a] : f.seq < e.seq
<1>1. LedgerOK /\ AuditTypeOK /\ IsTakenExactly(a)
  BY AuditGives DEF Held
<1>2. /\ EventsOf(a) \subseteq {e \in Increment(place[a]) : after[a] = None \/ e.seq > after[a]}
      /\ EventsOf(a) \in SUBSET log
  BY PageContinues
<1>3. /\ taken[a] = {e \in Increment(place[a]) : after[a] # None /\ e.seq <= after[a]}
      /\ taken[a] \subseteq log
  BY <1>1 DEF IsTakenExactly, AuditTypeOK
<1>4. after[a] \in {None} \cup Nat /\ \A e \in log : e.seq \in Nat
  BY <1>1, LedgerIsChain DEF AuditTypeOK, IsLog
<1> QED
  BY <1>2, <1>3, <1>4

LEMMA StepsContinue ==
  ASSUME AuditorsAreInductive, [AuditNext]_allVars, NEW a \in Auditors
  PROVE  Continues(a)
<1>1. AuditTypeOK
  BY AuditGives
<1>2. CASE UNCHANGED taken
  BY <1>2 DEF Continues
<1>3. ASSUME NEW b \in Auditors, Forget(b) PROVE Continues(a)
  BY <1>1, <1>3 DEF Forget, AuditTypeOK, Continues
<1>4. ASSUME NEW b \in Auditors, TakePage(b) PROVE Continues(a)
  <2>1. CASE a = b
    BY <1>4, <2>1, PagesAreInOrder DEF TakePage, TakeAnswer, Continues
  <2>2. CASE a # b
    <3>1. taken' = [taken EXCEPT ![b] = taken[b] \cup EventsOf(b)]
      BY <1>4 DEF TakePage
    <3> QED
      BY <1>1, <2>2, <3>1 DEF AuditTypeOK, Continues
  <2> QED
    BY <2>1, <2>2
<1>5. ASSUME NEW b \in Auditors,
             \/ Enrol(b) \/ Enrolled(b) \/ Learn(b) \/ Pull(b) \/ PullAgain(b) \/ Acknowledge(b)
             \/ AccessRuns(b) \/ PageRuns(b) \/ AccessFault(b) \/ PageFault(b)
      PROVE  UNCHANGED taken
  BY <1>5 DEF Enrol, Enrolled, Learn, Pull, PullAgain, Acknowledge, AccessRuns, PageRuns,
              AccessFault, PageFault, auditorVars
<1>6. CASE LedgerGrows \/ UNCHANGED allVars
  BY <1>2, <1>6 DEF LedgerGrows, allVars, auditorVars
<1>7. ASSUME NEW b \in Auditors, Acknowledged(b) \/ Crash(b) PROVE Continues(a)
  BY <1>3, <1>7 DEF Acknowledged, Crash
<1> QED
  BY <1>2, <1>4, <1>5, <1>6, <1>7 DEF AuditNext, AuditorRuns

\* Pages lead forward: as long as a replica lives, no event of an increment reaches it
\* twice or before an earlier one, whatever is committed and sealed meanwhile.
THEOREM PagesLeadOn == AuditSpec => PagesContinue
<1>1. AuditorsAreInductive /\ [AuditNext]_allVars => [\A a \in Auditors : Continues(a)]_allVars
  BY StepsContinue
<1>2. AuditSpec => [][\A a \in Auditors : Continues(a)]_allVars
  BY <1>1, AuditorsInvariant, PTL DEF AuditSpec
<1> QED
  BY <1>2 DEF PagesContinue, Continues

=============================================================================
