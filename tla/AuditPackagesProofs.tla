------------------------ MODULE AuditPackagesProofs ------------------------
(***************************************************************************)
(* Proofs about AuditPackages for every set of keys, instruments, clients, *)
(* requests and replicas, every length of a lease and every bound.         *)
(*                                                                         *)
(* The argument: whoever acts, a row makes one of few steps (RowStep), and *)
(* each of them follows the life of PackageLifecycle, sets and clears the  *)
(* columns that the CHECK constraint looks at, and leaves the instrument   *)
(* and the boundary alone.                                                 *)
(***************************************************************************)
EXTENDS AuditPackages, TLAPS

Row ==
  [status : Statuses, instrument : Instruments \cup {"none"}, boundary : Nat,
   owner : Workers \cup {NoWorker}, lease : LongOver .. Lease,
   attempt : 0 .. MaxAttempts, marks : SUBSET Marks]

IsRow(p) == p \in Row /\ (p.owner = NoWorker => p.lease = 0)

-----------------------------------------------------------------------------
(***************************************************************************)
(* The steps of a row.                                                     *)
(***************************************************************************)

New(i, b) == [NoPackage EXCEPT !.status = "pending", !.instrument = i, !.boundary = b]

IsCreated(p, q) ==
  /\ p.status = "absent"
  /\ \E i \in Instruments, b \in Nat :
       q = New(i, b) /\ FirstEvent[i] <= b /\ b <= sealed

IsClaimed(p, q) ==
  /\ p.status \in {"pending", "building"} /\ p.attempt < MaxAttempts
  /\ \E w \in Workers, n \in LongOver .. Lease : q = Claimed(p, w, n)

\* The steps that leave the archive alone.
QuietStep(p, q) ==
  \/ q = p
  \/ q = Later(p)
  \/ IsCreated(p, q)
  \/ IsClaimed(p, q)
  \/ p.status \in {"pending", "building"} /\ q = CancelRequested(p)
  \/ p.status = "cancelling" /\ q = Cancelled(p)
  \/ p.status = "failed" /\ q = Requeued(p)
  \/ p.status = "building" /\ q = Failed(p)

IsFinished(k) ==
  /\ package[k].status = "building" /\ package'[k] = Ready(package[k])
  /\ artifact'[k] = [instrument |-> package[k].instrument, boundary |-> package[k].boundary]

RowStep(k) ==
  \/ QuietStep(package[k], package'[k]) /\ artifact'[k] = artifact[k]
  \/ IsFinished(k)

LEMMA UnownedRow ==
  ASSUME NEW p, IsRow(p), NEW s \in Statuses, NEW m \in SUBSET Marks
  PROVE  IsRow([p EXCEPT !.status = s, !.owner = NoWorker, !.lease = 0, !.marks = m])
<1>1. 0 \in LongOver .. Lease
  BY PackagesAssumption DEF LongOver
<1> QED
  BY <1>1 DEF IsRow, Row

LEMMA SameOwnerRow ==
  ASSUME NEW p, IsRow(p), NEW s \in Statuses, NEW m \in SUBSET Marks
  PROVE  IsRow([p EXCEPT !.status = s, !.marks = m])
  BY DEF IsRow, Row

\* Every change of a row leaves a row.
LEMMA ChangedRows ==
  ASSUME NEW p, IsRow(p)
  PROVE  /\ IsRow(Later(p)) /\ IsRow(CancelRequested(p)) /\ IsRow(Cancelled(p))
         /\ IsRow(Requeued(p)) /\ IsRow(Failed(p)) /\ IsRow(Ready(p))
<1>0. p.marks \in SUBSET Marks
  BY DEF IsRow, Row
<1>1. IsRow(Later(p))
  BY PackagesAssumption DEF Later, IsRow, Row, LongOver
<1>2. /\ p.marks \cup {"cancel_requested_at"} \in SUBSET Marks
      /\ p.marks \cup {"cancel_requested_at", "cancelled_at"} \in SUBSET Marks
      /\ p.marks \cup {"cancelled_at"} \in SUBSET Marks
      /\ p.marks \cup {"failed_at", "failure"} \in SUBSET Marks
      /\ p.marks \cup {"ready_at", "artifact"} \in SUBSET Marks
      /\ p.marks \ {"failure", "failed_at", "cancel_requested_at", "cancelled_at"} \in SUBSET Marks
  BY <1>0 DEF Marks
<1>3. {"cancelled", "cancelling", "pending", "failed", "ready"} \subseteq Statuses
  BY DEF Statuses
<1>4. IsRow(CancelRequested(p))
  BY <1>2, <1>3, SameOwnerRow DEF CancelRequested
<1>5. IsRow(Cancelled(p)) /\ IsRow(Requeued(p)) /\ IsRow(Failed(p)) /\ IsRow(Ready(p))
  BY <1>2, <1>3, UnownedRow DEF Cancelled, Requeued, Failed, Ready
<1> QED
  BY <1>1, <1>4, <1>5

LEMMA NewRow ==
  ASSUME NEW i \in Instruments, NEW b \in Nat
  PROVE  IsRow(NoPackage) /\ IsRow(New(i, b))
<1>1. 0 \in LongOver .. Lease /\ 0 \in 0 .. MaxAttempts
  BY PackagesAssumption DEF LongOver
<1>2. IsRow(NoPackage)
  BY <1>1 DEF NoPackage, IsRow, Row, Statuses
<1>3. "pending" \in Statuses
  BY DEF Statuses
<1> QED
  BY <1>2, <1>3 DEF New, IsRow, Row

LEMMA ClaimedRow ==
  ASSUME NEW p, IsRow(p), p.attempt < MaxAttempts, NEW w \in Workers, NEW n \in LongOver .. Lease
  PROVE  IsRow(Claimed(p, w, n))
<1>1. "building" \in Statuses /\ w # NoWorker
  BY PackagesAssumption DEF Statuses
<1>2. p.attempt + 1 \in 0 .. MaxAttempts
  BY PackagesAssumption DEF IsRow, Row
<1> QED
  BY <1>1, <1>2 DEF Claimed, IsRow, Row

LEMMA StepKeepsRow ==
  ASSUME NEW p, IsRow(p), NEW q, QuietStep(p, q)
  PROVE  IsRow(q)
<1>1. CASE IsCreated(p, q)
  BY <1>1, NewRow DEF IsCreated
<1>2. CASE IsClaimed(p, q)
  BY <1>2, ClaimedRow DEF IsClaimed
<1> QED
  BY <1>1, <1>2, ChangedRows DEF QuietStep

LEMMA FinishedKeepsRow ==
  ASSUME NEW k \in Keys, IsRow(package[k]), IsFinished(k)
  PROVE  IsRow(package'[k])
  BY ChangedRows DEF IsFinished

LEMMA TypeFacts ==
  ASSUME TypeOK
  PROVE  /\ package \in [Keys -> Row]
         /\ \A k \in Keys : IsRow(package[k])
         /\ artifact \in [Keys -> [instrument : Instruments \cup {"none"}, boundary : Nat]]
         /\ \A w \in Workers : held[w].key \in Keys /\ Holding(w) \in Row
         /\ \A c \in Clients : request[c].key \in Keys /\ request[c].boundary \in Nat
                               /\ request[c].instrument \in Instruments
  BY DEF TypeOK, Row, IsRow, Holding

\* Whoever acts, every row makes one of its steps.
LEMMA ClientMakesRowSteps ==
  ASSUME TypeOK, NEW c \in Clients, RequestIsResolved(c), Client(c), NEW k \in Keys
  PROVE  RowStep(k)
<1>1. CASE Insert(c) /\ KeyIsFree(request[c].key)
  <2> DEFINE r == request[c]
  <2>1. /\ package' = [package EXCEPT ![r.key] = New(r.instrument, r.boundary)]
        /\ artifact' = artifact /\ cpc[c] = "insert" /\ package[r.key].status = "absent"
    BY <1>1 DEF Insert, New, KeyIsFree, Exists
  <2>2. IsCreated(package[r.key], New(r.instrument, r.boundary))
    BY <2>1, TypeFacts DEF IsCreated, RequestIsResolved
  <2>3. package'[k] = package[k] \/ IsCreated(package[k], package'[k])
    BY <2>1, <2>2, TypeFacts
  <2> QED
    BY <2>1, <2>3 DEF RowStep, QuietStep
<1>2. CASE UNCHANGED <<package, artifact>>
  BY <1>2 DEF RowStep, QuietStep
<1> QED
  BY <1>1, <1>2 DEF Client, ClientRuns, Create, CheckKey, Resolve, Insert, SettleFromRow, ClientFault

LEMMA ApiMakesRowSteps ==
  ASSUME TypeOK, NEW j \in Keys, CancelPackage(j) \/ RequestRetry(j), NEW k \in Keys
  PROVE  RowStep(k)
<1>1. artifact' = artifact
  BY DEF CancelPackage, RequestRetry
<1>2. CASE CancelPackage(j)
  <2>1. \/ package'[k] = package[k]
        \/ /\ package[k].status \in {"pending", "building"}
           /\ package'[k] = CancelRequested(package[k])
    BY <1>2, TypeFacts DEF CancelPackage
  <2> QED
    BY <1>1, <2>1 DEF RowStep, QuietStep
<1>3. CASE RequestRetry(j)
  <2>1. \/ package'[k] = package[k]
        \/ package[k].status = "failed" /\ package'[k] = Requeued(package[k])
    BY <1>3, TypeFacts DEF RequestRetry
  <2> QED
    BY <1>1, <2>1 DEF RowStep, QuietStep
<1> QED
  BY <1>2, <1>3

LEMMA ClaimMakesRowSteps ==
  ASSUME TypeOK, NEW w \in Workers, ClaimPackage(w), NEW k \in Keys
  PROVE  RowStep(k)
<1>1. Lease - age[w] \in LongOver .. Lease
  BY PackagesAssumption DEF TypeOK, LongOver
<1>2. CASE Eligible(w) = {} /\ UNCHANGED package
  BY <1>2 DEF ClaimPackage, RowStep, QuietStep
<1>3. ASSUME NEW j \in Eligible(w),
             package' = [package EXCEPT ![j] = Claimed(@, w, Lease - age[w])]
      PROVE  RowStep(k)
  <2>1. /\ j \in Keys /\ package[j].status \in {"pending", "building"}
        /\ package[j].attempt < MaxAttempts
    BY DEF Eligible
  <2>2. IsClaimed(package[j], Claimed(package[j], w, Lease - age[w]))
    BY <1>1, <2>1 DEF IsClaimed
  <2>3. package'[j] = Claimed(package[j], w, Lease - age[w])
    BY <1>3, <2>1, TypeFacts
  <2>4. package'[k] = package[k] \/ IsClaimed(package[k], package'[k])
    BY <1>3, <2>2, <2>3, TypeFacts
  <2> QED
    BY <2>4 DEF ClaimPackage, RowStep, QuietStep
<1> QED
  BY <1>2, <1>3 DEF ClaimPackage

\* The end of a build changes the row that was claimed, or none.
LEMMA EndOfBuild ==
  ASSUME TypeOK, NEW w \in Workers, WriteArchive(w) \/ FinishCancelled(w) \/ FailOrCancel(w)
  PROVE  \/ UNCHANGED <<package, artifact>>
         \/ /\ Holding(w).status = "cancelling" /\ artifact' = artifact
            /\ package' = [package EXCEPT ![held[w].key] = Cancelled(@)]
         \/ /\ MayFinish(w) /\ artifact' = artifact /\ FailOrCancel(w)
            /\ package' = [package EXCEPT ![held[w].key] = Failed(@)]
         \/ /\ MayFinish(w) /\ WriteArchive(w)
            /\ package' = [package EXCEPT ![held[w].key] = Ready(@)]
            /\ artifact' = [artifact EXCEPT ![held[w].key] =
                              [instrument |-> held[w].instrument, boundary |-> held[w].boundary]]
  BY DEF WriteArchive, FinishCancelled, FailOrCancel, ConfirmCancel

LEMMA BuildMakesRowSteps ==
  ASSUME TypeOK, NEW w \in Workers, ClaimIsCurrent(w), NEW k \in Keys,
         WriteArchive(w) \/ FinishCancelled(w) \/ FailOrCancel(w)
  PROVE  RowStep(k)
<1> DEFINE j == held[w].key
<1>1. j \in Keys /\ Holding(w) = package[j]
  BY TypeFacts DEF Holding
<1>2. Builds(w)
  BY DEF Builds, WriteArchive, FinishCancelled, FailOrCancel
<1>3. CASE k # j
  <2>1. package'[k] = package[k] /\ artifact'[k] = artifact[k]
    BY <1>1, <1>3, EndOfBuild, TypeFacts
  <2> QED
    BY <2>1 DEF RowStep, QuietStep
<1>4. CASE k = j
  <2>1. CASE UNCHANGED <<package, artifact>>
    BY <2>1 DEF RowStep, QuietStep
  <2>2. CASE /\ Holding(w).status = "cancelling" /\ artifact' = artifact
             /\ package' = [package EXCEPT ![j] = Cancelled(@)]
    BY <1>1, <1>4, <2>2, TypeFacts DEF RowStep, QuietStep
  <2>3. CASE /\ MayFinish(w) /\ artifact' = artifact /\ FailOrCancel(w)
             /\ package' = [package EXCEPT ![j] = Failed(@)]
    BY <1>1, <1>4, <2>3, TypeFacts DEF RowStep, QuietStep, MayFinish
  <2>4. CASE /\ MayFinish(w) /\ WriteArchive(w)
             /\ package' = [package EXCEPT ![j] = Ready(@)]
             /\ artifact' = [artifact EXCEPT ![j] =
                              [instrument |-> held[w].instrument, boundary |-> held[w].boundary]]
    BY <1>1, <1>2, <1>4, <2>4, TypeFacts DEF RowStep, IsFinished, MayFinish, ClaimIsCurrent
  <2> QED
    BY <2>1, <2>2, <2>3, <2>4, EndOfBuild
<1> QED
  BY <1>3, <1>4

LEMMA WorkerMakesRowSteps ==
  ASSUME TypeOK, NEW w \in Workers, ClaimIsCurrent(w), Worker(w), NEW k \in Keys
  PROVE  RowStep(k)
<1>1. CASE SettleStaleCancelling(w)
  <2>1. \/ package'[k] = package[k]
        \/ package[k].status = "cancelling" /\ package'[k] = Cancelled(package[k])
    BY <1>1 DEF SettleStaleCancelling, Stale
  <2> QED
    BY <1>1, <2>1 DEF SettleStaleCancelling, RowStep, QuietStep
<1>2. CASE UNCHANGED <<package, artifact>>
  BY <1>2 DEF RowStep, QuietStep
<1> QED
  BY <1>1, <1>2, ClaimMakesRowSteps, BuildMakesRowSteps
  DEF Worker, WorkerRuns, Poll, ObserveCancel, Render, MeetDefect, WorkerFault

LEMMA NextMakesRowSteps ==
  ASSUME PackagesAreInductive, [Next]_vars, NEW k \in Keys
  PROVE  RowStep(k)
<1>1. CASE SealCheckpoint \/ UNCHANGED vars
  BY <1>1 DEF SealCheckpoint, vars, RowStep, QuietStep
<1>2. CASE Tick
  BY <1>2 DEF Tick, RowStep, QuietStep
<1> QED
  BY <1>1, <1>2, ClientMakesRowSteps, ApiMakesRowSteps, WorkerMakesRowSteps
  DEF Next, PackagesAreInductive

-----------------------------------------------------------------------------
(***************************************************************************)
(* The types.                                                              *)
(***************************************************************************)

Archive == [instrument : Instruments \cup {"none"}, boundary : Nat]

RowTypes ==
  /\ package \in [Keys -> Row]
  /\ \A k \in Keys : IsRow(package[k])
  /\ artifact \in [Keys -> Archive]

Replies ==
  [status : {"none", "ok", "lost", "NOT_FOUND", "NO_SEALED_CHECKPOINT",
             "CHECKPOINT_DOES_NOT_COVER_INSTRUMENT", "INSTRUMENT_HAS_NO_SEALED_EVENTS",
             "IDEMPOTENCY_CONFLICT", "INTEGRITY_ERROR"},
   created : BOOLEAN]

Running == [key : Keys, instrument : Instruments, checkpoint : Nat, boundary : Nat]

ClientTypes ==
  /\ cpc \in [Clients -> {"idle", "check", "resolve", "insert", "settle"}]
  /\ request \in [Clients -> Running]
  /\ reply \in [Clients -> Replies]

Claim == [key : Keys, instrument : Instruments \cup {"none"}, boundary : Nat]

WorkerTypes ==
  /\ wpc \in [Workers -> {"idle", "settle", "claim", "build", "write", "confirm", "fail"}]
  /\ held \in [Workers -> Claim]
  /\ age \in [Workers -> 0 .. MaxAge]
  /\ result \in [Workers -> {"nothing", "ready", "failed", "cancelled"}]
  /\ confirmed \in [Keys -> SUBSET Workers]

CounterTypes == sealed \in 0 .. MaxCheckpoints /\ calls \in 0 .. MaxCalls /\ faults \in 0 .. MaxFaults

LEMMA TypeParts ==
  TypeOK <=> RowTypes /\ ClientTypes /\ WorkerTypes /\ CounterTypes
  BY DEF TypeOK, RowTypes, ClientTypes, WorkerTypes, CounterTypes, Archive, Replies, Running,
         Claim, IsRow, Row

LEMMA TypePartsAfter ==
  TypeOK' <=> RowTypes' /\ ClientTypes' /\ WorkerTypes' /\ CounterTypes'
  BY TypeParts, PTL

LEMMA NothingIsHeld ==
  NothingHeld \in Claim
  BY PackagesAssumption DEF NothingHeld, Claim

LEMMA InitHasTypes ==
  Init => TypeOK
<1> SUFFICES ASSUME Init PROVE TypeOK
  OBVIOUS
<1>1. IsRow(NoPackage)
  BY NewRow, PackagesAssumption
<1>2. RowTypes
  BY <1>1 DEF Init, RowTypes, IsRow, Archive, NoArchive
<1>3. ClientTypes
  BY PackagesAssumption DEF Init, ClientTypes, Replies, Running, Anything
<1>4. WorkerTypes
  BY PackagesAssumption, NothingIsHeld DEF Init, WorkerTypes
<1>5. CounterTypes
  BY PackagesAssumption DEF Init, CounterTypes
<1> QED
  BY <1>2, <1>3, <1>4, <1>5, TypeParts

\* Rows are changed in place: no step adds or drops a key.
LEMMA RowsStayRows ==
  ASSUME TypeOK, [Next]_vars
  PROVE  package' = [k \in Keys |-> package'[k]] /\ artifact' = [k \in Keys |-> artifact'[k]]
<1>0. package = [k \in Keys |-> package[k]] /\ artifact = [k \in Keys |-> artifact[k]]
  BY TypeFacts
<1>1. ASSUME NEW w \in Workers, Worker(w)
      PROVE  /\ package' = [k \in Keys |-> package'[k]]
             /\ artifact' = [k \in Keys |-> artifact'[k]]
  <2>1. CASE WriteArchive(w) \/ FinishCancelled(w) \/ FailOrCancel(w)
    BY <1>0, <2>1, EndOfBuild
  <2>2. CASE ClaimPackage(w)
    BY <1>0, <2>2 DEF ClaimPackage
  <2>3. CASE SettleStaleCancelling(w)
    BY <1>0, <2>3 DEF SettleStaleCancelling
  <2> QED
    BY <1>0, <1>1, <2>1, <2>2, <2>3
    DEF Worker, WorkerRuns, Poll, ObserveCancel, Render, MeetDefect, WorkerFault
<1>2. ASSUME NEW c \in Clients, Client(c)
      PROVE  /\ package' = [k \in Keys |-> package'[k]]
             /\ artifact' = [k \in Keys |-> artifact'[k]]
  <2>1. CASE Insert(c)
    BY <1>0, <2>1 DEF Insert
  <2> QED
    BY <1>0, <1>2, <2>1
    DEF Client, ClientRuns, Create, CheckKey, Resolve, SettleFromRow, ClientFault
<1>3. ASSUME NEW k \in Keys, CancelPackage(k) \/ RequestRetry(k)
      PROVE  /\ package' = [j \in Keys |-> package'[j]]
             /\ artifact' = [j \in Keys |-> artifact'[j]]
  BY <1>0, <1>3 DEF CancelPackage, RequestRetry
<1>4. CASE SealCheckpoint \/ Tick \/ UNCHANGED vars
  BY <1>0, <1>4 DEF SealCheckpoint, Tick, vars
<1> QED
  BY <1>1, <1>2, <1>3, <1>4 DEF Next

LEMMA StepKeepsRowTypes ==
  ASSUME TypeOK, [Next]_vars, \A k \in Keys : RowStep(k)
  PROVE  RowTypes'
<1>1. ASSUME NEW k \in Keys
      PROVE  IsRow(package'[k]) /\ artifact'[k] \in Archive
  <2>1. IsRow(package[k]) /\ artifact[k] \in Archive
    BY TypeFacts DEF Archive
  <2>2. CASE QuietStep(package[k], package'[k]) /\ artifact'[k] = artifact[k]
    BY <2>1, <2>2, StepKeepsRow
  <2>3. CASE IsFinished(k)
    BY <2>1, <2>3, FinishedKeepsRow DEF IsFinished, Archive, IsRow, Row
  <2> QED
    BY <2>2, <2>3 DEF RowStep
<1>2. package' = [k \in Keys |-> package'[k]] /\ artifact' = [k \in Keys |-> artifact'[k]]
  BY RowsStayRows
<1>3. package' \in [Keys -> Row] /\ \A k \in Keys : IsRow(package'[k])
  BY <1>1, <1>2 DEF IsRow
<1>4. artifact' \in [Keys -> Archive]
  BY <1>1, <1>2
<1>5. Row' = Row
  BY DEF Row, Statuses, Marks, LongOver
<1> QED
  BY <1>3, <1>4 DEF RowTypes, IsRow, Row, Archive

\* What an answer does to the client that gets it, and to no other.
LEMMA AnswerKeepsTypes ==
  ASSUME ClientTypes, NEW c \in Clients, NEW s, NEW b \in BOOLEAN, Answer(c, s, b),
         s \in {"none", "ok", "lost", "NOT_FOUND", "NO_SEALED_CHECKPOINT",
                "CHECKPOINT_DOES_NOT_COVER_INSTRUMENT", "INSTRUMENT_HAS_NO_SEALED_EVENTS",
                "IDEMPOTENCY_CONFLICT", "INTEGRITY_ERROR"},
         UNCHANGED request
  PROVE  ClientTypes'
  BY DEF ClientTypes, Answer, Replies, Running

LEMMA ClientKeepsTypes ==
  ASSUME TypeOK, NEW c \in Clients, Client(c)
  PROVE  ClientTypes' /\ CounterTypes'
<1>1. ClientTypes /\ CounterTypes
  BY TypeParts
<1>2. CounterTypes'
  <2>1. CASE Create(c)
    BY <1>1, <2>1, PackagesAssumption DEF CounterTypes, Create, Call
  <2>2. CASE ClientFault(c)
    BY <1>1, <2>2, PackagesAssumption DEF CounterTypes, ClientFault
  <2>3. CASE UNCHANGED <<sealed, calls, faults>>
    BY <1>1, <2>3 DEF CounterTypes
  <2> QED
    BY <2>1, <2>2, <2>3 DEF Client, ClientRuns, CheckKey, Resolve, Insert, SettleFromRow
<1>3. CASE Create(c)
  <2>1. PICK r \in Requests :
          request' = [request EXCEPT
                        ![c] = [key |-> r.key, instrument |-> r.instrument,
                                checkpoint |-> r.checkpoint, boundary |-> 0]]
    BY <1>3 DEF Create
  <2>2. r \in Request
    BY PackagesAssumption
  <2>3. request' \in [Clients -> Running]
    BY <1>1, <2>1, <2>2 DEF ClientTypes, Request, Running
  <2> QED
    BY <1>1, <1>2, <1>3, <2>3 DEF Create, ClientTypes
<1>4. CASE CheckKey(c)
  BY <1>1, <1>2, <1>4, AnswerKeepsTypes DEF CheckKey, AnswerFromRow, ClientTypes
<1>5. CASE Resolve(c)
  <2> DEFINE r == request[c]
             b == IF r.checkpoint # Anything THEN r.checkpoint ELSE sealed
  <2>1. CASE /\ UNCHANGED request
             /\ \E s \in {"NOT_FOUND", "NO_SEALED_CHECKPOINT",
                         "CHECKPOINT_DOES_NOT_COVER_INSTRUMENT",
                         "INSTRUMENT_HAS_NO_SEALED_EVENTS"} : Answer(c, s, FALSE)
    BY <1>1, <1>2, <2>1, AnswerKeepsTypes
  <2>2. CASE /\ b \in 1 .. sealed /\ request' = [request EXCEPT ![c].boundary = b]
             /\ cpc' = [cpc EXCEPT ![c] = "insert"] /\ UNCHANGED reply
    <3>1. b \in Nat
      BY <1>1, <2>2 DEF CounterTypes
    <3> QED
      BY <1>1, <1>2, <2>2, <3>1 DEF ClientTypes, Running
  <2> QED
    BY <1>5, <2>1, <2>2 DEF Resolve
<1>6. CASE Insert(c)
  BY <1>1, <1>2, <1>6, AnswerKeepsTypes DEF Insert, ClientTypes
<1>7. CASE SettleFromRow(c)
  BY <1>1, <1>2, <1>7, AnswerKeepsTypes DEF SettleFromRow, AnswerFromRow
<1>8. CASE ClientFault(c)
  BY <1>1, <1>2, <1>8, AnswerKeepsTypes DEF ClientFault
<1> QED
  BY <1>3, <1>4, <1>5, <1>6, <1>7, <1>8 DEF Client, ClientRuns

LEMMA ReturnKeepsTypes ==
  ASSUME WorkerTypes, NEW w \in Workers, NEW s, NEW d,
         d \in {"nothing", "ready", "failed", "cancelled"}, Return(w, s, d)
  PROVE  WorkerTypes'
<1>1. held[w].key \in Keys
  BY DEF WorkerTypes, Claim
<1>2. confirmed' \in [Keys -> SUBSET Workers]
  BY <1>1 DEF WorkerTypes, Return
<1>3. held' \in [Workers -> Claim]
  BY NothingIsHeld DEF WorkerTypes, Return
<1>4. /\ wpc' \in [Workers -> {"idle", "settle", "claim", "build", "write", "confirm", "fail"}]
      /\ age' \in [Workers -> 0 .. MaxAge]
      /\ result' \in [Workers -> {"nothing", "ready", "failed", "cancelled"}]
  BY PackagesAssumption DEF WorkerTypes, Return, Goto
<1> QED
  BY <1>2, <1>3, <1>4 DEF WorkerTypes, Claim

LEMMA WorkerKeepsItsTypes ==
  ASSUME TypeOK, NEW w \in Workers, Worker(w)
  PROVE  WorkerTypes'
<1>1. WorkerTypes /\ 0 \in 0 .. MaxAge
  BY TypeParts, PackagesAssumption
<1>2. CASE Poll(w) \/ ObserveCancel(w) \/ Render(w) \/ MeetDefect(w)
  <2>1. CASE Poll(w)
    BY <1>1, <2>1 DEF Poll, Goto, WorkerTypes, Claim
  <2>2. CASE ObserveCancel(w)
    BY <1>1, <2>2 DEF ObserveCancel, Goto, WorkerTypes, Claim
  <2>3. CASE Render(w)
    BY <1>1, <2>3 DEF Render, Goto, WorkerTypes, Claim
  <2>4. CASE MeetDefect(w)
    BY <1>1, <2>4 DEF MeetDefect, Goto, WorkerTypes, Claim
  <2> QED
    BY <1>2, <2>1, <2>2, <2>3, <2>4
<1>3. CASE SettleStaleCancelling(w)
  <2>1. confirmed' \in [Keys -> SUBSET Workers]
    BY <1>1, <1>3 DEF SettleStaleCancelling, WorkerTypes
  <2> QED
    BY <1>1, <1>3, <2>1 DEF SettleStaleCancelling, Goto, WorkerTypes, Claim
<1>4. CASE ClaimPackage(w)
  <2>1. CASE UNCHANGED held /\ Goto(w, "idle") /\ age' = [age EXCEPT ![w] = 0]
    BY <1>1, <1>4, <2>1 DEF ClaimPackage, Goto, WorkerTypes, Claim
  <2>2. ASSUME NEW k \in Eligible(w),
               held' = [held EXCEPT ![w] = [key |-> k, instrument |-> package[k].instrument,
                                            boundary |-> package[k].boundary]],
               Goto(w, "build"), UNCHANGED age
        PROVE  WorkerTypes'
    <3>1. k \in Keys
      BY DEF Eligible
    <3>2. held' \in [Workers -> Claim]
      BY <1>1, <2>2, <3>1, TypeFacts DEF WorkerTypes, Claim, Row
    <3> QED
      BY <1>1, <1>4, <2>2, <3>2 DEF ClaimPackage, Goto, WorkerTypes, Claim
  <2> QED
    BY <1>4, <2>1, <2>2 DEF ClaimPackage
<1>5. CASE WriteArchive(w)
  BY <1>1, <1>5, ReturnKeepsTypes DEF WriteArchive, ConfirmCancel
<1>6. CASE FinishCancelled(w)
  BY <1>1, <1>6, ReturnKeepsTypes DEF FinishCancelled, ConfirmCancel
<1>7. CASE FailOrCancel(w)
  BY <1>1, <1>7, ReturnKeepsTypes DEF FailOrCancel, ConfirmCancel
<1>8. CASE WorkerFault(w)
  BY <1>1, <1>8, NothingIsHeld DEF WorkerFault, Goto, WorkerTypes, Claim
<1> QED
  BY <1>2, <1>3, <1>4, <1>5, <1>6, <1>7, <1>8 DEF Worker, WorkerRuns

LEMMA WorkerKeepsTypes ==
  ASSUME TypeOK, NEW w \in Workers, Worker(w)
  PROVE  WorkerTypes' /\ CounterTypes' /\ UNCHANGED clientVars
<1>1. WorkerTypes /\ CounterTypes /\ 0 \in 0 .. MaxAge
  BY TypeParts, PackagesAssumption
<1>2. CounterTypes'
  <2>1. CASE WorkerFault(w)
    BY <1>1, <2>1, PackagesAssumption DEF CounterTypes, WorkerFault
  <2>2. CASE UNCHANGED <<sealed, calls, faults>>
    BY <1>1, <2>2 DEF CounterTypes
  <2> QED
    BY <2>1, <2>2
    DEF Worker, WorkerRuns, Poll, SettleStaleCancelling, ClaimPackage, ObserveCancel, Render,
        MeetDefect, WriteArchive, FinishCancelled, FailOrCancel
<1>3. UNCHANGED clientVars
  BY DEF Worker, WorkerRuns, Poll, SettleStaleCancelling, ClaimPackage, ObserveCancel, Render,
         MeetDefect, WriteArchive, FinishCancelled, FailOrCancel, WorkerFault
<1> QED
  BY <1>2, <1>3, WorkerKeepsItsTypes

LEMMA NextKeepsTypes ==
  ASSUME PackagesAreInductive, [Next]_vars
  PROVE  TypeOK'
<1>1. TypeOK /\ ClientTypes /\ WorkerTypes /\ CounterTypes
  BY TypeParts DEF PackagesAreInductive
<1>2. RowTypes'
  BY <1>1, StepKeepsRowTypes, NextMakesRowSteps
<1>3. CASE \E c \in Clients : Client(c)
  <2>1. UNCHANGED workerVars
    BY <1>3 DEF Client, ClientRuns, Create, CheckKey, Resolve, Insert, SettleFromRow, ClientFault
  <2>2. WorkerTypes'
    BY <1>1, <2>1 DEF workerVars, WorkerTypes, Claim
  <2> QED
    BY <1>1, <1>2, <1>3, <2>2, ClientKeepsTypes, TypePartsAfter
<1>4. ASSUME UNCHANGED clientVars
      PROVE  ClientTypes'
  BY <1>1, <1>4 DEF clientVars, ClientTypes, Replies, Running
<1>5. CASE \E w \in Workers : Worker(w)
  BY <1>1, <1>2, <1>4, <1>5, WorkerKeepsTypes, TypePartsAfter
<1>6. CASE UNCHANGED clientVars /\ UNCHANGED workerVars /\ CounterTypes'
  <2>1. WorkerTypes'
    BY <1>1, <1>6 DEF workerVars, WorkerTypes, Claim
  <2> QED
    BY <1>2, <1>4, <1>6, <2>1, TypePartsAfter
<1>7. CASE \E k \in Keys : CancelPackage(k) \/ RequestRetry(k)
  <2>1. CounterTypes'
    BY <1>1, <1>7, PackagesAssumption DEF CancelPackage, RequestRetry, Call, CounterTypes
  <2> QED
    BY <1>6, <1>7, <2>1 DEF CancelPackage, RequestRetry
<1>8. CASE SealCheckpoint
  <2>1. CounterTypes'
    BY <1>1, <1>8, PackagesAssumption DEF SealCheckpoint, CounterTypes
  <2> QED
    BY <1>6, <1>8, <2>1 DEF SealCheckpoint
<1>9. CASE UNCHANGED vars
  BY <1>1, <1>6, <1>9 DEF vars, clientVars, workerVars, CounterTypes
<1>10. CASE Tick
  <2>1. WorkerTypes'
    <3>1. age' \in [Workers -> 0 .. MaxAge]
      BY <1>1, <1>10, PackagesAssumption DEF Tick, WorkerTypes
    <3> QED
      BY <1>1, <1>10, <3>1 DEF Tick, WorkerTypes, Claim
  <2> QED
    BY <1>1, <1>2, <1>4, <1>10, <2>1, TypePartsAfter DEF Tick, CounterTypes
<1> QED
  BY <1>3, <1>5, <1>7, <1>8, <1>9, <1>10 DEF Next

-----------------------------------------------------------------------------
(***************************************************************************)
(* The rows: columns, instrument and boundary.                             *)
(***************************************************************************)

Exact(p) ==
  /\ p.marks = MarksOf[p.status]
  /\ p.owner = NoWorker <=> p.status \notin {"building", "cancelling"}
  /\ p.status # "absent" => /\ p.instrument \in Instruments
                            /\ FirstEvent[p.instrument] <= p.boundary /\ p.boundary <= sealed

\* q is a later row of the package that p is a row of.
Follows(p, q) ==
  p.status # "absent" =>
    q.status # "absent" /\ q.instrument = p.instrument /\ q.boundary = p.boundary

LEMMA ChangesAreExact ==
  ASSUME NEW p, IsRow(p), Exact(p)
  PROVE  /\ Exact(Later(p)) /\ Follows(p, Later(p))
         /\ p.status \in {"pending", "building"} =>
              Exact(CancelRequested(p)) /\ Follows(p, CancelRequested(p))
         /\ p.status = "cancelling" => Exact(Cancelled(p)) /\ Follows(p, Cancelled(p))
         /\ p.status = "failed" => Exact(Requeued(p)) /\ Follows(p, Requeued(p))
         /\ p.status = "building" =>
              /\ Exact(Failed(p)) /\ Follows(p, Failed(p))
              /\ Exact(Ready(p)) /\ Follows(p, Ready(p))
<1>1. Exact(Later(p)) /\ Follows(p, Later(p))
  BY DEF Later, IsRow, Row, Exact, Follows
<1>2. CASE p.status = "pending"
  BY <1>1, <1>2 DEF CancelRequested, IsRow, Row, Exact, Follows, MarksOf
<1>3. CASE p.status = "building"
  <2>1. Exact(CancelRequested(p)) /\ Follows(p, CancelRequested(p))
    BY <1>3 DEF CancelRequested, IsRow, Row, Exact, Follows, MarksOf
  <2>2. Exact(Failed(p)) /\ Follows(p, Failed(p))
    BY <1>3 DEF Failed, IsRow, Row, Exact, Follows, MarksOf
  <2>3. Exact(Ready(p)) /\ Follows(p, Ready(p))
    BY <1>3 DEF Ready, IsRow, Row, Exact, Follows, MarksOf
  <2> QED
    BY <1>1, <1>3, <2>1, <2>2, <2>3
<1>4. CASE p.status = "cancelling"
  BY <1>1, <1>4 DEF Cancelled, IsRow, Row, Exact, Follows, MarksOf
<1>5. CASE p.status = "failed"
  BY <1>1, <1>5 DEF Requeued, IsRow, Row, Exact, Follows, MarksOf
<1> QED
  BY <1>1, <1>2, <1>3, <1>4, <1>5

LEMMA StepIsExact ==
  ASSUME NEW p, IsRow(p), Exact(p), NEW q, QuietStep(p, q)
  PROVE  Exact(q) /\ Follows(p, q)
<1>1. CASE IsCreated(p, q)
  <2>1. PICK i \in Instruments, b \in Nat : q = New(i, b) /\ FirstEvent[i] <= b /\ b <= sealed
    BY <1>1 DEF IsCreated
  <2>2. /\ q.status = "pending" /\ q.instrument = i /\ q.boundary = b
        /\ q.owner = NoWorker /\ q.marks = {}
    BY <2>1 DEF New, NoPackage
  <2> QED
    BY <1>1, <2>1, <2>2 DEF IsCreated, Exact, Follows, MarksOf
<1>2. CASE IsClaimed(p, q)
  <2>1. PICK w \in Workers, n \in LongOver .. Lease : q = Claimed(p, w, n)
    BY <1>2 DEF IsClaimed
  <2>2. /\ q.status = "building" /\ q.instrument = p.instrument /\ q.boundary = p.boundary
        /\ q.owner = w /\ q.marks = p.marks
    BY <2>1 DEF Claimed, IsRow, Row
  <2> QED
    BY <1>2, <2>2, PackagesAssumption DEF IsClaimed, Exact, Follows, MarksOf
<1>3. CASE q = p
  BY <1>3 DEF Follows
<1> QED
  BY <1>1, <1>2, <1>3, ChangesAreExact DEF QuietStep

LEMMA SealedGrows ==
  ASSUME TypeOK, [Next]_vars
  PROVE  sealed \in Nat /\ sealed' \in Nat /\ sealed <= sealed'
<1>1. sealed \in Nat
  BY PackagesAssumption DEF TypeOK
<1>2. sealed' = sealed \/ sealed' = sealed + 1
  BY DEF Next, vars, Client, ClientRuns, Create, CheckKey, Resolve, Insert, SettleFromRow,
         ClientFault, CancelPackage, RequestRetry, Worker, WorkerRuns, Poll,
         SettleStaleCancelling, ClaimPackage, ObserveCancel, Render, MeetDefect, WriteArchive,
         FinishCancelled, FailOrCancel, WorkerFault, SealCheckpoint, Tick
<1> QED
  BY <1>1, <1>2

\* A row stays exact, and a package keeps its instrument and its boundary.
LEMMA RowsStayExact ==
  ASSUME PackagesAreInductive, [Next]_vars, NEW k \in Keys
  PROVE  RowIsExact(k)' /\ Follows(package[k], package'[k])
<1>1. RowStep(k) /\ TypeOK
  BY NextMakesRowSteps DEF PackagesAreInductive
<1>2. IsRow(package[k]) /\ Exact(package[k])
  BY <1>1, TypeFacts DEF PackagesAreInductive, RowIsExact, Exact, Exists
<1>3. Exact(package'[k]) /\ Follows(package[k], package'[k])
  BY <1>1, <1>2, StepIsExact, ChangesAreExact DEF RowStep, IsFinished
<1>4. package'[k].boundary \in Nat
  BY <1>1, NextKeepsTypes DEF TypeOK
<1> QED
  BY <1>1, <1>3, <1>4, SealedGrows DEF RowIsExact, Exact, Exists

-----------------------------------------------------------------------------
(***************************************************************************)
(* The replicas: what a replica has claimed.                               *)
(***************************************************************************)

Claims(w, k) ==
  /\ k \in Keys /\ package[k].status \in {"pending", "building"}
  /\ package[k].attempt < MaxAttempts
  /\ package' = [package EXCEPT ![k] = Claimed(@, w, Lease - age[w])]
  /\ held'[w] = [key |-> k, instrument |-> package[k].instrument,
                 boundary |-> package[k].boundary]
  /\ age'[w] = age[w]

\* A replica that builds has built before, on the same claim, or claims now.
LEMMA BuildersHaveClaimed ==
  ASSUME TypeOK, [Next]_vars, NEW w \in Workers, Builds(w)'
  PROVE  \/ Builds(w) /\ held'[w] = held[w]
         \/ ClaimPackage(w) /\ \E k \in Eligible(w) : Claims(w, k)
<1>1. ASSUME NEW v \in Workers, Worker(v), v # w
      PROVE  wpc'[w] = wpc[w] /\ held'[w] = held[w]
  BY <1>1 DEF TypeOK, Worker, WorkerRuns, Poll, SettleStaleCancelling, ClaimPackage,
       ObserveCancel, Render, MeetDefect, WriteArchive, FinishCancelled, FailOrCancel,
       ConfirmCancel, WorkerFault, Return, Goto
<1>2. CASE Worker(w)
  <2>1. CASE ObserveCancel(w) \/ Render(w) \/ MeetDefect(w)
    BY <2>1 DEF ObserveCancel, Render, MeetDefect, Builds
  <2>2. CASE Poll(w) \/ SettleStaleCancelling(w)
    BY <2>2 DEF Poll, SettleStaleCancelling, Goto, Builds, TypeOK
  <2>3. CASE WriteArchive(w) \/ FinishCancelled(w) \/ FailOrCancel(w) \/ WorkerFault(w)
    BY <2>3 DEF WriteArchive, FinishCancelled, FailOrCancel, ConfirmCancel, WorkerFault, Return,
         Goto, Builds, TypeOK
  <2>4. CASE ClaimPackage(w)
    <3>1. CASE Goto(w, "idle")
      BY <3>1 DEF Goto, Builds, TypeOK
    <3>2. ASSUME NEW k \in Eligible(w), UNCHANGED age,
                 package' = [package EXCEPT ![k] = Claimed(@, w, Lease - age[w])],
                 held' = [held EXCEPT ![w] = [key |-> k, instrument |-> package[k].instrument,
                                              boundary |-> package[k].boundary]]
          PROVE  Claims(w, k)
      BY <3>2 DEF Eligible, Claims, TypeOK
    <3> QED
      BY <2>4, <3>1, <3>2 DEF ClaimPackage
  <2> QED
    BY <1>2, <2>1, <2>2, <2>3, <2>4 DEF Worker, WorkerRuns
<1>3. CASE UNCHANGED <<wpc, held>>
  BY <1>3 DEF Builds
<1> QED
  BY <1>1, <1>2, <1>3
  DEF Next, vars, workerVars, Client, ClientRuns, Create, CheckKey, Resolve, Insert,
      SettleFromRow, ClientFault, CancelPackage, RequestRetry, SealCheckpoint, Tick, Builds

LEMMA ClaimsStayCurrent ==
  ASSUME PackagesAreInductive, [Next]_vars, NEW w \in Workers
  PROVE  ClaimIsCurrent(w)'
<1> SUFFICES ASSUME Builds(w)'
             PROVE  /\ package'[held'[w].key].status # "absent"
                    /\ held'[w].instrument = package'[held'[w].key].instrument
                    /\ held'[w].boundary = package'[held'[w].key].boundary
  BY DEF ClaimIsCurrent, Exists, Holding
<1>1. TypeOK
  BY DEF PackagesAreInductive
<1>2. CASE Builds(w) /\ held'[w] = held[w]
  <2>1. held[w].key \in Keys
    BY <1>1, TypeFacts
  <2>2. Follows(package[held[w].key], package'[held[w].key])
    BY <2>1, RowsStayExact
  <2> QED
    BY <1>2, <2>2 DEF PackagesAreInductive, ClaimIsCurrent, Exists, Holding, Follows
<1>3. CASE \E k \in Eligible(w) : Claims(w, k)
  <2>1. PICK k \in Keys : Claims(w, k)
    BY <1>3 DEF Claims
  <2>2. Follows(package[k], package'[k])
    BY <2>1, RowsStayExact
  <2> QED
    BY <2>1, <2>2 DEF Claims, Follows
<1> QED
  BY <1>1, <1>2, <1>3, BuildersHaveClaimed

-----------------------------------------------------------------------------
(***************************************************************************)
(* The clients: what is resolved stays so, and creations agree.            *)
(***************************************************************************)

Untouched(c) == cpc'[c] = cpc[c] /\ request'[c] = request[c] /\ reply'[c] = reply[c]

LEMMA OneClientActs ==
  ASSUME TypeOK, [Next]_vars
  PROVE  \/ \A c \in Clients : Untouched(c)
         \/ \E c \in Clients : Client(c) /\ \A d \in Clients \ {c} : Untouched(d)
<1>1. ASSUME NEW c \in Clients, Client(c), NEW d \in Clients \ {c}
      PROVE  Untouched(d)
  <2>1. CASE Create(c)
    BY <1>1, <2>1 DEF TypeOK, Create, Untouched
  <2>2. CASE CheckKey(c) \/ SettleFromRow(c)
    BY <1>1, <2>2 DEF TypeOK, CheckKey, SettleFromRow, AnswerFromRow, Answer, Untouched
  <2>3. CASE Resolve(c)
    BY <1>1, <2>3 DEF TypeOK, Resolve, Answer, Untouched
  <2>4. CASE Insert(c)
    BY <1>1, <2>4 DEF TypeOK, Insert, Answer, Untouched
  <2>5. CASE ClientFault(c)
    BY <1>1, <2>5 DEF TypeOK, ClientFault, Answer, Untouched
  <2> QED
    BY <1>1, <2>1, <2>2, <2>3, <2>4, <2>5 DEF Client, ClientRuns
<1>2. ASSUME UNCHANGED clientVars
      PROVE  \A c \in Clients : Untouched(c)
  BY <1>2 DEF clientVars, Untouched
<1> QED
  BY <1>1, <1>2, WorkerKeepsTypes
  DEF Next, vars, clientVars, CancelPackage, RequestRetry, SealCheckpoint, Tick

LEMMA RequestsStayResolved ==
  ASSUME PackagesAreInductive, [Next]_vars, NEW c \in Clients
  PROVE  RequestIsResolved(c)'
<1>1. TypeOK /\ RequestIsResolved(c)
  BY DEF PackagesAreInductive
<1>2. CASE Untouched(c)
  <2>1. Follows(package[request[c].key], package'[request[c].key])
    BY <1>1, TypeFacts, RowsStayExact
  <2>2. request[c].boundary \in Nat
    BY <1>1, TypeFacts
  <2>3. cpc'[c] = "settle" => Exists(request[c].key)'
    BY <1>1, <1>2, <2>1 DEF RequestIsResolved, Exists, Untouched, Follows
  <2>4. cpc'[c] = "insert" =>
          /\ FirstEvent[request'[c].instrument] <= request'[c].boundary
          /\ request'[c].boundary <= sealed'
          /\ request'[c].checkpoint \in {Anything, request'[c].boundary}
    BY <1>1, <1>2, <2>2, SealedGrows DEF RequestIsResolved, Untouched
  <2> QED
    BY <1>2, <2>3, <2>4 DEF RequestIsResolved, Exists, Untouched
<1>3. CASE Client(c)
  <2>1. CASE Create(c) \/ ClientFault(c)
    BY <1>1, <2>1 DEF Create, ClientFault, Answer, RequestIsResolved, TypeOK
  <2>2. CASE CheckKey(c) \/ SettleFromRow(c)
    BY <1>1, <2>2 DEF CheckKey, SettleFromRow, AnswerFromRow, Answer, RequestIsResolved, TypeOK
  <2>3. CASE Resolve(c)
    <3> DEFINE b == IF request[c].checkpoint # Anything THEN request[c].checkpoint ELSE sealed
    <3>1. CASE cpc'[c] = "idle"
      BY <3>1 DEF RequestIsResolved
    <3>2. CASE /\ b \in 1 .. sealed /\ FirstEvent[request[c].instrument] <= b
               /\ request' = [request EXCEPT ![c].boundary = b]
               /\ cpc' = [cpc EXCEPT ![c] = "insert"]
      <4>1. /\ request'[c].boundary = b /\ request'[c].instrument = request[c].instrument
            /\ request'[c].checkpoint = request[c].checkpoint /\ cpc'[c] = "insert"
        BY <1>1, <3>2 DEF TypeOK
      <4>2. b <= sealed'
        BY <1>1, <3>2, SealedGrows
      <4> QED
        BY <3>2, <4>1, <4>2 DEF RequestIsResolved, Anything
    <3> QED
      BY <1>1, <2>3, <3>1, <3>2 DEF Resolve, Answer, TypeOK
  <2>4. CASE Insert(c)
    BY <1>1, <2>4 DEF Insert, Answer, KeyIsFree, Exists, RequestIsResolved, TypeOK
  <2> QED
    BY <1>3, <2>1, <2>2, <2>3, <2>4 DEF Client, ClientRuns
<1> QED
  BY <1>1, <1>2, <1>3, OneClientActs

Agrees(c) ==
  LET p == package[request[c].key]
  IN  cpc[c] = "idle" =>
        /\ reply[c].status = "ok" =>
             /\ Exists(request[c].key) /\ p.instrument = request[c].instrument
             /\ request[c].checkpoint \in {Anything, p.boundary}
             /\ FirstEvent[p.instrument] <= p.boundary /\ p.boundary <= sealed
        /\ reply[c].created => reply[c].status = "ok"
        /\ reply[c].status = "IDEMPOTENCY_CONFLICT" =>
             /\ Exists(request[c].key)
             /\ p.instrument = request[c].instrument =>
                  request[c].checkpoint \notin {Anything, p.boundary}
        /\ reply[c].status # "INTEGRITY_ERROR"

HasCreated(c) == cpc[c] = "idle" /\ reply[c].created

LEMMA AgreementParts ==
  CreationsAgree <=>
    /\ \A c \in Clients : Agrees(c)
    /\ \A c, d \in Clients :
         HasCreated(c) /\ HasCreated(d) /\ request[c].key = request[d].key => c = d
  BY DEF CreationsAgree, Agrees, HasCreated, IsReplay

LEMMA AgreementPartsAfter ==
  CreationsAgree' <=>
    /\ \A c \in Clients : Agrees(c)'
    /\ \A c, d \in Clients :
         HasCreated(c)' /\ HasCreated(d)' /\ request'[c].key = request'[d].key => c = d
  BY DEF CreationsAgree, Agrees, HasCreated, IsReplay, Exists

\* An answer that the row decides agrees with the row.
LEMMA RowDecides ==
  ASSUME PackagesAreInductive, NEW c \in Clients, Exists(request[c].key), AnswerFromRow(c),
         UNCHANGED <<package, sealed, request>>
  PROVE  Agrees(c)' /\ ~ HasCreated(c)'
<1>1. TypeOK /\ RowIsExact(request[c].key)
  BY TypeFacts DEF PackagesAreInductive
<1>2. CASE IsReplay(package[request[c].key], request[c])
  BY <1>1, <1>2 DEF AnswerFromRow, Answer, Agrees, HasCreated, IsReplay, Exists, RowIsExact, TypeOK
<1>3. CASE ~ IsReplay(package[request[c].key], request[c])
  BY <1>1, <1>3 DEF AnswerFromRow, Answer, Agrees, HasCreated, IsReplay, Exists, TypeOK
<1> QED
  BY <1>2, <1>3

LEMMA AnswersAgree ==
  ASSUME PackagesAreInductive, NEW c \in Clients, Client(c)
  PROVE  /\ Agrees(c)'
         /\ HasCreated(c)' =>
              ~ Exists(request[c].key) /\ request'[c] = request[c] /\ Exists(request[c].key)'
<1>1. TypeOK /\ RequestIsResolved(c)
  BY DEF PackagesAreInductive
<1>2. CASE Create(c)
  BY <1>1, <1>2 DEF Create, Agrees, HasCreated, TypeOK
<1>3. CASE CheckKey(c)
  <2>1. CASE Exists(request[c].key) /\ AnswerFromRow(c)
    BY <1>3, <2>1, RowDecides DEF CheckKey
  <2>2. CASE cpc' = [cpc EXCEPT ![c] = "resolve"]
    BY <1>1, <2>2 DEF Agrees, HasCreated, TypeOK
  <2> QED
    BY <1>3, <2>1, <2>2 DEF CheckKey
<1>4. CASE SettleFromRow(c)
  BY <1>1, <1>4, RowDecides DEF SettleFromRow, RequestIsResolved
<1>5. ASSUME NEW s \in {"lost", "NOT_FOUND", "NO_SEALED_CHECKPOINT",
                        "CHECKPOINT_DOES_NOT_COVER_INSTRUMENT",
                        "INSTRUMENT_HAS_NO_SEALED_EVENTS"}, Answer(c, s, FALSE)
      PROVE  Agrees(c)' /\ ~ HasCreated(c)'
  BY <1>1, <1>5 DEF Answer, Agrees, HasCreated, TypeOK
<1>6. CASE Resolve(c)
  <2>1. CASE cpc' = [cpc EXCEPT ![c] = "insert"]
    BY <1>1, <2>1 DEF Agrees, HasCreated, TypeOK
  <2> QED
    BY <1>5, <1>6, <2>1 DEF Resolve
<1>7. CASE Insert(c)
  <2>1. CASE cpc' = [cpc EXCEPT ![c] = "settle"]
    BY <1>1, <2>1 DEF Agrees, HasCreated, TypeOK
  <2>2. CASE ~ Exists(request[c].key) /\ Answer(c, "ok", TRUE)
             /\ package' = [package EXCEPT ![request[c].key] =
                              New(request[c].instrument, request[c].boundary)]
    <3> DEFINE r == request[c]
    <3>1. /\ package'[r.key] = New(r.instrument, r.boundary) /\ request' = request
          /\ sealed' = sealed /\ cpc[c] = "insert"
      BY <1>1, <1>7, <2>2, TypeFacts DEF Insert
    <3>2. /\ package'[r.key].status = "pending" /\ package'[r.key].instrument = r.instrument
          /\ package'[r.key].boundary = r.boundary
      BY <3>1 DEF New, NoPackage
    <3>3. reply'[c].status = "ok"
      BY <1>1, <2>2 DEF Answer, TypeOK
    <3>4. Agrees(c)'
      BY <1>1, <3>1, <3>2, <3>3 DEF Agrees, RequestIsResolved, Exists
    <3> QED
      BY <2>2, <3>1, <3>2, <3>4 DEF Exists
  <2> QED
    BY <1>7, <2>1, <2>2 DEF Insert, KeyIsFree, New
<1>8. CASE ClientFault(c)
  BY <1>5, <1>8 DEF ClientFault
<1> QED
  BY <1>2, <1>3, <1>4, <1>6, <1>7, <1>8 DEF Client, ClientRuns

LEMMA UntouchedAgree ==
  ASSUME PackagesAreInductive, [Next]_vars, NEW c \in Clients, Untouched(c)
  PROVE  Agrees(c)' /\ (HasCreated(c)' => HasCreated(c) /\ Exists(request[c].key))
<1> DEFINE k == request[c].key
<1>1. k \in Keys /\ package[k].boundary \in Nat /\ Agrees(c)
  BY TypeFacts, AgreementParts DEF PackagesAreInductive, Row
<1>2. Follows(package[k], package'[k])
  BY <1>1, RowsStayExact
<1>3. sealed \in Nat /\ sealed' \in Nat /\ sealed <= sealed'
  BY SealedGrows DEF PackagesAreInductive
<1>4. Exists(k) => /\ package'[k].status # "absent"
                   /\ package'[k].instrument = package[k].instrument
                   /\ package'[k].boundary = package[k].boundary
                   /\ package[k].boundary <= sealed => package[k].boundary <= sealed'
  BY <1>1, <1>2, <1>3 DEF Follows, Exists
<1>5. cpc'[c] = cpc[c] /\ request'[c] = request[c] /\ reply'[c] = reply[c]
  BY DEF Untouched
<1>6. HasCreated(c)' => HasCreated(c) /\ Exists(k)
  BY <1>1, <1>5 DEF HasCreated, Agrees
<1>7. Agrees(c)'
  BY <1>1, <1>4, <1>5 DEF Agrees, Exists
<1> QED
  BY <1>6, <1>7

LEMMA CreationsStayAgreed ==
  ASSUME PackagesAreInductive, [Next]_vars
  PROVE  CreationsAgree'
<1>1. TypeOK /\ CreationsAgree
  BY DEF PackagesAreInductive
<1>2. CASE \A c \in Clients : Untouched(c)
  BY <1>1, <1>2, UntouchedAgree, AgreementParts, AgreementPartsAfter DEF Untouched
<1>3. ASSUME NEW c \in Clients, Client(c), \A d \in Clients \ {c} : Untouched(d)
      PROVE  CreationsAgree'
  <2>1. \A d \in Clients : Agrees(d)'
    BY <1>3, UntouchedAgree, AnswersAgree
  <2>2. ASSUME NEW d \in Clients \ {c}, HasCreated(c)', HasCreated(d)'
        PROVE  request'[c].key # request'[d].key
    BY <1>3, <2>2, UntouchedAgree, AnswersAgree DEF Untouched
  <2>3. ASSUME NEW d \in Clients \ {c}, NEW e \in Clients \ {c}, HasCreated(d)', HasCreated(e)',
               request'[d].key = request'[e].key
        PROVE  d = e
    BY <1>1, <1>3, <2>3, UntouchedAgree, AgreementParts DEF Untouched
  <2> QED
    BY <2>1, <2>2, <2>3, AgreementPartsAfter
<1> QED
  BY <1>1, <1>2, <1>3, OneClientActs

-----------------------------------------------------------------------------
(***************************************************************************)
(* The theorems.                                                           *)
(***************************************************************************)

LEMMA InitIsInductive ==
  Init => PackagesAreInductive
<1> SUFFICES ASSUME Init PROVE PackagesAreInductive
  OBVIOUS
<1>1. \A k \in Keys : RowIsExact(k)
  BY DEF Init, NoPackage, RowIsExact, MarksOf, Exists
<1>2. \A w \in Workers : ClaimIsCurrent(w)
  BY DEF Init, ClaimIsCurrent, Builds
<1>3. \A c \in Clients : RequestIsResolved(c)
  BY DEF Init, RequestIsResolved
<1>4. CreationsAgree
  BY DEF Init, CreationsAgree
<1> QED
  BY <1>1, <1>2, <1>3, <1>4, InitHasTypes DEF PackagesAreInductive

LEMMA NextIsInductive ==
  PackagesAreInductive /\ [Next]_vars => PackagesAreInductive'
<1> SUFFICES ASSUME PackagesAreInductive, [Next]_vars PROVE PackagesAreInductive'
  OBVIOUS
<1>1. \A k \in Keys : RowIsExact(k)'
  BY RowsStayExact
<1>2. \A w \in Workers : ClaimIsCurrent(w)'
  BY ClaimsStayCurrent
<1>3. \A c \in Clients : RequestIsResolved(c)'
  BY RequestsStayResolved
<1> QED
  BY <1>1, <1>2, <1>3, NextKeepsTypes, CreationsStayAgreed DEF PackagesAreInductive

\* The inductive invariant of create_package, cancel_package, request_retry,
\* claim_package and build_once: rows, claims, requests and creations fit together
\* after every transaction and every crash.
THEOREM PackagesInvariant == Spec => []PackagesAreInductive
  BY InitIsInductive, NextIsInductive, PTL DEF Spec

\* Every column and local variable of the API and the exporter keeps its domain.
THEOREM TypeCorrect == Spec => []TypeOK
  BY PackagesInvariant, PTL DEF PackagesAreInductive

LEMMA ExactRowsHaveShape ==
  ASSUME NEW k \in Keys, RowIsExact(k), package[k].status \in Statuses
  PROVE  HasShape(package[k])
<1> DEFINE p == package[k]
<1>1. /\ p.marks = MarksOf[p.status]
      /\ p.owner = NoWorker <=> p.status \notin {"building", "cancelling"}
  BY DEF RowIsExact
<1>2. CASE p.status = "absent"
  BY <1>1, <1>2 DEF HasShape, MarksOf
<1>3. CASE p.status = "pending"
  BY <1>1, <1>3 DEF HasShape, MarksOf
<1>4. CASE p.status = "building"
  BY <1>1, <1>4 DEF HasShape, MarksOf
<1>5. CASE p.status = "ready"
  BY <1>1, <1>5 DEF HasShape, MarksOf
<1>6. CASE p.status = "failed"
  BY <1>1, <1>6 DEF HasShape, MarksOf
<1>7. CASE p.status = "cancelling"
  BY <1>1, <1>7 DEF HasShape, MarksOf
<1>8. CASE p.status = "cancelled"
  BY <1>1, <1>8 DEF HasShape, MarksOf
<1> QED
  BY <1>2, <1>3, <1>4, <1>5, <1>6, <1>7, <1>8 DEF Statuses

\* No history of failures, retries, cancellations and lost leases trips the CHECK
\* constraint audit_package_state_shape of models.py.
THEOREM RowsFit == Spec => []RowsKeepTheirShape
<1>1. PackagesAreInductive => RowsKeepTheirShape
  BY ExactRowsHaveShape, TypeFacts DEF PackagesAreInductive, RowsKeepTheirShape, Row
<1> QED
  BY <1>1, PackagesInvariant, PTL

\* Racing and repeated create requests agree on one package: one of them created it,
\* its boundary covers its instrument, and a conflict is a real one.
THEOREM CreationsAreConsistent == Spec => []CreationsAgree
<1>1. PackagesAreInductive => CreationsAgree
  BY DEF PackagesAreInductive
<1> QED
  BY <1>1, PackagesInvariant, PTL

-----------------------------------------------------------------------------
(***************************************************************************)
(* The owner of a lease.                                                   *)
(***************************************************************************)

\* Only the end of a build turns a row that is building into ready or failed.
LEMMA OnlyBuildsRecord ==
  ASSUME PackagesAreInductive, [Next]_vars, NEW k \in Keys,
         package[k].status = "building", package'[k].status \in {"ready", "failed"}
  PROVE  \E w \in Workers : WriteArchive(w) \/ FinishCancelled(w) \/ FailOrCancel(w)
<1>1. TypeOK /\ IsRow(package[k]) /\ package[k].status # package'[k].status
  BY TypeFacts DEF PackagesAreInductive
<1>2. ASSUME NEW c \in Clients, Client(c) PROVE FALSE
  <2>1. CASE Insert(c)
    BY <1>1, <2>1, TypeFacts DEF Insert, KeyIsFree, Exists
  <2> QED
    BY <1>1, <1>2, <2>1
    DEF Client, ClientRuns, Create, CheckKey, Resolve, SettleFromRow, ClientFault
<1>3. ASSUME NEW j \in Keys, CancelPackage(j) \/ RequestRetry(j) PROVE FALSE
  <2>1. CancelRequested(package[k]).status = "cancelling"
    BY <1>1 DEF CancelRequested, IsRow, Row
  <2> QED
    BY <1>1, <1>3, <2>1, TypeFacts DEF CancelPackage, RequestRetry
<1>4. ASSUME NEW w \in Workers, ClaimPackage(w) PROVE FALSE
  <2>1. ASSUME NEW n PROVE Claimed(package[k], w, n).status = "building"
    BY <1>1 DEF Claimed, IsRow, Row
  <2> QED
    BY <1>1, <1>4, <2>1, TypeFacts DEF ClaimPackage, Eligible
<1>5. ASSUME NEW w \in Workers, SettleStaleCancelling(w) PROVE FALSE
  BY <1>1, <1>5 DEF SettleStaleCancelling, Stale
<1>6. CASE Tick
  BY <1>1, <1>6 DEF Tick, Later, IsRow, Row
<1> QED
  BY <1>1, <1>2, <1>3, <1>4, <1>5, <1>6
  DEF Next, vars, Worker, WorkerRuns, Poll, ObserveCancel, Render, MeetDefect, WorkerFault,
      SealCheckpoint

LEMMA OwnerRecords ==
  ASSUME PackagesAreInductive, [Next]_vars, NEW k \in Keys,
         package[k].status = "building", package'[k].status \in {"ready", "failed"}
  PROVE  \E w \in Workers : /\ package[k].owner = w /\ held[w].key = k
                            /\ result'[w] = package'[k].status /\ wpc[w] # wpc'[w]
<1>1. TypeOK
  BY DEF PackagesAreInductive
<1>2. PICK w \in Workers : WriteArchive(w) \/ FinishCancelled(w) \/ FailOrCancel(w)
  BY OnlyBuildsRecord
<1>3. held[w].key = k /\ Holding(w) = package[k]
  BY <1>1, <1>2, EndOfBuild, TypeFacts DEF Holding
<1>4. wpc'[w] = "idle" /\ wpc[w] # "idle"
  BY <1>1, <1>2
  DEF TypeOK, WriteArchive, FinishCancelled, FailOrCancel, ConfirmCancel, Return, Goto
<1>5. CASE MayFinish(w) /\ WriteArchive(w)
  <2>1. result'[w] = "ready" /\ package'[k] = Ready(package[k])
    BY <1>1, <1>3, <1>5, TypeFacts DEF MayFinish, WriteArchive, Return, TypeOK
  <2>2. Ready(package[k]).status = "ready"
    BY <1>1, TypeFacts DEF Ready, Row
  <2> QED
    BY <1>3, <1>4, <1>5, <2>1, <2>2 DEF MayFinish
<1>6. CASE MayFinish(w) /\ FailOrCancel(w)
  <2>1. result'[w] = "failed" /\ package'[k] = Failed(package[k])
    BY <1>1, <1>3, <1>6, TypeFacts DEF MayFinish, FailOrCancel, Return, TypeOK
  <2>2. Failed(package[k]).status = "failed"
    BY <1>1, TypeFacts DEF Failed, Row
  <2> QED
    BY <1>3, <1>4, <1>6, <2>1, <2>2 DEF MayFinish
<1> QED
  BY <1>1, <1>2, <1>3, <1>5, <1>6, EndOfBuild

\* A build is recorded by the replica that the row names as owner, from its own
\* build: the owner check of build_once and _fail_or_cancel.
THEOREM OwnersRecord == Spec => OnlyTheOwnerRecords
<1>1. PackagesAreInductive /\ [Next]_vars =>
        [\A k \in Keys :
           package[k].status = "building" /\ package'[k].status \in {"ready", "failed"} =>
             \E w \in Workers :
               /\ package[k].owner = w /\ held[w].key = k
               /\ result'[w] = package'[k].status /\ wpc[w] # wpc'[w]]_vars
  BY OwnerRecords
<1> QED
  BY <1>1, PackagesInvariant, PTL DEF Spec, OnlyTheOwnerRecords

-----------------------------------------------------------------------------
(***************************************************************************)
(* The lifecycle: what the requester of one package may rely on.           *)
(***************************************************************************)

LifeStep(p, q, a, b) ==
  \/ p.status = q.status /\ p.boundary = q.boundary /\ a = b
  \/ p.status = "absent" /\ q.status = "pending" /\ q.boundary # 0 /\ a = b
  \/ /\ p.boundary = q.boundary
     /\ \/ p.status = "building" /\ q.status = "ready" /\ b = p.boundary
        \/ /\ a = b
           /\ <<p.status, q.status>> \in
                {<<"pending", "building">>, <<"building", "failed">>, <<"failed", "pending">>,
                 <<"pending", "cancelled">>, <<"cancelling", "cancelled">>,
                 <<"building", "cancelling">>}

LEMMA QuietStepsAreLifeSteps ==
  ASSUME NEW p, IsRow(p), NEW q, QuietStep(p, q), NEW a
  PROVE  LifeStep(p, q, a, a)
<1>1. CASE IsCreated(p, q)
  <2>1. PICK i \in Instruments, b \in Nat : q = New(i, b) /\ FirstEvent[i] <= b
    BY <1>1 DEF IsCreated
  <2>2. q.status = "pending" /\ q.boundary = b /\ b # 0
    BY <2>1, PackagesAssumption DEF New, NoPackage
  <2> QED
    BY <1>1, <2>2 DEF IsCreated, LifeStep
<1>2. CASE IsClaimed(p, q)
  <2>1. q.status = "building" /\ q.boundary = p.boundary
    BY <1>2 DEF IsClaimed, Claimed, IsRow, Row
  <2> QED
    BY <1>2, <2>1 DEF IsClaimed, LifeStep
<1>3. CASE q = p \/ q = Later(p)
  <2>1. q.status = p.status /\ q.boundary = p.boundary
    BY <1>3 DEF Later, IsRow, Row
  <2> QED
    BY <2>1 DEF LifeStep
<1>4. CASE p.status \in {"pending", "building"} /\ q = CancelRequested(p)
  <2>1. /\ q.boundary = p.boundary
        /\ q.status = IF p.status = "pending" THEN "cancelled" ELSE "cancelling"
    BY <1>4 DEF CancelRequested, IsRow, Row
  <2> QED
    BY <1>4, <2>1 DEF LifeStep
<1>5. CASE p.status = "cancelling" /\ q = Cancelled(p)
  <2>1. q.boundary = p.boundary /\ q.status = "cancelled"
    BY <1>5 DEF Cancelled, IsRow, Row
  <2> QED
    BY <1>5, <2>1 DEF LifeStep
<1>6. CASE p.status = "failed" /\ q = Requeued(p)
  <2>1. q.boundary = p.boundary /\ q.status = "pending"
    BY <1>6 DEF Requeued, IsRow, Row
  <2> QED
    BY <1>6, <2>1 DEF LifeStep
<1>7. CASE p.status = "building" /\ q = Failed(p)
  <2>1. q.boundary = p.boundary /\ q.status = "failed"
    BY <1>7 DEF Failed, IsRow, Row
  <2> QED
    BY <1>7, <2>1 DEF LifeStep
<1> QED
  BY <1>1, <1>2, <1>3, <1>4, <1>5, <1>6, <1>7 DEF QuietStep

LEMMA RowsMakeLifeSteps ==
  ASSUME PackagesAreInductive, [Next]_vars, NEW k \in Keys
  PROVE  LifeStep(package[k], package'[k], artifact[k].boundary, artifact'[k].boundary)
<1>1. RowStep(k) /\ IsRow(package[k])
  BY NextMakesRowSteps, TypeFacts DEF PackagesAreInductive
<1>2. CASE IsFinished(k)
  <2>1. /\ package'[k].status = "ready" /\ package'[k].boundary = package[k].boundary
        /\ artifact'[k].boundary = package[k].boundary /\ package[k].status = "building"
    BY <1>1, <1>2 DEF IsFinished, Ready, IsRow, Row
  <2> QED
    BY <2>1 DEF LifeStep
<1> QED
  BY <1>1, <1>2, QuietStepsAreLifeSteps DEF RowStep

\* Whatever clients, replicas, leases and crashes do to its row, a package lives the
\* life of PackageLifecycle: its boundary is fixed, a cancellation that was accepted is
\* final, ready is final, and its archive is built for its boundary.
THEOREM EveryPackageLives ==
  ASSUME NEW k \in Keys PROVE Spec => Life(k)!Spec
<1>1. Init => Life(k)!Init
  BY DEF Init, NoPackage, NoArchive, Life!Init
<1>2. PackagesAreInductive /\ [Next]_vars => [Life(k)!Next]_(Life(k)!lifeVars)
  <2> SUFFICES ASSUME PackagesAreInductive, [Next]_vars
               PROVE  [Life(k)!Next]_(Life(k)!lifeVars)
    OBVIOUS
  <2>1. LifeStep(package[k], package'[k], artifact[k].boundary, artifact'[k].boundary)
    BY RowsMakeLifeSteps
  <2> QED
    BY <2>1
    DEF LifeStep, Life!Next, Life!lifeVars, Life!Create, Life!Move, Life!Start, Life!Finish,
        Life!Fail, Life!Retry, Life!Cancel, Life!RequestCancel
<1> QED
  BY <1>1, <1>2, PackagesInvariant, PTL DEF Spec, Life!Spec

\* An archive that was stored belongs to a package that is ready: build_once stores it
\* in the transaction that records the package as ready, and ready is final.
THEOREM ArchivesAreReady ==
  ASSUME NEW k \in Keys PROVE Spec => []Life(k)!OnlyReadyHasArchive
<1> DEFINE Inv == /\ Life(k)!OnlyReadyHasArchive
                  /\ package[k].status # "absent" => package[k].boundary # 0
<1>1. Life(k)!Init => Inv
  BY DEF Life!Init, Life!OnlyReadyHasArchive
<1>2. Inv /\ [Life(k)!Next]_(Life(k)!lifeVars) => Inv'
  BY DEF Life!OnlyReadyHasArchive, Life!Next, Life!lifeVars, Life!Create, Life!Move, Life!Start,
         Life!Finish, Life!Fail, Life!Retry, Life!Cancel, Life!RequestCancel
<1>3. Spec => Life(k)!Spec
  BY EveryPackageLives
<1> QED
  BY <1>1, <1>2, <1>3, PTL DEF Life!Spec

-----------------------------------------------------------------------------
(***************************************************************************)
(* No package is built twice at once, while no build outlives its lease.   *)
(***************************************************************************)

LeasesHold == \A w \in Workers : ClaimIsLeased(w)

\* A row that a replica builds: it is leased, and the lease is not over for anyone.
LEMMA LeaseIsRunning ==
  ASSUME PackagesAreInductive, LeasesHold, MaxAge <= Lease, NEW w \in Workers, Builds(w)
  PROVE  /\ held[w].key \in Keys /\ Holding(w).owner = w /\ w # NoWorker
         /\ Holding(w).lease = Lease - age[w]
         /\ Holding(w).status \in {"building", "cancelling"}
         /\ age[w] \in Nat /\ Lease - age[w] \in Nat
         /\ \A v \in Workers : ~ LeaseIsOver(Holding(w), v)
<1>1. TypeOK /\ held[w].key \in Keys /\ w # NoWorker
  BY TypeFacts, PackagesAssumption DEF PackagesAreInductive
<1>2. Holding(w).owner = w /\ Holding(w).lease = Lease - age[w]
  BY DEF LeasesHold, ClaimIsLeased
<1>3. \A v \in Workers : age[v] \in 0 .. MaxAge
  BY <1>1 DEF TypeOK
<1>4. Holding(w).status \in {"building", "cancelling"}
  BY <1>1, <1>2 DEF PackagesAreInductive, RowIsExact, Holding
<1>5. age[w] \in Nat /\ Lease - age[w] \in Nat
  BY <1>3, PackagesAssumption
<1>6. ASSUME NEW v \in Workers PROVE ~ LeaseIsOver(Holding(w), v)
  <2>1. age[v] \in Nat
    BY <1>3, PackagesAssumption
  <2> QED
    BY <1>2, <1>5, <2>1 DEF LeaseIsOver
<1> QED
  BY <1>1, <1>2, <1>4, <1>5, <1>6

\* While a replica builds, only a cancellation and time change its row.
LEMMA LeasedRowIsLeftAlone ==
  ASSUME PackagesAreInductive, LeasesHold, MaxAge <= Lease, [Next]_vars,
         NEW w \in Workers, Builds(w), Builds(w)', held'[w] = held[w], ~ Tick
  PROVE  /\ package'[held[w].key].owner = w /\ age'[w] = age[w]
         /\ package'[held[w].key].lease = package[held[w].key].lease
<1> DEFINE k == held[w].key
<1>1. /\ TypeOK /\ k \in Keys /\ package[k].owner = w /\ w # NoWorker
      /\ package[k].status \in {"building", "cancelling"}
      /\ \A v \in Workers : ~ LeaseIsOver(package[k], v)
  BY LeaseIsRunning DEF PackagesAreInductive, Holding
<1>2. ASSUME NEW c \in Clients, Client(c)
      PROVE  package'[k] = package[k] /\ age' = age
  <2>1. CASE Insert(c)
    BY <1>1, <2>1, TypeFacts DEF Insert, KeyIsFree, Exists, workerVars
  <2> QED
    BY <1>2, <2>1
    DEF Client, ClientRuns, Create, CheckKey, Resolve, SettleFromRow, ClientFault, workerVars
<1>3. ASSUME NEW j \in Keys, CancelPackage(j) \/ RequestRetry(j)
      PROVE  /\ age' = age /\ package'[k].owner = package[k].owner
             /\ package'[k].lease = package[k].lease
  <2>1. age' = age
    BY <1>3 DEF CancelPackage, RequestRetry, workerVars
  <2>2. \/ package'[k] = package[k]
        \/ package'[k] = CancelRequested(package[k])
    BY <1>1, <1>3, TypeFacts DEF CancelPackage, RequestRetry
  <2>3. /\ CancelRequested(package[k]).owner = package[k].owner
        /\ CancelRequested(package[k]).lease = package[k].lease
    BY <1>1, TypeFacts DEF CancelRequested, Row
  <2> QED
    BY <2>1, <2>2, <2>3
<1>4. ASSUME NEW v \in Workers, Worker(v)
      PROVE  package'[k] = package[k] /\ age'[w] = age[w]
  <2>1. CASE SettleStaleCancelling(v)
    <3>1. v # w /\ k \notin Stale(v)
      BY <1>1, <2>1 DEF SettleStaleCancelling, Builds, Stale
    <3> QED
      BY <1>1, <2>1, <3>1 DEF SettleStaleCancelling, TypeOK
  <2>2. CASE ClaimPackage(v)
    <3>1. v # w /\ k \notin Eligible(v)
      BY <1>1, <2>2 DEF ClaimPackage, Builds, Eligible
    <3> QED
      BY <1>1, <2>2, <3>1, TypeFacts DEF ClaimPackage, TypeOK
  <2>3. CASE WriteArchive(v) \/ FinishCancelled(v) \/ FailOrCancel(v)
    <3>1. v # w
      BY <1>1, <2>3 DEF TypeOK, Builds, WriteArchive, FinishCancelled, FailOrCancel,
                        ConfirmCancel, Return, Goto
    <3>2. Builds(v)
      BY <2>3 DEF Builds, WriteArchive, FinishCancelled, FailOrCancel
    <3>3. held[v].key # k
      BY <1>1, <3>1, <3>2, LeaseIsRunning DEF Holding
    <3>4. package'[k] = package[k]
      <4>1. \/ UNCHANGED package
            \/ \E row : package' = [package EXCEPT ![held[v].key] = row]
        <5>1. TypeOK
          BY <1>1
        <5> QED
          BY <2>3, <5>1, EndOfBuild, Zenon
      <4>2. package \in [Keys -> Row] /\ k \in Keys
        BY <1>1, TypeFacts
      <4> QED
        BY <3>3, <4>1, <4>2
    <3>5. age'[w] = age[w]
      BY <1>1, <2>3, <3>1 DEF TypeOK, WriteArchive, FinishCancelled, FailOrCancel,
                              ConfirmCancel, Return
    <3> QED
      BY <3>4, <3>5
  <2>4. CASE Poll(v) \/ WorkerFault(v)
    <3>1. v # w
      BY <1>1, <2>4 DEF TypeOK, Builds, Poll, WorkerFault, Goto
    <3> QED
      BY <1>1, <2>4, <3>1 DEF TypeOK, Poll, WorkerFault
  <2>5. CASE ObserveCancel(v) \/ Render(v) \/ MeetDefect(v)
    BY <2>5 DEF ObserveCancel, Render, MeetDefect
  <2> QED
    BY <1>4, <2>1, <2>2, <2>3, <2>4, <2>5 DEF Worker, WorkerRuns
<1> QED
  BY <1>1, <1>2, <1>3, <1>4 DEF Next, vars, SealCheckpoint, workerVars

LEMMA LeasesStay ==
  ASSUME PackagesAreInductive, LeasesHold, MaxAge <= Lease, [Next]_vars
  PROVE  LeasesHold'
<1> SUFFICES ASSUME NEW w \in Workers, Builds(w)'
             PROVE  /\ package'[held'[w].key].owner = w
                    /\ package'[held'[w].key].lease = Lease - age'[w]
  BY DEF LeasesHold, ClaimIsLeased, Holding
<1>1. TypeOK
  BY DEF PackagesAreInductive
<1>2. CASE \E k \in Eligible(w) : Claims(w, k)
  <2>1. PICK k \in Keys : Claims(w, k)
    BY <1>2 DEF Claims
  <2>2. package'[k] = Claimed(package[k], w, Lease - age[w])
    BY <1>1, <2>1, TypeFacts DEF Claims
  <2>3. package'[k].owner = w /\ package'[k].lease = Lease - age[w]
    BY <1>1, <2>2, TypeFacts DEF Claimed, Row
  <2> QED
    BY <2>1, <2>3 DEF Claims
<1>3. CASE Builds(w) /\ held'[w] = held[w]
  <2> DEFINE k == held[w].key
  <2>1. /\ k \in Keys /\ package[k].owner = w /\ package[k].lease = Lease - age[w]
        /\ w # NoWorker /\ age[w] \in Nat /\ Lease - age[w] \in Nat
    BY <1>3, LeaseIsRunning DEF Holding
  <2>2. CASE Tick
    <3>1. package'[k] = Later(package[k]) /\ age'[w] = age[w] + 1
      BY <1>3, <2>1, <2>2 DEF Tick, Builds
    <3>2. package[k].lease > LongOver
      BY <2>1, PackagesAssumption DEF LongOver
    <3>3. Later(package[k]).owner = w /\ Later(package[k]).lease = package[k].lease - 1
      BY <1>1, <2>1, <3>2, TypeFacts DEF Later, Row
    <3> QED
      BY <1>3, <2>1, <3>1, <3>3, PackagesAssumption
  <2>3. CASE ~ Tick
    BY <1>3, <2>1, <2>3, LeasedRowIsLeftAlone
  <2> QED
    BY <2>2, <2>3
<1> QED
  BY <1>1, <1>2, <1>3, BuildersHaveClaimed

\* README.md:254-256, replicas "never build the same package": a replica that builds
\* has the lease as long as a build takes no longer than the lease lasts, because
\* claim_package and settle_stale_cancelling pass over a lease that is not over.
THEOREM NoBuildIsRepeated ==
  ASSUME MaxAge <= Lease PROVE Spec => []NeverBuiltByTwo
<1>1. Init => LeasesHold
  BY DEF Init, LeasesHold, ClaimIsLeased, Builds
<1>2. PackagesAreInductive /\ LeasesHold /\ [Next]_vars => LeasesHold'
  BY LeasesStay
<1>3. LeasesHold => NeverBuiltByTwo
  BY DEF LeasesHold, ClaimIsLeased, NeverBuiltByTwo, Holding
<1> QED
  BY <1>1, <1>2, <1>3, PackagesInvariant, PTL DEF Spec

=============================================================================
