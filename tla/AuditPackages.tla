---------------------------- MODULE AuditPackages ----------------------------
(***************************************************************************)
(* Offline audit packages: AuditPackageService called by API requests that *)
(* create, cancel and retry packages, and by replicas of the exporter that *)
(* claim a package under a lease, build its archive and write the result.  *)
(*                                                                         *)
(* Every transaction that changes a package row holds that row FOR UPDATE  *)
(* until it commits, so it is one step here, placed at its commit; a claim *)
(* that skips a locked row is one that runs after the holder's commit.     *)
(* What a process does between two transactions is not atomic with either. *)
(*                                                                         *)
(* Time is relative: a lease is the time it has left, a clock reading is   *)
(* known by its age.  The exporters' clocks are taken to agree.            *)
(***************************************************************************)
EXTENDS Integers, FiniteSets

CONSTANTS
  Keys,           \* idempotency keys; a package is known by its key
  Instruments,    \* instruments
  FirstEvent,     \* FirstEvent[i]: the first checkpoint that covers an event of i
  Clients,        \* concurrent create requests
  Requests,       \* the create requests clients may make
  Workers,        \* exporter replicas
  NoWorker,       \* lease_owner NULL
  Readable,       \* Readable[w]: the checkpoints worker w has the keys to read
  Lease,          \* export_lease_seconds
  MaxAge,         \* bound: time a replica takes from a clock reading to its last use
  MaxCheckpoints, \* bound: checkpoints sealed in a behaviour
  MaxCalls,       \* bound: create, cancel and retry calls in a behaviour
  MaxAttempts,    \* bound: claims of one package
  MaxFaults       \* bound: crashes, lost connections and lost answers

Anything == 0     \* a create request without a checkpoint_id

Request == [key : Keys, instrument : Instruments, checkpoint : Nat]

ASSUME PackagesAssumption ==
  /\ Keys # {} /\ Instruments # {}
  /\ Requests \subseteq Request
  /\ FirstEvent \in [Instruments -> Nat \ {0}]
  /\ Readable \in [Workers -> SUBSET Nat]
  /\ NoWorker \notin Workers
  /\ Lease \in Nat \ {0}
  /\ MaxAge \in Nat
  /\ MaxCheckpoints \in Nat
  /\ MaxCalls \in Nat
  /\ MaxAttempts \in Nat
  /\ MaxFaults \in Nat

VARIABLES
  package,    \* package[k]: row of audit_packages with key k
  artifact,   \* artifact[k]: what the archive stored for k was built from
  sealed,     \* number of checkpoints in the chain
  cpc,        \* cpc[c]: next statement of client c
  request,    \* request[c]: parameters and local variables of client c
  reply,      \* reply[c]: what client c was answered
  wpc,        \* wpc[w]: next statement of worker w
  held,       \* held[w]: `claimed`, the row as w claimed it
  age,        \* age[w]: age of the clock reading of w
  result,     \* result[w]: what the last build of w did to the row
  confirmed,  \* confirmed[k]: workers that logged audit_package_cancel_confirmed
  calls,      \* calls so far
  faults      \* faults so far

clientVars == <<cpc, request, reply>>
workerVars == <<wpc, held, age, result, confirmed>>
vars == <<package, artifact, sealed, cpc, request, reply, wpc, held, age, result,
          confirmed, calls, faults>>

NoArchive == [instrument |-> "none", boundary |-> 0]

\* The nullable columns a row has a value for.
Marks == {"ready_at", "failed_at", "failure", "cancel_requested_at", "cancelled_at", "artifact"}

NoPackage ==
  [status |-> "absent", instrument |-> "none", boundary |-> 0,
   owner |-> NoWorker, lease |-> 0, attempt |-> 0, marks |-> {}]

Exists(k) == package[k].status # "absent"

-----------------------------------------------------------------------------
(***************************************************************************)
(* Creation: create_package.                                               *)
(***************************************************************************)

Call == calls < MaxCalls /\ calls' = calls + 1

Answer(c, status, created) ==
  /\ cpc' = [cpc EXCEPT ![c] = "idle"]
  /\ reply' = [reply EXCEPT ![c] = [status |-> status, created |-> created]]

Create(c) ==
  /\ cpc[c] = "idle"
  /\ Call
  /\ \E r \in Requests :
       request' = [request EXCEPT
                     ![c] = [key |-> r.key, instrument |-> r.instrument,
                             checkpoint |-> r.checkpoint, boundary |-> 0]]
  /\ cpc' = [cpc EXCEPT ![c] = "check"]
  /\ UNCHANGED <<package, artifact, sealed, reply, workerVars, faults>>

\* Mutant: any request with the key is a replay.
IsReplay_KeyOnly(p, r) == TRUE

\* _raise_unless_replay: a request without a checkpoint replays any boundary.
IsReplay(p, r) ==
  /\ p.instrument = r.instrument
  /\ r.checkpoint \in {Anything, p.boundary}

AnswerFromRow(c) ==
  IF IsReplay(package[request[c].key], request[c])
    THEN Answer(c, "ok", FALSE)
    ELSE Answer(c, "IDEMPOTENCY_CONFLICT", FALSE)

CheckKey(c) ==
  /\ cpc[c] = "check"
  /\ \/ Exists(request[c].key) /\ AnswerFromRow(c)
     \/ /\ ~ Exists(request[c].key)
        /\ cpc' = [cpc EXCEPT ![c] = "resolve"]
        /\ UNCHANGED reply
  /\ UNCHANGED <<package, artifact, sealed, request, workerVars, calls, faults>>

\* _resolve_boundary and _boundary_event_count: the checkpoint that will stay
\* the package's boundary, if it covers an event of the instrument.
Resolve(c) ==
  /\ cpc[c] = "resolve"
  /\ LET r == request[c]
         explicit == r.checkpoint # Anything
         boundary == IF explicit THEN r.checkpoint ELSE sealed
         covers == FirstEvent[r.instrument] <= boundary
     IN  \/ explicit /\ boundary > sealed /\ Answer(c, "NOT_FOUND", FALSE) /\ UNCHANGED request
         \/ /\ ~ explicit /\ sealed = 0
            /\ Answer(c, "NO_SEALED_CHECKPOINT", FALSE) /\ UNCHANGED request
         \/ /\ boundary \in 1 .. sealed /\ ~ covers
            /\ Answer(c, IF explicit THEN "CHECKPOINT_DOES_NOT_COVER_INSTRUMENT"
                         ELSE "INSTRUMENT_HAS_NO_SEALED_EVENTS", FALSE)
            /\ UNCHANGED request
         \/ /\ boundary \in 1 .. sealed /\ covers
            /\ request' = [request EXCEPT ![c].boundary = boundary]
            /\ cpc' = [cpc EXCEPT ![c] = "insert"]
            /\ UNCHANGED reply
  /\ UNCHANGED <<package, artifact, sealed, workerVars, calls, faults>>

\* The unique index on idempotency_key.
KeyIsFree(k) == ~ Exists(k)

Insert(c) ==
  /\ cpc[c] = "insert"
  /\ LET k == request[c].key
     IN  \/ /\ KeyIsFree(k)
            /\ package' = [package EXCEPT
                             ![k] = [NoPackage EXCEPT
                                       !.status = "pending",
                                       !.instrument = request[c].instrument,
                                       !.boundary = request[c].boundary]]
            /\ Answer(c, "ok", TRUE)
         \/ /\ ~ KeyIsFree(k)
            /\ cpc' = [cpc EXCEPT ![c] = "settle"]
            /\ UNCHANGED <<package, reply>>
  /\ UNCHANGED <<artifact, sealed, request, workerVars, calls, faults>>

\* After the IntegrityError: the winner's row decides.
SettleFromRow(c) ==
  /\ cpc[c] = "settle"
  /\ IF Exists(request[c].key) THEN AnswerFromRow(c)
     ELSE Answer(c, "INTEGRITY_ERROR", FALSE)
  /\ UNCHANGED <<package, artifact, sealed, request, workerVars, calls, faults>>

\* The API process or its connection dies before the commit.  A client that loses
\* the answer to a committed call may repeat it, like any other request.
ClientFault(c) ==
  /\ cpc[c] # "idle"
  /\ faults < MaxFaults
  /\ faults' = faults + 1
  /\ Answer(c, "lost", FALSE)
  /\ UNCHANGED <<package, artifact, sealed, request, workerVars, calls>>

-----------------------------------------------------------------------------
(***************************************************************************)
(* Changes of a package row, shared by the API and the exporter.           *)
(***************************************************************************)

\* Mutant: the end of the lease is not cleared.
Cancelled_KeepsExpiry(p) ==
  [p EXCEPT !.status = "cancelled", !.owner = NoWorker, !.marks = @ \cup {"cancelled_at"}]

\* _apply_cancelled
Cancelled(p) ==
  [p EXCEPT !.status = "cancelled", !.owner = NoWorker, !.lease = 0,
            !.marks = @ \cup {"cancelled_at"}]

\* Mutant: the columns of the failure survive the retry.
Requeued_KeepsFailure(p) ==
  [p EXCEPT !.status = "pending", !.owner = NoWorker, !.lease = 0,
            !.marks = @ \ {"cancel_requested_at", "cancelled_at"}]

\* request_retry
Requeued(p) ==
  [p EXCEPT !.status = "pending", !.owner = NoWorker, !.lease = 0,
            !.marks = @ \ {"failure", "failed_at", "cancel_requested_at", "cancelled_at"}]

Claimed(p, w, left) ==
  [p EXCEPT !.status = "building", !.owner = w, !.lease = left, !.attempt = @ + 1]

Ready(p) ==
  [p EXCEPT !.status = "ready", !.owner = NoWorker, !.lease = 0,
            !.marks = @ \cup {"ready_at", "artifact"}]

Failed(p) ==
  [p EXCEPT !.status = "failed", !.owner = NoWorker, !.lease = 0,
            !.marks = @ \cup {"failed_at", "failure"}]

\* cancel_package: a package nobody builds is cancelled at once.
CancelRequested(p) ==
  IF p.status = "pending"
    THEN [p EXCEPT !.status = "cancelled",
                   !.marks = @ \cup {"cancel_requested_at", "cancelled_at"}]
    ELSE [p EXCEPT !.status = "cancelling", !.marks = @ \cup {"cancel_requested_at"}]

\* Repeated and refused cancellations change nothing.
CancelPackage(k) ==
  /\ package[k].status \in {"pending", "building"}
  /\ Call
  /\ package' = [package EXCEPT ![k] = CancelRequested(@)]
  /\ UNCHANGED <<artifact, sealed, clientVars, workerVars, faults>>

RequestRetry(k) ==
  /\ package[k].status = "failed"
  /\ Call
  /\ package' = [package EXCEPT ![k] = Requeued(@)]
  /\ UNCHANGED <<artifact, sealed, clientVars, workerVars, faults>>

-----------------------------------------------------------------------------
(***************************************************************************)
(* The exporter loop: settle_stale_cancelling, claim_package, build_once.  *)
(***************************************************************************)

NothingHeld == [key |-> CHOOSE k \in Keys : TRUE, instrument |-> "none", boundary |-> 0]

\* Mutant: a lease is over at its very end.
LeaseIsOver_AtItsEnd(p, w) == p.lease <= - age[w]

\* lease_expires_at < moment, for the moment w read.
LeaseIsOver(p, w) == p.lease < - age[w]

Goto(w, label) == wpc' = [wpc EXCEPT ![w] = label]

\* The next iteration starts: `moment` of settle_stale_cancelling is read.
Poll(w) ==
  /\ wpc[w] = "idle"
  /\ Goto(w, "settle")
  /\ age' = [age EXCEPT ![w] = 0]
  /\ UNCHANGED <<package, artifact, sealed, clientVars, held, result, confirmed, calls, faults>>

Stale(w) == {k \in Keys : package[k].status = "cancelling" /\ LeaseIsOver(package[k], w)}

\* Every stale cancellation is confirmed; then `moment` of claim_package is read.
SettleStaleCancelling(w) ==
  /\ wpc[w] = "settle"
  /\ package' = [k \in Keys |-> IF k \in Stale(w) THEN Cancelled(package[k]) ELSE package[k]]
  /\ confirmed' = [k \in Keys |-> IF k \in Stale(w) THEN confirmed[k] \cup {w} ELSE confirmed[k]]
  /\ Goto(w, "claim")
  /\ age' = [age EXCEPT ![w] = 0]
  /\ UNCHANGED <<artifact, sealed, clientVars, held, result, calls, faults>>

\* Mutant: a package that was being built when its lease ended is lost.
Eligible_PendingOnly(w) ==
  {k \in Keys : package[k].status = "pending" /\ package[k].attempt < MaxAttempts}

\* Mutant: a cancelling package whose lease is over is built again.
Eligible_Cancelling(w) ==
  {k \in Keys :
     /\ \/ package[k].status = "pending"
        \/ package[k].status \in {"building", "cancelling"} /\ LeaseIsOver(package[k], w)
     /\ package[k].attempt < MaxAttempts}

Eligible(w) ==
  {k \in Keys :
     /\ \/ package[k].status = "pending"
        \/ package[k].status = "building" /\ LeaseIsOver(package[k], w)
     /\ package[k].attempt < MaxAttempts}

\* ORDER BY id LIMIT 1, SKIP LOCKED: a package with a lower id is passed over while
\* a request that is then refused holds its row, so any eligible one may come
\* first.  The lease runs from the moment that was read before.
ClaimPackage(w) ==
  /\ wpc[w] = "claim"
  /\ \/ /\ Eligible(w) = {}
        /\ Goto(w, "idle")
        /\ age' = [age EXCEPT ![w] = 0]
        /\ UNCHANGED <<package, held>>
     \/ \E k \in Eligible(w) :
          /\ package' = [package EXCEPT ![k] = Claimed(@, w, Lease - age[w])]
          /\ held' = [held EXCEPT ![w] = [key |-> k, instrument |-> package[k].instrument,
                                          boundary |-> package[k].boundary]]
          /\ Goto(w, "build")
          /\ UNCHANGED age
  /\ UNCHANGED <<artifact, sealed, clientVars, result, confirmed, calls, faults>>

Holding(w) == package[held[w].key]

\* One of the checks between the receipts sees a cancellation.
ObserveCancel(w) ==
  /\ wpc[w] = "build"
  /\ Holding(w).status = "cancelling"
  /\ Goto(w, "confirm")
  /\ UNCHANGED <<package, artifact, sealed, clientVars, held, age, result, confirmed,
                 calls, faults>>

\* The receipts are complete, the last check sees no cancellation, and the
\* archive is rendered.
Render(w) ==
  /\ wpc[w] = "build"
  /\ held[w].boundary \in Readable[w]
  /\ Holding(w).status # "cancelling"
  /\ Goto(w, "write")
  /\ UNCHANGED <<package, artifact, sealed, clientVars, held, age, result, confirmed,
                 calls, faults>>

\* The receipts or the archive cannot be built, for want of a signing key or for any
\* other defect (AUDIT_EXPORT_FAILED); no check for a cancellation comes before.
MeetDefect(w) ==
  /\ wpc[w] = "build"
  /\ Goto(w, "fail")
  /\ UNCHANGED <<package, artifact, sealed, clientVars, held, age, result, confirmed,
                 calls, faults>>

\* The end of build_once: what it returns, what it did, and what run logs.
Return(w, said, did) ==
  /\ Goto(w, "idle")
  /\ age' = [age EXCEPT ![w] = 0]
  /\ held' = [held EXCEPT ![w] = NothingHeld]
  /\ result' = [result EXCEPT ![w] = did]
  /\ confirmed' = IF said = "cancelled"
                    THEN [confirmed EXCEPT ![held[w].key] = @ \cup {w}]
                    ELSE confirmed

\* Mutant: the write transaction does not look who holds the lease.
MayFinish_AnyOwner(w) == Holding(w).status = "building"

MayFinish(w) == Holding(w).status = "building" /\ Holding(w).owner = w

ConfirmCancel(w) ==
  /\ package' = [package EXCEPT ![held[w].key] = Cancelled(@)]
  /\ Return(w, "cancelled", "cancelled")

\* The write transaction: a cancellation wins, whoever's lease it is.
WriteArchive(w) ==
  /\ wpc[w] = "write"
  /\ \/ /\ Holding(w).status = "cancelling"
        /\ ConfirmCancel(w)
        /\ UNCHANGED artifact
     \/ /\ MayFinish(w)
        /\ package' = [package EXCEPT ![held[w].key] = Ready(@)]
        /\ artifact' = [artifact EXCEPT ![held[w].key] =
                          [instrument |-> held[w].instrument, boundary |-> held[w].boundary]]
        /\ Return(w, "ready", "ready")
     \/ /\ Holding(w).status # "cancelling" /\ ~ MayFinish(w)
        /\ Return(w, IF Holding(w).status = "cancelled" THEN "superseded" ELSE Holding(w).status,
                  "nothing")
        /\ UNCHANGED <<package, artifact>>
  /\ UNCHANGED <<sealed, clientVars, calls, faults>>

\* _finish_cancelled: only the owner of the lease confirms.
FinishCancelled(w) ==
  /\ wpc[w] = "confirm"
  /\ LET mine == Holding(w).status = "cancelling" /\ Holding(w).owner = w
     IN  \/ mine /\ ConfirmCancel(w)
         \/ /\ ~ mine
            /\ Return(w, IF Holding(w).status = "cancelled" THEN "superseded"
                         ELSE Holding(w).status, "nothing")
            /\ UNCHANGED package
  /\ UNCHANGED <<artifact, sealed, clientVars, calls, faults>>

\* _fail_or_cancel: here too a cancellation wins.
FailOrCancel(w) ==
  /\ wpc[w] = "fail"
  /\ \/ Holding(w).status = "cancelling" /\ ConfirmCancel(w)
     \/ /\ MayFinish(w)
        /\ package' = [package EXCEPT ![held[w].key] = Failed(@)]
        /\ Return(w, "failed", "failed")
     \/ /\ Holding(w).status # "cancelling" /\ ~ MayFinish(w)
        /\ Return(w, Holding(w).status, "nothing")
        /\ UNCHANGED package
  /\ UNCHANGED <<artifact, sealed, clientVars, calls, faults>>

\* The replica dies and is restarted, or the database fails under it: what it
\* held is forgotten, what it committed stays.
WorkerFault(w) ==
  /\ wpc[w] # "idle"
  /\ faults < MaxFaults
  /\ faults' = faults + 1
  /\ Goto(w, "idle")
  /\ age' = [age EXCEPT ![w] = 0]
  /\ held' = [held EXCEPT ![w] = NothingHeld]
  /\ UNCHANGED <<package, artifact, sealed, clientVars, result, confirmed, calls>>

-----------------------------------------------------------------------------
(***************************************************************************)
(* The environment: sealers and time.                                      *)
(***************************************************************************)

\* A sealer commits the next checkpoint of the chain.
SealCheckpoint ==
  /\ sealed < MaxCheckpoints
  /\ sealed' = sealed + 1
  /\ UNCHANGED <<package, artifact, clientVars, workerVars, calls, faults>>

\* Below this a lease is over for every clock reading still in use.
LongOver == - (MaxAge + 1)

Later(p) ==
  [p EXCEPT !.lease = IF p.owner = NoWorker THEN 0
                      ELSE IF p.lease > LongOver THEN p.lease - 1 ELSE LongOver]

Tick ==
  /\ \A w \in Workers : wpc[w] # "idle" => age[w] < MaxAge
  /\ age' = [w \in Workers |-> IF wpc[w] = "idle" THEN 0 ELSE age[w] + 1]
  /\ package' = [k \in Keys |-> Later(package[k])]
  /\ UNCHANGED <<artifact, sealed, clientVars, wpc, held, result, confirmed, calls, faults>>

-----------------------------------------------------------------------------
Init ==
  /\ package = [k \in Keys |-> NoPackage]
  /\ artifact = [k \in Keys |-> NoArchive]
  /\ sealed = 0
  /\ cpc = [c \in Clients |-> "idle"]
  /\ request = [c \in Clients |-> [key |-> CHOOSE k \in Keys : TRUE,
                                   instrument |-> CHOOSE i \in Instruments : TRUE,
                                   checkpoint |-> Anything, boundary |-> 0]]
  /\ reply = [c \in Clients |-> [status |-> "none", created |-> FALSE]]
  /\ wpc = [w \in Workers |-> "idle"]
  /\ held = [w \in Workers |-> NothingHeld]
  /\ age = [w \in Workers |-> 0]
  /\ result = [w \in Workers |-> "nothing"]
  /\ confirmed = [k \in Keys |-> {}]
  /\ calls = 0
  /\ faults = 0

ClientRuns(c) == CheckKey(c) \/ Resolve(c) \/ Insert(c) \/ SettleFromRow(c)

Client(c) == Create(c) \/ ClientRuns(c) \/ ClientFault(c)

WorkerRuns(w) ==
  \/ Poll(w) \/ SettleStaleCancelling(w) \/ ClaimPackage(w)
  \/ ObserveCancel(w) \/ Render(w) \/ MeetDefect(w)
  \/ WriteArchive(w) \/ FinishCancelled(w) \/ FailOrCancel(w)

Worker(w) == WorkerRuns(w) \/ WorkerFault(w)

Next ==
  \/ \E c \in Clients : Client(c)
  \/ \E k \in Keys : CancelPackage(k) \/ RequestRetry(k)
  \/ \E w \in Workers : Worker(w)
  \/ SealCheckpoint
  \/ Tick

Spec == Init /\ [][Next]_vars

(***************************************************************************)
(* The loop of run polls for ever and a request that runs is answered.     *)
(* Time passes.  Nothing obliges clients, sealers or faults.               *)
(***************************************************************************)
Fairness ==
  /\ \A c \in Clients : WF_vars(ClientRuns(c))
  /\ \A w \in Workers : WF_vars(WorkerRuns(w))
  /\ WF_vars(Tick)

FairSpec == Spec /\ Fairness

-----------------------------------------------------------------------------
(***************************************************************************)
(* Properties.                                                             *)
(***************************************************************************)

Statuses == {"absent", "pending", "building", "ready", "failed", "cancelling", "cancelled"}

\* Every column and local variable keeps its domain; owner and end of a lease
\* are set and cleared together.
TypeOK ==
  /\ package \in
       [Keys -> [status : Statuses, instrument : Instruments \cup {"none"},
                 boundary : Nat, owner : Workers \cup {NoWorker}, lease : LongOver .. Lease,
                 attempt : 0 .. MaxAttempts, marks : SUBSET Marks]]
  /\ \A k \in Keys : package[k].owner = NoWorker => package[k].lease = 0
  /\ artifact \in [Keys -> [instrument : Instruments \cup {"none"}, boundary : Nat]]
  /\ sealed \in 0 .. MaxCheckpoints
  /\ cpc \in [Clients -> {"idle", "check", "resolve", "insert", "settle"}]
  /\ request \in [Clients -> [key : Keys, instrument : Instruments, checkpoint : Nat,
                              boundary : Nat]]
  /\ reply \in
       [Clients -> [status : {"none", "ok", "lost", "NOT_FOUND", "NO_SEALED_CHECKPOINT",
                              "CHECKPOINT_DOES_NOT_COVER_INSTRUMENT",
                              "INSTRUMENT_HAS_NO_SEALED_EVENTS",
                              "IDEMPOTENCY_CONFLICT", "INTEGRITY_ERROR"},
                    created : BOOLEAN]]
  /\ wpc \in [Workers -> {"idle", "settle", "claim", "build", "write", "confirm", "fail"}]
  /\ held \in [Workers -> [key : Keys, instrument : Instruments \cup {"none"}, boundary : Nat]]
  /\ age \in [Workers -> 0 .. MaxAge]
  /\ result \in [Workers -> {"nothing", "ready", "failed", "cancelled"}]
  /\ confirmed \in [Keys -> SUBSET Workers]
  /\ calls \in 0 .. MaxCalls
  /\ faults \in 0 .. MaxFaults

\* audit_package_state_shape (models.py:98-123)
HasShape(p) ==
  LET Has(m) == m \subseteq p.marks
      Lacks(m) == m \cap p.marks = {}
      leased == p.owner # NoWorker
  IN  CASE p.status = "ready" ->
             /\ Has({"ready_at", "artifact"}) /\ ~ leased
             /\ Lacks({"failure", "cancel_requested_at", "cancelled_at"})
        [] p.status = "failed" -> Has({"failed_at", "failure"})
        [] p.status = "pending" -> ~ leased /\ Lacks({"ready_at", "failed_at", "failure"})
        [] p.status = "building" ->
             leased /\ Lacks({"ready_at", "failed_at", "failure", "cancel_requested_at",
                              "cancelled_at"})
        [] p.status = "cancelling" ->
             /\ leased /\ Has({"cancel_requested_at"})
             /\ Lacks({"ready_at", "failed_at", "failure", "cancelled_at"})
        [] p.status = "cancelled" ->
             /\ ~ leased /\ Has({"cancel_requested_at", "cancelled_at"})
             /\ Lacks({"ready_at", "failed_at", "failure", "artifact"})
        [] p.status = "absent" -> TRUE

\* No history of failures, retries, cancellations and lost leases makes an
\* update trip the CHECK constraint on the columns of a status.
RowsKeepTheirShape == \A k \in Keys : HasShape(package[k])

\* A creation that was accepted, by whichever of two racing requests, names a
\* package of its instrument and of a boundary that covers it; one request only
\* is told it created the package, and a conflict is justified by the row.
CreationsAgree ==
  \A c \in Clients : cpc[c] = "idle" =>
    LET p == package[request[c].key]
        mine == IsReplay(p, request[c])
    IN  /\ reply[c].status = "ok" =>
             /\ Exists(request[c].key) /\ p.instrument = request[c].instrument
             /\ request[c].checkpoint \in {Anything, p.boundary}
             /\ FirstEvent[p.instrument] <= p.boundary /\ p.boundary <= sealed
        /\ reply[c].created =>
             /\ reply[c].status = "ok"
             /\ \A d \in Clients \ {c} :
                  cpc[d] = "idle" /\ request[d].key = request[c].key => ~ reply[d].created
        /\ reply[c].status = "IDEMPOTENCY_CONFLICT" =>
             /\ Exists(request[c].key)
             /\ p.instrument = request[c].instrument =>
                  request[c].checkpoint \notin {Anything, p.boundary}
        /\ reply[c].status # "INTEGRITY_ERROR"

\* What CreationsAgree rests on: the boundary that was resolved still covers the
\* instrument when it is inserted, and the winner of a lost race has a row.
RequestIsResolved(c) ==
  LET r == request[c]
  IN  /\ cpc[c] = "insert" =>
           /\ FirstEvent[r.instrument] <= r.boundary /\ r.boundary <= sealed
           /\ r.checkpoint \in {Anything, r.boundary}
      /\ cpc[c] = "settle" => Exists(r.key)

\* The columns that have a value are those of the status, whatever came before, and
\* the row of a package names an instrument that its boundary covers.
MarksOf ==
  [absent |-> {}, pending |-> {}, building |-> {}, ready |-> {"ready_at", "artifact"},
   failed |-> {"failed_at", "failure"}, cancelling |-> {"cancel_requested_at"},
   cancelled |-> {"cancel_requested_at", "cancelled_at"}]

RowIsExact(k) ==
  LET p == package[k]
  IN  /\ p.marks = MarksOf[p.status]
      /\ p.owner = NoWorker <=> p.status \notin {"building", "cancelling"}
      /\ Exists(k) => /\ p.instrument \in Instruments
                      /\ FirstEvent[p.instrument] <= p.boundary /\ p.boundary <= sealed

\* The instrument and the boundary of a package are fixed, so what a replica has
\* claimed is still what the row asks for, also when it has lost its lease.
Builds(w) == wpc[w] \in {"build", "write", "confirm", "fail"}

ClaimIsCurrent(w) ==
  Builds(w) => /\ Exists(held[w].key)
               /\ held[w].instrument = Holding(w).instrument
               /\ held[w].boundary = Holding(w).boundary

\* A replica that builds owns the row, and has the rest of its lease.
ClaimIsLeased(w) ==
  Builds(w) => Holding(w).owner = w /\ Holding(w).lease = Lease - age[w]

\* The facts that keep packages safe hold together in every step, whatever replicas,
\* requests and crashes do to a row (claim_package, build_once, cancel_package,
\* request_retry, create_package): a row has exactly the columns of its status, a
\* claim names what its row asks for, and creations agree.
PackagesAreInductive ==
  /\ TypeOK
  /\ \A k \in Keys : RowIsExact(k)
  /\ \A w \in Workers : ClaimIsCurrent(w)
  /\ \A c \in Clients : RequestIsResolved(c)
  /\ CreationsAgree

\* The requester's view of the package with key k.
Life(k) ==
  INSTANCE PackageLifecycle WITH
    status <- package[k].status,
    boundary <- package[k].boundary,
    archive <- artifact[k].boundary

\* A build is recorded as ready or failed by the replica whose lease the row
\* shows, from what it built itself, never by one that lost the package.
OnlyTheOwnerRecords ==
  [][\A k \in Keys :
       package[k].status = "building" /\ package'[k].status \in {"ready", "failed"} =>
         \E w \in Workers :
           /\ package[k].owner = w /\ held[w].key = k
           /\ result'[w] = package'[k].status /\ wpc[w] # wpc'[w]
    ]_vars

\* README.md:254-256: replicas "never build the same package".  It holds while
\* no build outlives its lease.
NeverBuiltByTwo ==
  \A v, w \in Workers :
    Builds(v) /\ Builds(w) /\ held[v].key = held[w].key => v = w

\* exporter.py:89-90: when "another path already settled the task; it owns the
\* single confirmation/failure log": one audit_package_cancel_confirmed a package.
ConfirmedOnce == \A k \in Keys : Cardinality(confirmed[k]) <= 1

\* Every package that was asked for becomes ready, failed or cancelled, also when
\* replicas die holding it.
EveryPackageSettles ==
  \A k \in Keys :
    package[k].status \in {"pending", "building", "cancelling"}
      ~> package[k].status \in {"ready", "failed", "cancelled"}

=============================================================================
