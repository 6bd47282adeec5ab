# A TLA+ verification of the calibration ledger

This directory holds TLA+ models of the tamper-evident calibration ledger in `src/`, the TLC
configurations that check them, and proofs that TLAPS checks. Paths below are relative to
`src/src/ledger/` unless they start with `README.md`, which is the repository's `src/README.md`.

The ledger is a FastAPI service over PostgreSQL. Laboratories submit calibration reports, revisions
and revocations; they become rows of an append-only table. A separate process seals prefixes of the
table under signed Merkle checkpoints. Auditors fetch receipts, follow the checkpoints with a
cursor, and order offline packages that a third process builds.

## 1. Inventory

| Component | State it keeps | Operations | Code |
|---|---|---|---|
| Event submission | `events`: sequence number, business key, parent, record, type, content | `append_report`, `append_report_batch`, `append_revision`, `append_revocation` | `service.py`, `models.py:28-60` |
| Checkpoint sealing | `checkpoints`: last sequence, leaf count, root, predecessor and its root, key version | `seal_once`, run in a loop by each sealer replica | `sealing.py`, `sealer.py` |
| Audit packages | `audit_packages`: status, boundary, lease owner and expiry, attempt count, failure and cancellation columns; `audit_package_artifacts` | `create_package`, `cancel_package`, `request_retry`, `claim_package`, `settle_stale_cancelling`, `build_once` | `audit/service.py` |
| Exporter | the claim it holds | settle, claim, build, log, in a loop | `exporter.py` |
| Audit consumers | `audit_consumers`: name, key, last acknowledged checkpoint | `register_consumer`, `acknowledge_checkpoint` | `audit/consumers.py` |
| Merkle trees | none | root, inclusion proof, consistency proof, their verifiers | `merkle.py` |
| Receipts and pages | none; a request holds what it has read so far | `build_receipt`, `build_receipt_at_checkpoint`, `build_consistency_bundle`, `build_checkpoint_view`, `build_checkpoint_event_page`, `verify_receipt` | `proofs.py`, `verify.py` |
| Record history | none (reads only) | derived state of a record | `domain.py`, `api/app.py:219-236` |
| Archive | none; a build holds the receipts it has collected | `_load_bundle`, deterministic ZIP | `audit/service.py:316-371`, `audit/archive.py` |
| Audit systems (outside the repository) | an archive, the cursor of a page | enrol, page through an increment, store, acknowledge | `README.md`, "Checkpoint event increments" and "Audit access points" |
| Signatures, keys, encoding | the keyring of a process | sign, verify, canonical JSON | `security.py`, `config.py`, `canonical.py` |
| HTTP API | none | routing, validation, error envelopes | `api/app.py`, `schemas.py` |

How they interact:

- **Writers and sealers** meet in one transaction-scoped advisory lock (`coordination.py`): every
  writer takes it *shared* before it draws a sequence number (`service.py:95-109`) and keeps it to
  its commit; the sealer *tries* to take it *exclusively* (`sealing.py:62-68`) and gives up if it
  cannot.
- **Writers and writers** meet in the unique indexes on `business_key` and `previous_event_id`, and
  in the row lock on the parent event. All of them recover from an `IntegrityError` by reading the
  winner's row.
- **API and exporter** meet in the row lock of a package. A build itself runs between two
  transactions and holds no lock, only a lease.
- **Consumers** share a row each; an `UPDATE` that compares the cursor decides between them.
- **Everything that reads** takes no lock and no snapshot: a receipt, a page or an archive is put
  together from several statements, each of which sees another state of the tables. It relies on
  rows of `events` and `checkpoints` never changing, and on a checkpoint counting every event up to
  its last sequence number.
- **Audit systems** join the two: they read pages through the read path and move the cursor of their
  access point, possibly from several replicas that reach API processes with different keys.

What is hard here: sequence numbers are drawn before the commit and become visible in any order;
number draws are not rolled back; two-phase checks (read, then insert or lock) race; batches take
several unique-index locks in caller order and deadlock; clocks are read before transactions;
leases expire under running builds; processes die between any two statements; clients repeat what
they have already done. The `hazards` of `PROJECT.json` list each of these at its line.

What makes each component correct:

- *Submission*: a key names one event for ever; a retry gets the same event; a record is one line
  of events; a batch is all or nothing; every refusal is justified; every call is answered.
- *Sealing*: a checkpoint counts exactly the events up to its boundary, for ever; checkpoints form
  one chain; everything committed is sealed in the end.
- *Packages*: one legal life per package; only the replica whose lease it is records a result; a
  cancellation that was accepted is final; every package settles.
- *Consumers*: a cursor climbs the chain one checkpoint at a time; one caller makes each step.
- *Merkle*: proofs that are built verify, and prove nothing but what they were built for.
- *Reads*: an honest ledger is never taken for a corrupt one; an answer stays exact for ever; a later
  receipt is never weaker than an earlier one.
- *Receipts*: a receipt verifies with the keys it needs, and nothing pieced together or altered does.
- *Audit systems*: what is acknowledged has been stored; each event arrives once and in order; the
  cursor catches up with the chain.

## 2. Modules

| Module | Models | Kind |
|---|---|---|
| `Ledger` | event submission and checkpoint sealing, one step per SQL statement | detailed specification, properties, inductive invariant |
| `LedgerLog` | the steps of what they promise: an append-only log with sealed prefixes | abstract specification |
| `LedgerCalls` | the promise to callers: each call is recorded as a whole or not at all (extends `LedgerLog`) | abstract specification |
| `LedgerProofs` | theorems about types and sealing in `Ledger` | proofs |
| `SubmissionProofs` | theorems about submission in `Ledger`, and that it implements `LedgerCalls` | proofs |
| `MCLedger` | calls, keyrings and bounds for TLC | instances |
| `AuditPackages` | package rows, API requests, exporter replicas, relative time | detailed specification, properties |
| `PackageLifecycle` | the life of one package as its requester sees it | abstract specification |
| `AuditPackagesProofs` | theorems about `AuditPackages`, and that each package implements `PackageLifecycle` | proofs |
| `MCAuditPackages` | requests and bounds for TLC | instances |
| `AuditConsumers` | registration and acknowledgement | specification, properties |
| `AuditConsumersProofs` | theorems about `AuditConsumers` | proofs |
| `MCAuditConsumers` | model values for TLC | instances |
| `MerkleTree` | `merkle.py` as recursive functions | pure algorithms |
| `MCMerkleTree` | what their results have to mean, over all tree sizes up to a bound | instances, properties |
| `Receipts` | rendering and offline verification of receipts (extends `MerkleTree`) | pure algorithms |
| `MCReceipts` | what a verdict has to mean, over chains of three checkpoints (extends `MCMerkleTree`) | instances, properties |
| `Recursion` | induction and recursion over the natural numbers, for a body given as a constant operator | lemmas |
| `MerkleProofs` | theorems about `MerkleTree` and `Receipts`, and about `MCMerkleTree` and `MCReceipts` (extends `MCReceipts`) | proofs |
| `LedgerReads` | requests that read, one step per statement, over the log of `LedgerLog` (extends it) | detailed specification, properties, inductive invariant |
| `ReadsProofs` | theorems about `LedgerReads` | proofs |
| `MCLedgerReads` | rows and a keyring for TLC | instances |
| `Auditors` | audit systems that use the reads and the access points (extends `LedgerReads`, instantiates `AuditConsumers`) | composition, properties, inductive invariant |
| `AuditorsProofs` | theorems about `Auditors` (extends `ReadsProofs`) | proofs |
| `MCAuditors` | rows and keyrings for TLC | instances |

An operator named `X_Something` before an operator `X`, commented "Mutant", is the form a plausible
bug would give `X`. It is used to confirm that a property notices the bug; no specification uses it.

### 2.1 Ledger

A *writer* is one API request with its session, a *sealer* one replica. A step is one SQL statement
with the Python up to the next one; PostgreSQL at READ COMMITTED is modelled by what the statements
rely on.

| Variables | Code |
|---|---|
| `events`, `checkpoints` | committed rows |
| `nextSeq` | the identity sequence, never rolled back |
| `shared`, `exclusive` | holders of the advisory lock |
| `rowLock[w]` | the parent row `w` holds `FOR UPDATE` |
| `inserted[w]`, `ticket[w]` | flushed rows of the open transaction; the number drawn for the next |
| `pc[w]`, `work[w]`, `reply[w]` | next statement, local variables, answer of a writer |
| `spc[s]`, `read[s]`, `outcome[s]` | next statement, what was read, outcome of a sealer |

| Action | Statement |
|---|---|
| `Submit` | the request arrives; a batch that collides with itself is refused (`service.py:172-206`) |
| `CheckExisting` | the key lookup before the insert |
| `LockShared` | `pg_advisory_xact_lock_shared`, which waits for a sealer |
| `Scan`, `FoldItem` | the batch's lookup of all its keys, and items that fold into existing rows |
| `LockParent`, `CheckSuccessor` | the parent `FOR UPDATE`, and the search for a successor |
| `DrawSequence`, `InsertRow` | the flush: a number is drawn, then the unique indexes let the row in, make it wait for another transaction, or reject it |
| `Commit`, `RecheckSingle`, `RecheckBatch` | commit; the handlers of `IntegrityError`, with the bounded retry of batches |
| `DeadlockVictim`, `WriterFault` | PostgreSQL breaks a cycle of waits; the process or connection dies before the commit, or after it with the answer lost |
| `TryLock` ... `Seal`, `SealerFault` | the statements of `seal_once`, its checks in `Verdict`, and the death of a sealer |

An event identifier is its sequence number; a commitment is the row; a root is the set of rows under
it. Integers do not overflow (64-bit identities).

`LedgerCalls` promises, beyond the log of `LedgerLog`, that the events of one call appear together and
that none is left out: afterwards every submission of the call is recorded by an event (`Batches` are the sets of
submissions that calls make, `Content` the submission that an event records). So a refused or failed
batch that left flushed rows behind would be no step of it; `FoldItem_Commits` is such a bug.

### 2.2 AuditPackages

Every transaction that changes a package holds its row `FOR UPDATE` to the commit, so each is one
action. Between two transactions everything interleaves: the clock is read in `Poll` and at the end
of `SettleStaleCancelling`, and used in the next action; a build is the time between `ClaimPackage`
and `WriteArchive`, `FinishCancelled` or `FailOrCancel`, with the cooperative checks in
`ObserveCancel` and `Render`. A build may fail at any time before its archive is rendered
(`MeetDefect`), for want of a key or on any other defect, which the code records as
`AUDIT_EXPORT_FAILED`.

A key that is used again with a request that names no checkpoint replays the package whatever its
boundary is (`IsReplay`, `audit/service.py:164-171`): the boundary of such a request is resolved only
after the key was looked up. `README.md:199-200` speaks of "identical parameters", which leaves open
whether an absent `checkpoint_id` is one; `CreationsAgree` states what the code does.

Time is relative, which keeps the state space finite: `lease` is what is left of a lease, `age` how
long ago a replica read its clock, and `Tick` moves all of them. `MaxAge` bounds the time a replica
takes from a clock reading to its last use of what it claimed; `Lease < MaxAge` gives builds that
outlive their lease, `Lease = MaxAge` builds that do not. Replicas' clocks are taken to agree.

`marks` is the set of nullable columns that have a value, which is all that the CHECK constraint
`audit_package_state_shape` looks at. `result` and `confirmed` record what `build_once` did and what
the exporter logged as confirmed; no guard reads them.

A row that a refused request holds for a moment makes `SKIP LOCKED` pass over it; `ClaimPackage`
therefore may take any eligible package. That such locks do not recur for ever is assumed.

### 2.3 AuditConsumers

Checkpoint `n` is the `n`-th of the chain, which `CheckpointsFormAChain` of `LedgerProofs` justifies:
its predecessor is `n - 1` and leaf counts grow with `n`. `ReadCursor`, `ClassifySubmitted`,
`Advance` and `ReloadAndClassify` are the statements of `acknowledge_checkpoint`; the `UPDATE` and
the commit are one step because the row stays locked between them.

### 2.4 MerkleTree

Hashes are terms, so equal hashes have equal preimages. Each recursion of `merkle.py` is a recursive
function of the size of its slice of the leaves, because every call is for a smaller slice; the slice
itself is given by the number of leaves before it.

| Definition | Code |
|---|---|
| `LeadingPower`, `Split` | `_split`, with `1 << (n.bit_length() - 1)` by repeated halving |
| `Roots`, `MerkleRoot` | `merkle_root` of every slice, and of the whole |
| `Walks`, `InclusionProof` | `walk` of `inclusion_proof` |
| `Sides`, `SidesMatch`, `Path`, `VerifyInclusion` | `collect_sides`, the comparison and the loop of `verify_inclusion` |
| `Subproofs`, `ConsistencyProof` | `subproof` of `consistency_proof` |
| `SkipRight`, `Start` | what `verify_consistency` does before its loop over the proof |
| `Climb`, `Round`, `Rounds`, `Implies` | the inner loop, one round, the state after each round, and the end of the loop with its early return |

### 2.5 LedgerReads

The ledger itself is the abstract log: `LedgerReads` extends `LedgerLog`, whose `AppendEvents` and
`SealPrefix` the write path implements (`ImplementsLog`). Append allows only what that refinement
shows: a lower number may appear after a higher one, but never at or below a sealed boundary, and a
successor comes after its parent, in its record, once. The one addition is `signedBy`, the key
version of each checkpoint. Checkpoint `n` is the `n`-th of the chain.

A reader is one request with its session. `rpc[r]` is its next statement, `query[r]` its parameters
and local variables (`at` is the checkpoint it works at, `prefix` what it has read of it, `rest` and
`items` the events of an archive without and with a receipt), `answer[r]` what it asked last and was
answered. Each kind of request runs through these steps:

| Request | Steps |
|---|---|
| `GET /v1/events/{id}` | `FindEvent`, `FindNewest`, `ReadPrefix`, `ReadPrevious` |
| `GET /v1/records/{id}` | `ReadRecord` |
| `GET /v1/checkpoints/{id}` | `FindTarget`, `ReadPrefix`, `ReadPrevious` |
| `GET /v1/checkpoints/{id}/events` | `FindTarget` with the check of the cursor, `ReadPrefix`, `ReadPrevious`, `ReplyPage` |
| `_load_bundle` of an exporter | `FindTarget`, `ReadInstrument`, then `ReadPrefix` and `ReadPrevious` once per event |

`ReadPrefix` and `ReadPrevious` are the two calls of `_validated_prefix`; `Validation` has its checks
in the order of the code, and `Render` is the end of the second one. The lookup of a checkpoint row
by its identifier goes with the step before it, because such a row never changes. Cancellation
during `_load_bundle` is in `AuditPackages` (`ObserveCancel`), not here.

### 2.6 Auditors

The audit systems are outside the repository; `README.md` says what they do, and their actions are
that and no more. A replica enrols under the key of its system (`Enrol`), looks at the access point
(`Learn`), pulls page after page of the next checkpoint (`Pull`, `TakePage`), stores each, and
acknowledges after the last (`Acknowledge`). After a crash (`Crash`) it knows only what the ledger
and the shared archive keep, and starts the increment again. Its requests are the steps of
`LedgerReads` (`PageRuns`) and of `AuditConsumers` (`AccessRuns`), whose `sealed` is the length of
the chain. No endpoint lists the chain, so how a replica learns the identifier of the next
checkpoint is left open.

### 2.7 Receipts

A receipt is a record with the parts of the JSON document: event, status, checkpoint, inclusion and
consistency. The committed fields of an event are one value; its sequence number stands beside it
because `event_commitment` leaves it out. A signature is the term of the signing key and the signed
fields. `Payload` is `checkpoint_payload`: it puts in `SchemaVersion` and not the schema version of
the checkpoint, and signs the time that was read, not its text. What the verifier decodes before it
uses it (times, hashes, sizes and the index of a proof) is a value with the form it is written in
(`Written`, `Read`), because `datetime.fromisoformat`, `bytes.fromhex` and `int` take several forms of
one value: `3.9` and `"3"` for 3, for instance. Where a time is absent the verifier does not refuse
the receipt but fails with an `AttributeError` that nothing catches; that verdict is `ERROR`.
`Verdict` is `verify_receipt` with its checks grouped by what they refuse. A reader of
`LedgerReads` reports a receipt only by event, checkpoint and leaf index; `MCReceipts` checks that
this is what the document proves.

## 3. What is checked

Passing runs:

| Run | Bounds | Shows |
|---|---|---|
| `ledger_submission` | 3 writers, 3 calls out of 12 single and batch submissions, revisions and revocations on up to 3 keys, 2 attempts, 1 fault, no sealer | `RecordsAreLines`; `AnswersHold`: callers are told the truth, also after deadlocks and lost answers; `RaceLosersFindTheWinner`; `LostAttemptsAreDistinctKeys`: each lost attempt is one more key lost, so a batch that is refused really lost `Attempts` races; the inductive invariant `SubmissionIsInductive`, which has `TypeOK` and `SealingIsInductive` in it |
| `ledger_sealing` | 2 writers, 2 sealers in a key rotation, 3 calls, seals of 2 events, a batch of 2 keys that can be refused after its first row, 1 fault | `CheckpointsCoverTheirPrefix`, `SealsAreNeverRejected`, `OneChain`, the inductive invariant `SealingIsInductive`, and `ImplementsLog`: refinement of `LedgerCalls`, so of a call all is recorded or nothing |
| `ledger_liveness` | 2 writers, 1 sealer, 2 calls, 1 fault | `EveryCallIsAnswered`, `EveryEventIsSealed` |
| `packages_lives` | 2 packages, requests with and without a boundary and for an instrument that is not covered, 2 replicas (one without the key), 3 calls, 3 builds each, defects at any time, 1 fault, builds longer than leases | `PackagesAreInductive`, the inductive invariant with `TypeOK` in it; `RowsKeepTheirShape`, `ImplementsLifecycle`, `OnlyTheOwnerRecords` |
| `packages_liveness` | 2 clients that race for one key with different instruments and boundaries, 2 replicas (one without the key), 2 checkpoints, 3 calls, 4 builds, defects at any time, 1 fault, builds no longer than leases, with fairness | `CreationsAgree`, `NeverBuiltByTwo`, `EveryPackageSettles` |
| `consumers_races` | 2 requests at a time, 2 consumers, 3 checkpoints, 5 calls, 1 fault | all properties of `AuditConsumers` |
| `receipts_and_trees` | all pairs of sizes up to 17; for receipts every third, smaller checkpoint before them; three keys, one per checkpoint | `InclusionIsExact`, `ConsistencyIsExact`, `ChangedHistoryIsNoticed` of the trees; `MixedReceiptsAreRefused`, `OnlyUnreadChangesPass`, `KeysDecide` of the receipts; `OnlyUnreadChangesPass` has every single change of a receipt refused, but for those the verifier does not see: the sequence number of the event, the schema version of a checkpoint, and another form of a decoded value |
| `reads_growing` | 1 reader with an old keyring, 2 requests of any kind, 1 fault, 4 rows (a record that is revised and revoked, another instrument, a lost number), up to 4 checkpoints under either key, pages of 1 and 2 | `NoFalseAlarms`, `AnswersStayTrue`, `WitnessesAreNeverWithdrawn`, and the inductive invariant `ReadsAreInductive`, which has `TypeOK` in it |
| `auditors_follow` | 2 replicas of one audit system (one reaches a process without the new key), 3 events with a lost number, up to 3 checkpoints, pages of 2, 10 calls, 1 fault, with fairness | `AcknowledgedIsStored`, `TakenIsExact`, `GivenCursorsAreGood`, `PagesContinue`, `CursorCatchesUp`, and the inductive invariant `AuditorsAreInductive` |

Runs that end in a violation, each of a sentence the repository states:

| Run | Sentence | What the code does |
|---|---|---|
| `ledger_refused_retry` | `README.md:372`, keys "make a retry safe" | a revision or revocation retried while its original is in flight is refused with `EVENT_ALREADY_SUPERSEDED` by its own twin |
| `packages_built_twice` | `README.md:254-256`, replicas "never build the same package" | the lease is not renewed, so a long build is started a second time |
| `packages_confirmed_twice` | `exporter.py:89-90`, a single confirmation log | `_fail_or_cancel` returns `cancelled` instead of `superseded` for a settled package |

More sentences disagree with the code in ways that harm no stored row, and have no run:

- `README.md:95-96` speaks of a "contiguous" sequence prefix. A number drawn by an insert that loses
  a race is never used; leaf counts, not numbers, are contiguous, and sealing is safe all the same
  (`ledger_sealing` has such gaps).
- `audit/service.py:393-394` says what `build_once` returns. A replica that lost its lease gets
  whatever status the row has meanwhile (`WriteArchive`, `FinishCancelled`, `FailOrCancel`), and the
  exporter logs `ready` as its own success and `building` or `pending` as a failure.
- `audit/service.py:201-203` says that the owner of the lease confirms a cancellation, or
  `settle_stale_cancelling` when the lease is over. The write transaction (`WriteArchive`) confirms it
  whoever owns the lease.
- `README.md:269-271` and `397` have the manifest record the SHA-256 and size of the whole ZIP.
  `build_manifest` (`audit/archive.py:66-90`) records those of the receipts; the ZIP contains the
  manifest, so its digest is kept in the row of the package instead.
- `README.md:131-132` lists the schema version among what the HMAC covers. `checkpoint_payload`
  (`domain.py:69-70`) signs its own constant 1, so a checkpoint that says 2 still verifies.
  `OnlyUnreadChangesPass` states that it does, for the checkpoint of
  a receipt and for the predecessor in its bundle.
- `README.md:64` says that `GET` reports `pending` until the sealer reaches an event, and it does. A
  repeated submission is answered with `pending` too (`api/app.py:164-213`), however long ago the event it
  repeats was sealed.

Why the bounds are enough: the hazards are races of two processes over one or two rows, with a third
to disturb them. Two writers and two sealers suffice for every order of draw, commit and seal that
involves one lower and one higher number; batches of two keys in both orders make a deadlock, of
three keys a second lost race. Two replicas and three builds give every relation of an old claim to
a new one, and a third transition after it. Two requests that read the same cursor, and a second
acknowledgement by one of them, make the stale write that the comparison has to stop. Trees of up to
17 leaves cross the powers of two at 2, 4, 8 and 16 on both sides. A reader holds no lock and changes
nothing, so readers do not influence each other and one is enough; its second request is the one
that may disagree with the first, and four rows give increments of one to four events, a boundary
between any two of them, and rows that appear between any two statements. Two auditors give every
race for a cursor; pages of two over three events end full, end short, and end with an exact fit. Every bound is a constant that
appears in a guard; the theorems of section 4 hold without them.

Deadlock is checked except where a system with a bounded number of calls, rows or sizes and no
sealer or exporter comes to rest (`ledger_submission`, `ledger_refused_retry`, `consumers_races`,
`reads_growing`, `auditors_follow`, `receipts_and_trees`).

**Fairness.** `Ledger`: a request that runs keeps running (weak fairness of its statements), as
asyncio and the database schedule it. Lock waits (`LockShared`, `LockParent`, `InsertRow`) are
strongly fair because PostgreSQL queues waiters, so a lock that is released again and again is
eventually granted; a deadlock is eventually broken. A sealer polls for ever (`sealer.py:39-78`):
weak fairness only, since it merely *tries* the lock; with bounded calls writers pause in the end.
`AuditPackages`: a replica polls for ever and a running request is answered; time passes. Clients,
sealers of checkpoints, crashes and faults are never obliged to happen. `Auditors`: a replica of an
audit system goes on and its requests are answered (weak fairness of its own steps, which covers the
requests it has under way). The ledger is not obliged to grow; that it has at most `Rows` events is
what "whenever the ledger pauses" in `CursorCatchesUp` means. A page that one API process cannot
sign for want of a key is asked for again; the other replica, whose process has the key, is what
makes the cursor move.

## 4. What is proved

`LedgerProofs` proves, for any sets of writers, sealers, keys, versions, instruments and contents,
any set of legal calls, any batch size, number of attempts and number of calls and faults:

- `TypeCorrect`: `Spec => []TypeOK`;
- `SealingInvariant`: `Spec => []SealingIsInductive`;
- `CheckpointsAreComplete`, `SealersAgree`, `CheckpointsFormAChain`: the three safety properties of
  sealing.

The assumptions are those `Ledger` states about its constants (`CallsAssumption`,
`BoundsAssumption`, `KeysAssumption`); TLC evaluates them in every run.

*The argument.* That a checkpoint counts every event up to its boundary, for ever, is not inductive:
a writer might hold a number below a boundary and commit it later. The strengthening says why none
does. `LocksAreHeld`: whoever has drawn a number holds the shared lock, a sealer past `TryLock` holds
the exclusive one alone. Hence while a sealer works nothing is in flight, and every number drawn
later is above `nextSeq`, above the new boundary: `NumbersLieAhead`. For the sealer itself,
`ReadsAgree` says that what it read in separate statements is what the tables still hold when it
writes, because only lock holders change them; `BoundariesAreEvents` makes the previous checkpoint,
the first of the batch and the prefix fit together, so none of its checks can fail and the unique
constraints on the predecessor never bite. `WritersAreWellPlaced` ties a writer's `pc` to its local
variables, which `TypeOK` alone does not. The proof has one lemma per conjunct and side:
`SealerKeepsX` and `WriterKeepsX`; the sealer's part uses that no writer is inside a transaction, the
writer's that no sealer is.

`SubmissionProofs` proves under the same assumptions, with sealers and faults at work:

- `SubmissionInvariant`: `Spec => []SubmissionIsInductive`;
- `RecordsStayLines`: each record is one line of events, whatever successors race for a parent;
- `AnswersAreTrue`: every answer, replays, folded items and refusals included, is true of what is
  stored when it is given and for ever after;
- `LosersFindTheWinner`: whoever is rejected by a unique index finds, when it looks again, the row
  that took its place, so the handlers of `IntegrityError` never re-raise for a legal call;
- `LostKeysAreDistinct`: a batch that runs out of attempts lost each of them to another key;
- `LedgerImplementsLog`: `Spec => ImplementsLog`, the refinement of `LedgerCalls`, in which a call is
  recorded as a whole or not at all;
- `SealedPrefixesAreClosed`: in that log no prefix that was sealed ever gains an event.

*The argument.* What is committed cannot be judged without what is about to be: the invariant speaks
of `Rows`, the committed events and the flushed rows of every open transaction. `RowsAreUnique` is
what the unique indexes make of them, since a flush waits for (`Blocks`) or loses to any row it
collides with, committed or not. `HoldsItsParent` says that whoever found a parent without a
successor holds its row alone until its own row is committed; so no row appears under the parent
between the search and the insert, and `RowsExtendTheirLines`: the new row is the only successor of
an event of the same record. `WorkIsExact` follows the loop of a batch: its results name committed
rows or its own, with the content of its items, each row it created once, and each lost attempt has
left a new key in `seen`, which is finite because a batch has finitely many keys. `NamesAreSettled` makes
refusals final: a request that names an event names one that exists already, or one that never
will. An answer is then what the work has found at the commit; later commits only add rows
(`EventsGrow`), and rows that are unique cannot contradict it. For the refinement, a writer's
`Commit` is one `AppendCall` of all it has flushed, allowed because of `NumbersLieAhead` and
`RowsExtendTheirLines`, and with `WorkIsExact` all that its call asked for (`CommitsAreWhole`); a `Seal` is `SealPrefix` of all that is visible, by `ReadsAgree`; every other
step leaves both tables alone.

`AuditPackagesProofs` proves, for any keys, instruments (at least one of each), clients, replicas,
requests, keyrings, bounds and faults:

- `PackagesInvariant`: `Spec => []PackagesAreInductive`, and from it `TypeCorrect`, `RowsFit` and
  `CreationsAreConsistent`;
- `OwnersRecord`: `Spec => OnlyTheOwnerRecords`;
- `EveryPackageLives`: `Spec => Life(k)!Spec` for *every* key, which TLC checks for two
  (`ImplementsLifecycle`); `ArchivesAreReady`: hence an archive is stored exactly for a ready package;
- `NoBuildIsRepeated`: `NeverBuiltByTwo`, on the assumption `MaxAge <= Lease`: a replica uses what it
  claimed for no longer than the lease lasts. The code does not see to that, so the assumption is one
  of this theorem alone; `packages_built_twice` shows that it is needed.

*The argument.* Every step changes a row, if at all, in one of a few ways (`RowStep`,
`NextMakesRowSteps`): requeued, claimed, finished, failed, cancelled, cancellation requested. Types, columns and
the lifecycle are then facts about those changes, not about the twenty actions. `RowIsExact` ties
the nullable columns to the status exactly, which is stronger than the CHECK constraint and, unlike
it, survives a retry. `ClaimIsCurrent` holds whether or not the lease does, because instrument and
boundary of a row are never written again; it is why a late archive could only be the right one.
`NoBuildIsRepeated` adds `ClaimIsLeased`: a replica that builds owns its row, and what is left of the
lease is the lease less the age of the clock it read, so with `MaxAge <= Lease` no other replica finds
it over.

`AuditConsumersProofs` proves, for any number of callers, keys, names, checkpoints, calls and faults:

- `TypeCorrect`: `Spec => []TypeOK`;
- `StaleReadsAreBehind`: what a request has read of a consumer is never ahead of the row;
- `CursorsOnlyClimb`: a cursor moves by one, never back, never past the chain;
- `ChangesAreMadeOnce`: no change is reported to two callers;
- `ConflictsAreJustified`: the reason of a conflict is right about the cursor it reports. In
  particular the `or SKIPPED` of `consumers.py:213` is never reached.

*The argument.* `RowsGrow`: consumers are never deleted, cursors never fall, the chain never
shrinks, by any step. So what holds for a request that does nothing keeps holding
(`UntouchedKeepsInv`): a stale read can only be behind, an answer stays true, a change that was
reported stays in the row (`ChangeStands`). For the acting request (`ActingKeepsInv`), a checkpoint
that passed `_classify` is the successor of the cursor that was read (`IsBehind`), so the comparison
in the `UPDATE` makes it the successor of the row. Two reports of one change would need the same
checkpoint to be both behind the cursor and its successor.

`ReadsProofs` proves, for any readers, rows, keyrings, page sizes, bounds and faults
(`ReadsAssumption`: rows have positive numbers, page sizes are positive):

- `ReadsInvariant`: `ReadsSpec => []ReadsAreInductive`, and from it `TypeCorrect`;
- `HonestLedgersAreNotRefused`: no read takes the honest ledger for a damaged one;
- `AnswersAreExactForGood`: a receipt, a page, the receipts of an archive and a history stay exact
  whatever is committed and sealed after they were given;
- `ReceiptsOnlyGetNewer`: the action property `WitnessesAreNeverWithdrawn`.

*The argument.* `PrefixesHaveEnds` makes the sealed prefixes a chain, each of them everything up to
one of its events. The members of a finite chain have the ranks 0, 1, ... (`Ranks`, from the pigeonhole
principle of the library), so `Boundary(n)` *is* the `n`-th prefix, and a prefix that is sealed later
comes last: `Boundary(n)` never changes again (`ChainGrows`). An event is appended behind every
sealed one, so no row ever appears at or below a boundary, and `PrefixRows(n)`, read at whatever
moment, is `Boundary(n)` (`Boundaries`): the checks of `_validated_prefix` have nothing to find.
`QueryIsExact` says what follows for a request between two statements, among it that the rows of an
archive without a receipt and those with one are together what has to be collected. A page is a cut
by rank through the rest of an increment (`Oldest`, `OldestAreFirst`), so it has no gap and
`next_after_sequence` resumes behind it. Histories rest on `LogIsOfLines`: what is appended to a record
comes after all of it, so the events a history had stay its first part. `NextWitnessIsNewer`
follows a receipt that is built again from the choice of its checkpoint to its answer: the checkpoint
of the earlier one still covers the event (`GivenWitness`), and among those that do the one with the
most leaves is the last of the chain. The reader that acts leaves with facts that hold of the ledger
as it was (`ActingIsExact`); whatever grows around a reader keeps its facts true (`ReadersStayExact`).

`AuditorsProofs` proves, for any replicas, rows, keyrings, page sizes, bounds and faults
(`AuditorsAssumption`: replicas are readers, and a registered name is not the absent one):

- `AuditorsInvariant`: `AuditSpec => []AuditorsAreInductive`;
- `AcknowledgedWasStored`: what the access point records as consumed is in the archive;
- `NothingIsMissed`: what a replica has taken is the increment up to its cursor, and all of it before
  it acknowledges;
- `GivenCursorsStayGood`: who uses the cursors and checkpoints it was given is never refused;
- `PagesLeadOn`: the action property `PagesContinue`.

*The argument.* The invariant joins three actors. `PagingIsExact` ties the request that a replica has
under way, and the page it has in hand, to the cursor behind everything taken so far; that cursor is
an event of the increment, so the range check of `build_checkpoint_event_page` lets it pass
(`CursorIsPlaced`), and since the answer is exact for its question whatever has grown meanwhile
(`AnswerIsTrue`, proved for all readers in `ReadsProofs`), the page continues what was taken without a
gap or an overlap (`PageContinues`). `AccessIsExact` bounds a replica by the row: the checkpoint it
consumes is at most the successor of the cursor, because it was learned from a cursor that has only
grown, and at most the successor of the cursor that its acknowledgement has read. So `_classify`
never finds a skip or a wrong first checkpoint (`NoSkip`), and when the comparison in the `UPDATE`
succeeds the checkpoint is exactly the next one (`AccessStep`). What the cursor newly stands for is
then the increment that this replica holds in full, and `AcknowledgedIsStored` is kept.
`AcknowledgedIsStored` alone is not inductive: without `TakenIsExact` the acknowledged increment might not
be stored, and without the bound by the row the cursor might jump over one that another replica never
took. Each action of a replica has one lemma (`PullLeaves`, `TakePageLeaves`, ...) that says what it leaves
behind; a replica that waits keeps its facts while the ledger grows and others act (`WaitingStays`).
The reader's half of each step is a step of `ReadsProofs` (`ReplicasAreReaders`, `ReadsGoOn`).

`Recursion` and `MerkleProofs` prove what the algorithms of `merkle.py` and `verify_receipt` mean, for
trees of every size and leaves of any kind:

- `RootsDecideLeaves`: two sequences of leaves, of whatever lengths, with one root are the same;
- `InclusionIsDecided`: `verify_inclusion` accepts a leaf and a proof at an index under the root of a
  tree exactly if they are that tree's leaf there and the proof that `inclusion_proof` builds;
- `ProofsTellPlaces`: a proof fits one index in trees of one size;
- `ConsistencyIsDecided`: `verify_consistency` accepts an old root and a proof exactly if they are the
  root of the first leaves and the proof that `consistency_proof` builds;
- `WitnessedReceiptsAreTrue`: whoever made a receipt, if it is witnessed, its event is the leaf at its
  index of the sealed tree, and the tree of the predecessor is a beginning of that tree;
- `InclusionStaysExact`, `ConsistencyStaysExact`, `ChangedHistoryStaysNoticed`, `KeysAlwaysDecide`,
  `MixedReceiptsStayRefused`, `OnlyUnreadChangesEverPass`: the invariants of `receipts_and_trees`,
  without its bound on sizes.

*The argument.* The induction theorems of the library take an operator as a parameter, which the
provers here cannot instantiate. `Recursion` therefore starts from the least member of a set
(`WFMin`) and states induction about sets, and it shows that a function whose value at a number
depends on smaller numbers only exists and satisfies its definition; that the body is a constant of
the module makes it usable for every recursion of `MerkleTree` by instantiation. `RootValue`, `WalkValue`,
`ClimbValue` and the like are then the equations of the code.

Inclusion is an induction over slices: a proof has the sides that the verifier expects
(`WalksHaveSides`), and along its steps the verifier computes the root of ever greater slices
(`PathsLeadToRoots`). Nothing else is accepted because two runs of the loop with the same sides end
alike only if they are alike (`PathsDiffer`).

Consistency is harder, because `consistency_proof` works from the root down and `verify_consistency`
from the leaves up, with two positions that it halves. `InPlace` says when a slice is a node: its
first leaf is a multiple of a power of two, and it ends at the next multiple or with the tree.
`SkipReaches` shows where the verifier starts: at the greatest subtree that ends with the old tree and
is a left child, which is the subtree that both trees share (`SharedSubtree`). From there the
invariant is `ReachesRoot`: after the items of the subproof of a slice, the verifier is at that slice,
holds its root and the root of its old part, and was not at the top before. A right sibling is one
round (`RightSibling`); a left sibling is one round too, with the rows that have no sibling at the
right edge climbed in between (`LeftSibling`, `ClimbReaches`). For the converse, the positions do not
depend on the hashes, so two proofs of one pair of sizes take the same turns; if they end at the same
new root, each round had the same items and the same hashes (`RoundsDiffer`), and the proofs and the
old roots are the same (`AcceptedAreAlike`).

The theorems about receipts follow. A signature covers every column but the schema version (`PayloadDecides`), the
hashes of a genuine proof are roots of real slices and never the hash of something that was no leaf
(`WalksHaveNoOther`, `SubproofsHaveNoOther`), a change the verifier does not read leaves everything it
computes as it was, and what remains is to go through the parts and the
fields.

Only model-checked:

- liveness (`EveryCallIsAnswered`, `EveryEventIsSealed`, `EveryPackageSettles`, `CursorCatchesUp`),
  which is out of TLAPS's reach together with ENABLED;
- that the functions of `MerkleTree` are what the code computes beyond what the theorems say of them:
  TLC evaluates them for every size up to the bound of `receipts_and_trees`.

What `KeysAlwaysDecide`, `MixedReceiptsStayRefused` and `OnlyUnreadChangesEverPass` say is limited to
chains of three checkpoints, of any sizes, because the properties of `MCReceipts` are about those; a
receipt holds two checkpoints at most. `WitnessedReceiptsAreTrue` is not limited.

## 5. Not modelled

- The text of canonical JSON, ZIP layout and manifest, HMAC and SHA-256 bytes, key parsing: pure
  functions whose only modelled property is that they tell different inputs apart.
- Malformed values in `verify_receipt`, except absent times. Only `KeyError`, `TypeError` and
  `ValueError` become a refusal (`INVALID_PROOF`); an absent time
  (`AttributeError`, modelled as `ERROR`) or a size that is infinite (`OverflowError` of `int`, not
  modelled) makes the verifier fail. What it does accept in more than one form is modelled.
- The download of a finished archive: its row is written in the transaction that makes the package
  ready (`WriteArchive`) and never changes.
- Routing, request validation, error envelopes, logging (except the two log lines a comment promises
  something about), signal handling, readiness files.
- The branches for SQLite, which only the tests use, and the migrations; their constraints are in
  the models.
- Checks that detect rows changed behind the program's back (`MERKLE_NODE_CORRUPT`,
  `CHECKPOINT_SIGNATURE_INVALID`, `CHECKPOINT_CHAIN_BROKEN`): they compare rows with themselves as
  they were written, and triggers forbid a change. `MCMerkleTree` and `MCReceipts` cover what proofs
  and signatures notice. The checks that compare one row with *other* rows (count and root of a
  prefix) are in the model, because concurrency could break them.

## 6. Plan

Done: (A) `Ledger`, `LedgerLog`, `LedgerCalls`, `LedgerProofs`, `SubmissionProofs`; (B) `AuditPackages`,
`PackageLifecycle`, `AuditPackagesProofs`; (C) `AuditConsumers` and its proofs; (D) `MerkleTree`;
(E) receipts, pages and record histories in `LedgerReads`, `ReadsProofs` and `Receipts`; (F) the composition
`Auditors` and its proofs; (G) the algorithms of `merkle.py` and of the receipts over them, for trees
of every size, in `Recursion` and `MerkleProofs`.

Every safety invariant and action property that a passing run checks is proved. What could come next
are chains of any number of checkpoints in the theorems about mixed and altered receipts, and the
manifest and layout of an archive.
