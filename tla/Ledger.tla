------------------------------- MODULE Ledger -------------------------------
(***************************************************************************)
(* The write path of the calibration ledger: EventService (single reports, *)
(* batches, revisions and revocations) running concurrently with itself    *)
(* and with CheckpointSealer, over PostgreSQL at READ COMMITTED.           *)
(*                                                                         *)
(* A writer is one API request with its database session, a sealer one     *)
(* replica of the sealing process.  A step is one statement sent to the    *)
(* database together with the Python that follows it up to the next one.   *)
(* PostgreSQL appears only through what these statements rely on: the      *)
(* transaction-scoped advisory lock, row locks, an identity sequence that  *)
(* is not rolled back, unique indexes that make a second inserter wait for *)
(* the first one's transaction, and the deadlock detector.                 *)
(*                                                                         *)
(* Abstractions.  An event_id is the sequence number of its row (both are  *)
(* unique and never reused); an event commitment is the row itself and a   *)
(* Merkle root is the set of rows under it (hashing is injective); the     *)
(* operator and the payload digest of a submission are its content.        *)
(***************************************************************************)
EXTENDS Integers, Sequences, FiniteSets

CONSTANTS
  Writers,        \* concurrent API requests
  Sealers,        \* replicas of the sealer process
  Keys,           \* business keys
  Contents,       \* payload and operator of a submission
  Instruments,    \* instrument identifiers
  NoInstrument,   \* the instrument of a revocation request, which carries none
  Calls,          \* the API calls clients may make
  Versions,       \* signing key versions
  Keyring,        \* Keyring[s]: the key versions sealer s is configured with
  CurrentKey,     \* CurrentKey[s]: the version sealer s signs with
  BatchSize,      \* seal_batch_size
  Attempts,       \* _BATCH_INSERT_ATTEMPTS
  MaxCalls,       \* bound: calls submitted in a behaviour
  MaxFaults       \* bound: crashes, lost connections and lost answers

NoEvent == 0          \* NULL previous_event_id, and "no sequence number"
UnknownEvent == -1    \* an event identifier no event ever has

Types == {"report", "revision", "revocation"}

Submission ==
  [type : Types, key : Keys, parent : Int,
   instrument : Instruments \cup {NoInstrument}, content : Contents]

Call == [api : {"single", "batch"}, items : Seq(Submission)]

Row ==
  [seq : Nat, type : Types, key : Keys, parent : Int, record : Nat,
   instrument : Instruments, content : Contents]

Checkpoint ==
  [last : Nat, count : Nat, leaves : SUBSET Row, previous : Nat,
   previousLeaves : SUBSET Row, key : Versions]

ASSUME CallsAssumption ==
  /\ Calls \subseteq Call
  /\ \A c \in Calls :
       /\ c.items # << >>
       /\ c.api = "single" => Len(c.items) = 1
       /\ \A i \in 1 .. Len(c.items) :
            LET s == c.items[i]
            IN  /\ c.api = "batch" => s.type = "report"
                /\ s.type = "report" <=> s.parent = NoEvent
                /\ s.type = "revocation" <=> s.instrument = NoInstrument

ASSUME BoundsAssumption ==
  /\ BatchSize \in Nat \ {0}
  /\ Attempts \in Nat \ {0}
  /\ MaxCalls \in Nat
  /\ MaxFaults \in Nat

ASSUME KeysAssumption ==
  /\ Keyring \in [Sealers -> SUBSET Versions]
  /\ CurrentKey \in [Sealers -> Versions]
  /\ \A s \in Sealers : CurrentKey[s] \in Keyring[s]

VARIABLES
  events,       \* committed rows of the events table
  checkpoints,  \* committed rows of the checkpoints table
  nextSeq,      \* next value of the events.sequence identity sequence
  shared,       \* writers holding the advisory lock in shared mode
  exclusive,    \* sealers holding the advisory lock in exclusive mode
  rowLock,      \* rowLock[w]: the event row w holds FOR UPDATE, or NoEvent
  inserted,     \* inserted[w]: rows inserted by w's open transaction
  ticket,       \* ticket[w]: sequence number drawn for the row being inserted
  pc,           \* pc[w]: next statement of writer w
  work,         \* work[w]: local variables of writer w
  reply,        \* reply[w]: what the caller was answered
  spc,          \* spc[s]: next statement of sealer s
  read,         \* read[s]: what sealer s has read in this transaction
  outcome,      \* outcome[s]: result of the last seal_once of sealer s
  calls,        \* calls submitted so far
  faults        \* faults so far

tables == <<events, checkpoints, nextSeq>>
locks == <<shared, rowLock, inserted, ticket>>
writerVars == <<pc, work, reply, calls>>
sealerVars == <<exclusive, spc, read, outcome, checkpoints>>
vars == <<events, checkpoints, nextSeq, shared, exclusive, rowLock, inserted,
          ticket, pc, work, reply, spc, read, outcome, calls, faults>>

-----------------------------------------------------------------------------
(***************************************************************************)
(* What the statements select and what the Python computes.                *)
(***************************************************************************)

WithKey(k) == {e \in events : e.key = k}

WithSeq(n) == {e \in events : e.seq = n}

Successors(n) == {e \in events : e.parent = n /\ n # NoEvent}

\* content_fingerprint: a revocation is fingerprinted without an instrument.
Fingerprint(r) ==
  [type |-> r.type, key |-> r.key, parent |-> r.parent, content |-> r.content,
   instrument |-> IF r.type = "revocation" THEN NoInstrument ELSE r.instrument]

\* Two reports of one batch use one key for different contents.
Collides(items) ==
  \E i, j \in 1 .. Len(items) :
    items[i].key = items[j].key /\ Fingerprint(items[i]) # Fingerprint(items[j])

Items(w) == work[w].call.items

Item(w) == Items(w)[work[w].pos]

ItemsLeft(w) == work[w].pos <= Len(Items(w))

\* The rows a batch already knows for the key of its current item.
Resolved(w) == {e \in work[w].seen \cup inserted[w] : e.key = Item(w).key}

\* A row that stands in the way of w's insert in a unique index.
Blocks(r, w) ==
  \/ r.key = Item(w).key
  \/ Item(w).parent # NoEvent /\ r.parent = Item(w).parent

\* The row a successor extends.
Parent(w) == CHOOSE e \in WithSeq(Item(w).parent) : TRUE

StoredInstrument(w) ==
  IF Item(w).parent = NoEvent THEN Item(w).instrument ELSE Parent(w).instrument

NewRow(w) ==
  [seq |-> ticket[w], type |-> Item(w).type, key |-> Item(w).key,
   parent |-> Item(w).parent, content |-> Item(w).content,
   instrument |-> StoredInstrument(w),
   record |-> IF Item(w).parent = NoEvent THEN ticket[w] ELSE Parent(w).record]

-----------------------------------------------------------------------------
(***************************************************************************)
(* Ends of a transaction and of a request.                                 *)
(***************************************************************************)

\* Mutant: the advisory lock outlives the transaction (a session lock).
EndTransaction_KeepsLock(w) ==
  /\ shared' = shared
  /\ rowLock' = [rowLock EXCEPT ![w] = NoEvent]
  /\ inserted' = [inserted EXCEPT ![w] = {}]
  /\ ticket' = [ticket EXCEPT ![w] = NoEvent]

\* COMMIT and ROLLBACK both give back every lock of the transaction.
EndTransaction(w) ==
  /\ shared' = shared \ {w}
  /\ rowLock' = [rowLock EXCEPT ![w] = NoEvent]
  /\ inserted' = [inserted EXCEPT ![w] = {}]
  /\ ticket' = [ticket EXCEPT ![w] = NoEvent]

Goto(w, label) ==
  /\ pc' = [pc EXCEPT ![w] = label]
  /\ UNCHANGED reply

Answer(w, status, results) ==
  /\ pc' = [pc EXCEPT ![w] = "idle"]
  /\ reply' = [reply EXCEPT ![w] = [status |-> status, results |-> results]]

Reject(w, status) ==
  /\ EndTransaction(w)
  /\ Answer(w, status, << >>)
  /\ UNCHANGED work

\* Mutant: the key alone identifies a submission.
SameContent_KeyOnly(e, item) == e.key = item.key

\* _check_idempotency: a row has the content of the submission that reuses its key.
SameContent(e, item) == Fingerprint(e) = Fingerprint(item)

AnswerFromRow(w, e) ==
  IF SameContent(e, Item(w))
    THEN Answer(w, "ok", <<[seq |-> e.seq, created |-> FALSE]>>)
    ELSE Answer(w, "IDEMPOTENCY_CONFLICT", << >>)

-----------------------------------------------------------------------------
(***************************************************************************)
(* Writers: EventService.                                                  *)
(***************************************************************************)

\* A client submits a call.  It can name only events it has seen committed,
\* or an identifier that is nobody's.
Submit(w) ==
  /\ pc[w] = "idle"
  /\ calls < MaxCalls
  /\ calls' = calls + 1
  /\ \E c \in Calls :
       /\ \A i \in 1 .. Len(c.items) :
            c.items[i].parent \in {NoEvent, UnknownEvent} \cup {e.seq : e \in events}
       /\ work' = [work EXCEPT ![w] =
                     [call |-> c, pos |-> 1, seen |-> {}, results |-> << >>, attempt |-> 1]]
       /\ \/ c.api = "single" /\ Goto(w, "check")
          \/ c.api = "batch" /\ ~ Collides(c.items) /\ Goto(w, "lock")
          \/ c.api = "batch" /\ Collides(c.items) /\ Answer(w, "IDEMPOTENCY_CONFLICT", << >>)
  /\ UNCHANGED <<tables, locks, exclusive, spc, read, outcome, faults>>

\* The first statement of a single submission, before any lock is taken.
CheckExisting(w) ==
  /\ pc[w] = "check"
  /\ \/ \E e \in WithKey(Item(w).key) : AnswerFromRow(w, e)
     \/ WithKey(Item(w).key) = {} /\ Goto(w, "lock")
  /\ UNCHANGED <<tables, locks, exclusive, work, spc, read, outcome, calls, faults>>

\* Mutant: writers do not coordinate with the sealer.
NoSealerRuns_Ignored == TRUE

NoSealerRuns == exclusive = {}

\* _coordinate_insert: waits while a sealer holds the advisory lock.
LockShared(w) ==
  /\ pc[w] = "lock"
  /\ NoSealerRuns
  /\ shared' = shared \cup {w}
  /\ Goto(w, IF work[w].call.api = "batch" THEN "scan"
             ELSE IF Item(w).type = "report" THEN "insert" ELSE "parent")
  /\ UNCHANGED <<tables, rowLock, inserted, ticket, exclusive, work, spc, read,
                 outcome, calls, faults>>

\* Mutant: only the first attempt reads the table.
RowsOfBatch_FirstAttemptOnly(w) ==
  {e \in events : work[w].attempt = 1 /\ \E i \in 1 .. Len(Items(w)) : Items(w)[i].key = e.key}

RowsOfBatch(w) == {e \in events : \E i \in 1 .. Len(Items(w)) : Items(w)[i].key = e.key}

\* A batch reads every row that already has one of its keys.
Scan(w) ==
  /\ pc[w] = "scan"
  /\ work' = [work EXCEPT ![w].seen = RowsOfBatch(w)]
  /\ Goto(w, "insert")
  /\ UNCHANGED <<tables, locks, exclusive, spc, read, outcome, calls, faults>>

\* Mutant: the parent is read without FOR UPDATE.
ParentFree_PlainSelect(w) == TRUE

ParentFree(w) == \A v \in Writers \ {w} : rowLock[v] # Item(w).parent

\* Mutant: a revocation can be revised like any other event.
MayBeFollowed_Always(e) == TRUE

MayBeFollowed(e) == e.type # "revocation"

\* SELECT ... FOR UPDATE on the parent, which waits for another holder.
LockParent(w) ==
  /\ pc[w] = "parent"
  /\ ParentFree(w)
  /\ \/ /\ WithSeq(Item(w).parent) = {}
        /\ Reject(w, "NOT_FOUND")
     \/ /\ \E e \in WithSeq(Item(w).parent) : ~ MayBeFollowed(e)
        /\ Reject(w, "RECORD_REVOKED")
     \/ /\ \E e \in WithSeq(Item(w).parent) : MayBeFollowed(e)
        /\ rowLock' = [rowLock EXCEPT ![w] = Item(w).parent]
        /\ Goto(w, "successor")
        /\ UNCHANGED <<shared, inserted, ticket, work>>
  /\ UNCHANGED <<tables, exclusive, spc, read, outcome, calls, faults>>

\* With the parent locked: is it still the last event of its record?
CheckSuccessor(w) ==
  /\ pc[w] = "successor"
  /\ LET superseded == Successors(Item(w).parent) # {}
         mismatch == Item(w).instrument \notin {NoInstrument, Parent(w).instrument}
     IN  \/ superseded /\ Reject(w, "EVENT_ALREADY_SUPERSEDED")
         \/ ~ superseded /\ mismatch /\ Reject(w, "INSTRUMENT_MISMATCH")
         \/ ~ superseded /\ ~ mismatch /\ Goto(w, "insert") /\ UNCHANGED <<locks, work>>
  /\ UNCHANGED <<tables, exclusive, spc, read, outcome, calls, faults>>

\* Mutant: the conflict is returned from inside the transaction, which then commits.
FoldItem_Commits(w) ==
  /\ pc[w] = "insert"
  /\ ItemsLeft(w)
  /\ \E e \in Resolved(w) :
       \/ /\ SameContent(e, Item(w))
          /\ work' = [work EXCEPT
                        ![w].results = Append(@, [seq |-> e.seq, created |-> FALSE]),
                        ![w].pos = @ + 1]
          /\ UNCHANGED <<events, locks, pc, reply>>
       \/ /\ ~ SameContent(e, Item(w))
          /\ events' = events \cup inserted[w]
          /\ Reject(w, "IDEMPOTENCY_CONFLICT")
  /\ UNCHANGED <<checkpoints, nextSeq, exclusive, spc, read, outcome, calls, faults>>

\* A batch item whose key is already known, committed or from this batch.
FoldItem(w) ==
  /\ pc[w] = "insert"
  /\ ItemsLeft(w)
  /\ \E e \in Resolved(w) :
       \/ /\ SameContent(e, Item(w))
          /\ work' = [work EXCEPT
                        ![w].results = Append(@, [seq |-> e.seq, created |-> FALSE]),
                        ![w].pos = @ + 1]
          /\ UNCHANGED <<locks, pc, reply>>
       \/ /\ ~ SameContent(e, Item(w))
          /\ Reject(w, "IDEMPOTENCY_CONFLICT")
  /\ UNCHANGED <<tables, exclusive, spc, read, outcome, calls, faults>>

\* INSERT, first half: the identity sequence is advanced, never to go back.
DrawSequence(w) ==
  /\ pc[w] = "insert"
  /\ ItemsLeft(w)
  /\ Resolved(w) = {}
  /\ ticket' = [ticket EXCEPT ![w] = nextSeq]
  /\ nextSeq' = nextSeq + 1
  /\ Goto(w, "index")
  /\ UNCHANGED <<events, checkpoints, shared, rowLock, inserted, exclusive, work,
                 spc, read, outcome, calls, faults>>

\* INSERT, second half: the unique indexes.  The insert waits for an open
\* transaction that holds the same entry, fails on a committed one, and the
\* IntegrityError rolls the whole transaction back.
InsertRow(w) ==
  /\ pc[w] = "index"
  /\ \A v \in Writers \ {w} : \A r \in inserted[v] : ~ Blocks(r, w)
  /\ \/ /\ \E e \in events : Blocks(e, w)
        /\ EndTransaction(w)
        /\ Goto(w, "recheck")
        /\ UNCHANGED work
     \/ /\ \A e \in events : ~ Blocks(e, w)
        /\ inserted' = [inserted EXCEPT ![w] = @ \cup {NewRow(w)}]
        /\ ticket' = [ticket EXCEPT ![w] = NoEvent]
        /\ work' = [work EXCEPT
                      ![w].results = Append(@, [seq |-> ticket[w], created |-> TRUE]),
                      ![w].pos = @ + 1]
        /\ Goto(w, "insert")
        /\ UNCHANGED <<shared, rowLock>>
  /\ UNCHANGED <<tables, exclusive, spc, read, outcome, calls, faults>>

\* COMMIT of every row of the call; the answer may be lost on the way.
Commit(w) ==
  /\ pc[w] = "insert"
  /\ ~ ItemsLeft(w)
  /\ events' = events \cup inserted[w]
  /\ EndTransaction(w)
  /\ \/ Answer(w, "ok", work[w].results) /\ UNCHANGED faults
     \/ faults < MaxFaults /\ faults' = faults + 1 /\ Answer(w, "lost", << >>)
  /\ UNCHANGED <<checkpoints, nextSeq, exclusive, work, spc, read, outcome, calls>>

\* After an IntegrityError: the single endpoints look for the winner's row.
RecheckSingle(w) ==
  /\ pc[w] = "recheck"
  /\ work[w].call.api = "single"
  /\ LET found == WithKey(Item(w).key)
         superseded == Successors(Item(w).parent) # {}
     IN  \/ \E e \in found : AnswerFromRow(w, e)
         \/ /\ found = {}
            /\ Answer(w, IF superseded THEN "EVENT_ALREADY_SUPERSEDED" ELSE "INTEGRITY_ERROR",
                      << >>)
  /\ UNCHANGED <<tables, locks, exclusive, work, spc, read, outcome, calls, faults>>

\* A batch fails on a committed conflict and otherwise starts over.
RecheckBatch(w) ==
  /\ pc[w] = "recheck"
  /\ work[w].call.api = "batch"
  /\ LET conflict ==
           \E i \in 1 .. Len(Items(w)) : \E e \in WithKey(Items(w)[i].key) :
              ~ SameContent(e, Items(w)[i])
         last == work[w].attempt >= Attempts
     IN  \/ conflict /\ Answer(w, "IDEMPOTENCY_CONFLICT", << >>) /\ UNCHANGED work
         \/ ~ conflict /\ last /\ Answer(w, "INTEGRITY_ERROR", << >>) /\ UNCHANGED work
         \/ /\ ~ conflict /\ ~ last
            /\ work' = [work EXCEPT ![w] =
                          [call |-> @.call, pos |-> 1, seen |-> {}, results |-> << >>,
                           attempt |-> @.attempt + 1]]
            /\ Goto(w, "lock")
  /\ UNCHANGED <<tables, locks, exclusive, spc, read, outcome, calls, faults>>

\* w waits for a lock or an index entry of v's open transaction.
WaitsFor(w, v) ==
  /\ w # v
  /\ \/ pc[w] = "index" /\ \E r \in inserted[v] : Blocks(r, w)
     \/ pc[w] = "parent" /\ rowLock[v] = Item(w).parent

\* PostgreSQL aborts one transaction of a cycle of waiting ones; the driver
\* error is not an IntegrityError and reaches the caller as 503.
DeadlockVictim(w) ==
  /\ \E D \in SUBSET Writers : w \in D /\ \A x \in D : \E y \in D : WaitsFor(x, y)
  /\ Reject(w, "DATABASE_UNAVAILABLE")
  /\ UNCHANGED <<tables, exclusive, spc, read, outcome, calls, faults>>

\* The API process or its connection dies; PostgreSQL rolls back.
WriterFault(w) ==
  /\ pc[w] # "idle"
  /\ faults < MaxFaults
  /\ faults' = faults + 1
  /\ Reject(w, "lost")
  /\ UNCHANGED <<tables, exclusive, spc, read, outcome, calls>>

-----------------------------------------------------------------------------
(***************************************************************************)
(* Sealers: CheckpointSealer.seal_once, polled by the loop of sealer.py.   *)
(***************************************************************************)

\* The value of `previous` when the table is empty.
NoCheckpoint ==
  [last |-> NoEvent, count |-> 0, leaves |-> {}, previous |-> NoEvent,
   previousLeaves |-> {}, key |-> CHOOSE k \in Versions : TRUE]

Latest ==
  IF checkpoints = {} THEN NoCheckpoint
  ELSE CHOOSE c \in checkpoints : \A d \in checkpoints : d.count <= c.count

\* ORDER BY sequence LIMIT n.
Oldest(n, S) == {e \in S : Cardinality({f \in S : f.seq < e.seq}) < n}

LastSeq(S) == CHOOSE n \in {e.seq : e \in S} : \A e \in S : e.seq <= n

NothingRead == [previous |-> NoCheckpoint, batch |-> {}, prefix |-> {}]

\* Mutant: the sealer keeps its advisory lock (a session lock).
EndSeal_KeepsLock(s, result) ==
  /\ exclusive' = exclusive
  /\ spc' = [spc EXCEPT ![s] = "idle"]
  /\ read' = [read EXCEPT ![s] = NothingRead]
  /\ outcome' = [outcome EXCEPT ![s] = result]

\* End of the sealer's transaction, whatever its result.
EndSeal(s, result) ==
  /\ exclusive' = exclusive \ {s}
  /\ spc' = [spc EXCEPT ![s] = "idle"]
  /\ read' = [read EXCEPT ![s] = NothingRead]
  /\ outcome' = [outcome EXCEPT ![s] = result]

\* Mutant: the sealer does not exclude the writers.
LockIsFree_OfSealers == exclusive = {}

\* Mutant: the sealer goes on whatever pg_try_advisory_xact_lock returns.
LockIsFree_Ignored == TRUE

LockIsFree == shared = {} /\ exclusive = {}

\* pg_try_advisory_xact_lock: never waits.
TryLock(s) ==
  /\ spc[s] = "idle"
  /\ \/ /\ LockIsFree
        /\ exclusive' = exclusive \cup {s}
        /\ spc' = [spc EXCEPT ![s] = "previous"]
        /\ UNCHANGED <<read, outcome>>
     \/ /\ ~ LockIsFree
        /\ EndSeal(s, "busy")
  /\ UNCHANGED <<tables, locks, writerVars, faults>>

ReadPrevious(s) ==
  /\ spc[s] = "previous"
  /\ read' = [read EXCEPT ![s].previous = Latest]
  /\ spc' = [spc EXCEPT ![s] = "batch"]
  /\ UNCHANGED <<tables, locks, writerVars, exclusive, outcome, faults>>

\* The events the next checkpoint adds.
ReadBatch(s) ==
  /\ spc[s] = "batch"
  /\ LET new == Oldest(BatchSize, {e \in events : e.seq > read[s].previous.last})
     IN  \/ new = {} /\ EndSeal(s, "idle")
         \/ /\ new # {}
            /\ read' = [read EXCEPT ![s].batch = new]
            /\ spc' = [spc EXCEPT ![s] = "prefix"]
            /\ UNCHANGED <<exclusive, outcome>>
  /\ UNCHANGED <<tables, locks, writerVars, faults>>

\* The whole prefix is read again, in a statement of its own.
ReadPrefix(s) ==
  /\ spc[s] = "prefix"
  /\ read' = [read EXCEPT ![s].prefix = {e \in events : e.seq <= LastSeq(read[s].batch)}]
  /\ spc' = [spc EXCEPT ![s] = "seal"]
  /\ UNCHANGED <<tables, locks, writerVars, exclusive, outcome, faults>>

NewCheckpoint(s) ==
  [last |-> LastSeq(read[s].batch), count |-> Cardinality(read[s].prefix),
   leaves |-> read[s].prefix, previous |-> read[s].previous.last,
   previousLeaves |-> read[s].previous.leaves, key |-> CurrentKey[s]]

\* The checks before the new checkpoint is inserted, in their order.
Verdict(s) ==
  LET previous == read[s].previous
      prefix == read[s].prefix
      c == NewCheckpoint(s)
  IN  IF Cardinality(prefix) # previous.count + Cardinality(read[s].batch)
        THEN "EVENT_SEQUENCE_CORRUPT"
      ELSE IF previous # NoCheckpoint /\ Oldest(previous.count, prefix) # previous.leaves
        THEN "CHECKPOINT_CORRUPT"
      ELSE IF previous # NoCheckpoint /\ previous.key \notin Keyring[s]
        THEN "UNKNOWN_KEY_VERSION"
      ELSE IF \E d \in checkpoints :
                \/ d.count = c.count
                \/ d.last = c.last
                \/ d.previous = c.previous /\ c.previous # NoEvent
        THEN "INTEGRITY_ERROR"
      ELSE "sealed"

Seal(s) ==
  /\ spc[s] = "seal"
  /\ checkpoints' = IF Verdict(s) = "sealed" THEN checkpoints \cup {NewCheckpoint(s)}
                    ELSE checkpoints
  /\ EndSeal(s, Verdict(s))
  /\ UNCHANGED <<events, nextSeq, locks, writerVars, faults>>

\* The sealer process or its connection dies.
SealerFault(s) ==
  /\ spc[s] # "idle"
  /\ faults < MaxFaults
  /\ faults' = faults + 1
  /\ EndSeal(s, "lost")
  /\ UNCHANGED <<tables, locks, writerVars>>

-----------------------------------------------------------------------------
Init ==
  /\ events = {}
  /\ checkpoints = {}
  /\ nextSeq = 1
  /\ shared = {}
  /\ exclusive = {}
  /\ rowLock = [w \in Writers |-> NoEvent]
  /\ inserted = [w \in Writers |-> {}]
  /\ ticket = [w \in Writers |-> NoEvent]
  /\ pc = [w \in Writers |-> "idle"]
  /\ work = [w \in Writers |->
               [call |-> [api |-> "single", items |-> << >>], pos |-> 1, seen |-> {},
                results |-> << >>, attempt |-> 1]]
  /\ reply = [w \in Writers |-> [status |-> "none", results |-> << >>]]
  /\ spc = [s \in Sealers |-> "idle"]
  /\ read = [s \in Sealers |-> NothingRead]
  /\ outcome = [s \in Sealers |-> "none"]
  /\ calls = 0
  /\ faults = 0

\* Statements that never wait for another transaction.
WriterRuns(w) ==
  \/ CheckExisting(w) \/ Scan(w) \/ CheckSuccessor(w) \/ FoldItem(w)
  \/ DrawSequence(w) \/ Commit(w) \/ RecheckSingle(w) \/ RecheckBatch(w)

Writer(w) ==
  \/ Submit(w) \/ WriterRuns(w) \/ LockShared(w) \/ LockParent(w)
  \/ InsertRow(w) \/ DeadlockVictim(w) \/ WriterFault(w)

SealerRuns(s) ==
  ReadPrevious(s) \/ ReadBatch(s) \/ ReadPrefix(s) \/ Seal(s)

Sealer(s) == TryLock(s) \/ SealerRuns(s) \/ SealerFault(s)

Next ==
  \/ \E w \in Writers : Writer(w)
  \/ \E s \in Sealers : Sealer(s)

Spec == Init /\ [][Next]_vars

(***************************************************************************)
(* A running request keeps executing.  PostgreSQL queues the waiters of a  *)
(* lock and wakes them when it is released, so a wait that ends again and  *)
(* again is eventually granted: strong fairness for the three statements   *)
(* that wait.  The sealer's loop polls for ever.  Nothing obliges a client *)
(* to submit, and nothing obliges a fault to happen.                       *)
(***************************************************************************)
Fairness ==
  /\ \A w \in Writers :
       /\ WF_vars(WriterRuns(w))
       /\ SF_vars(LockShared(w))
       /\ SF_vars(LockParent(w))
       /\ SF_vars(InsertRow(w))
       /\ WF_vars(DeadlockVictim(w))
  /\ \A s \in Sealers :
       /\ WF_vars(TryLock(s))
       /\ WF_vars(SealerRuns(s))

FairSpec == Spec /\ Fairness

-----------------------------------------------------------------------------
Labels == {"idle", "check", "lock", "scan", "parent", "successor", "insert",
           "index", "recheck"}

Statuses == {"none", "ok", "lost", "IDEMPOTENCY_CONFLICT", "NOT_FOUND", "RECORD_REVOKED",
             "EVENT_ALREADY_SUPERSEDED", "INSTRUMENT_MISMATCH", "INTEGRITY_ERROR",
             "DATABASE_UNAVAILABLE"}

Result == [seq : Nat, created : BOOLEAN]

TablesTyped ==
  /\ events \subseteq Row
  /\ checkpoints \subseteq Checkpoint
  /\ nextSeq \in Nat \ {0}

LocksTyped ==
  /\ shared \subseteq Writers
  /\ rowLock \in [Writers -> Int]
  /\ inserted \in [Writers -> SUBSET Row]
  /\ ticket \in [Writers -> Nat]

WritersTyped ==
  /\ pc \in [Writers -> Labels]
  /\ work \in [Writers -> [call : Call, pos : Nat \ {0}, seen : SUBSET Row,
                           results : Seq(Result), attempt : Nat \ {0}]]
  /\ reply \in [Writers -> [status : Statuses, results : Seq(Result)]]
  /\ calls \in Nat
  /\ faults \in Nat

SealersTyped ==
  /\ exclusive \subseteq Sealers
  /\ spc \in [Sealers -> {"idle", "previous", "batch", "prefix", "seal"}]
  /\ read \in [Sealers -> [previous : Checkpoint, batch : SUBSET Row, prefix : SUBSET Row]]
  /\ outcome \in [Sealers -> {"none", "busy", "idle", "sealed", "lost", "UNKNOWN_KEY_VERSION",
                              "EVENT_SEQUENCE_CORRUPT", "CHECKPOINT_CORRUPT",
                              "INTEGRITY_ERROR"}]

\* Every column and local variable keeps the domain the schema and the code
\* give it; in particular a stored row has an instrument (NOT NULL), also a
\* revocation, whose request carries none.
TypeOK == TablesTyped /\ LocksTyped /\ WritersTyped /\ SealersTyped

\* A checkpoint signs exactly the committed events up to its last sequence,
\* now and for ever: no writer that was still uncommitted when the sealer read
\* the prefix ever commits a row below the boundary (_coordinate_insert).
CheckpointsCoverTheirPrefix ==
  \A c \in checkpoints :
    /\ c.leaves = {e \in events : e.seq <= c.last}
    /\ c.count = Cardinality(c.leaves)

\* On an untampered database no replica of the sealer ever reports corruption
\* or loses a race on a unique constraint of the checkpoints table: what its
\* separate SELECTs return is consistent (sealing.py:97-126).
SealsAreNeverRejected ==
  \A s \in Sealers :
    outcome[s] \notin {"EVENT_SEQUENCE_CORRUPT", "CHECKPOINT_CORRUPT", "INTEGRITY_ERROR"}

\* Checkpoints form one chain: one genesis, one successor each, every one
\* extending the root it names as previous (concurrent and restarted replicas).
OneChain ==
  \A c \in checkpoints :
    /\ \A d \in checkpoints : d.previous = c.previous => d = c
    /\ \/ c.previous = NoEvent /\ c.previousLeaves = {}
       \/ \E p \in checkpoints :
            /\ p.last = c.previous
            /\ p.leaves = c.previousLeaves
            /\ p.leaves \subseteq c.leaves /\ p.count < c.count

\* A row starts a record, or extends a committed event of its record and instrument
\* that is not a revocation.
ExtendsItsLine(e) ==
  IF e.parent = NoEvent THEN e.record = e.seq
  ELSE \E p \in WithSeq(e.parent) :
         /\ p.seq < e.seq /\ p.type # "revocation"
         /\ p.record = e.record /\ p.instrument = e.instrument

\* The events of a record form one line from its report on: a revision or a
\* revocation extends an earlier event of the same record and instrument, never
\* a revocation, and nothing else extends that event (service.py:377-408).
RecordsAreLines ==
  \A e \in events :
    ExtendsItsLine(e) /\ (e.parent # NoEvent => Successors(e.parent) = {e})

\* An accepted call names, item by item, committed events with its content.
AcceptanceIsTrue(w) ==
  reply[w].status = "ok" =>
    /\ Len(reply[w].results) = Len(Items(w))
    /\ \A i \in DOMAIN reply[w].results : \E e \in WithSeq(reply[w].results[i].seq) :
         Fingerprint(e) = Fingerprint(Items(w)[i])

\* A committed row, or the lack of one, justifies the refusal of a call.
RefusalIsTrue(w) ==
  /\ reply[w].status = "IDEMPOTENCY_CONFLICT" =>
       \/ Collides(Items(w))
       \/ \E i \in 1 .. Len(Items(w)) : \E e \in WithKey(Items(w)[i].key) :
            Fingerprint(e) # Fingerprint(Items(w)[i])
  /\ reply[w].status = "EVENT_ALREADY_SUPERSEDED" => Successors(Items(w)[1].parent) # {}
  /\ reply[w].status = "NOT_FOUND" => WithSeq(Items(w)[1].parent) = {}
  /\ reply[w].status = "RECORD_REVOKED" =>
       \E e \in events : e.record \in {p.record : p \in WithSeq(Items(w)[1].parent)}
                           /\ e.type = "revocation"

\* No two results claim to have created one event.
CreatedApart(w, v) ==
  \A i \in DOMAIN reply[w].results : \A j \in DOMAIN reply[v].results :
    /\ reply[w].results[i].created /\ reply[v].results[j].created
    /\ reply[w].results[i].seq = reply[v].results[j].seq
    => w = v /\ i = j

\* What a caller was told is true of the committed log: an accepted call names,
\* item by item, committed events with the content it submitted, one call at most
\* is told it created an event, and a refusal is justified by a committed row.
AnswersHold ==
  \A w \in Writers : pc[w] = "idle" =>
    /\ AcceptanceIsTrue(w) /\ RefusalIsTrue(w)
    /\ reply[w].status = "ok" => \A v \in Writers : pc[v] = "idle" => CreatedApart(w, v)

\* A single writer that lost a race always finds the winner under its own key:
\* the parent's row lock leaves no other way to lose, so the successor branch and
\* the re-raise of the IntegrityError handlers are never reached.
RaceLosersFindTheWinner ==
  \A w \in Writers :
    pc[w] = "recheck" /\ work[w].call.api = "single" => WithKey(Item(w).key) # {}

\* Every lost attempt of a batch is the loss of one more of its keys, so a batch
\* is answered INTEGRITY_ERROR only after races on Attempts different keys.
LostAttemptsAreDistinctKeys ==
  \A w \in Writers :
    LET taken == {k \in Keys : /\ WithKey(k) # {}
                               /\ \E i \in 1 .. Len(Items(w)) : Items(w)[i].key = k}
    IN  /\ pc[w] # "idle" /\ work[w].call.api = "batch" =>
             Cardinality(taken) >= work[w].attempt - (IF pc[w] = "recheck" THEN 0 ELSE 1)
        /\ pc[w] = "idle" /\ reply[w].status = "INTEGRITY_ERROR" =>
             Cardinality(taken) >= Attempts

\* The write path and the sealers together implement the append-only log of calls.
Log == INSTANCE LedgerCalls WITH
         log <- events, prefixes <- {c.leaves : c \in checkpoints},
         Batches <- {{Fingerprint(c.items[i]) : i \in 1 .. Len(c.items)} : c \in Calls},
         Content <- Fingerprint

\* Every behaviour of writers and sealers, faults included, is one of the log: a
\* commit appends unsealed events only, and all of a call or nothing (a refused or
\* failed batch leaves no row behind); a checkpoint seals a longer prefix.
ImplementsLog == Log!Spec

-----------------------------------------------------------------------------
(***************************************************************************)
(* The inductive strengthening of the invariants above: what every         *)
(* statement of a writer or a sealer relies on at the point it is executed.*)
(***************************************************************************)

\* A running writer executes a call that a client made, at one of its items,
\* and once past the parent check the parent is committed and may be followed.
IsWellPlaced(w) ==
  /\ pc[w] # "idle" => work[w].call \in Calls
  /\ pc[w] \notin {"idle", "insert"} => ItemsLeft(w)
  /\ pc[w] \notin {"insert", "index"} => inserted[w] = {}
  /\ work[w].call.api = "single" /\ ItemsLeft(w) => inserted[w] = {} /\ work[w].seen = {}
  /\ pc[w] \in {"check", "parent", "successor"} => work[w].call.api = "single"
  /\ pc[w] = "scan" => work[w].call.api = "batch"
  /\ pc[w] \in {"check", "recheck"} /\ work[w].call.api = "single" => work[w].pos = 1
  /\ pc[w] \in {"successor", "insert", "index"} /\ ItemsLeft(w) /\ Item(w).parent # NoEvent =>
       \E p \in WithSeq(Item(w).parent) : p.type # "revocation"

WritersAreWellPlaced == \A w \in Writers : IsWellPlaced(w)

\* Who works on the tables holds the advisory lock, and a sealer holds it alone.
LocksAreHeld ==
  /\ exclusive # {} => shared = {}
  /\ \A s, t \in exclusive : s = t
  /\ \A s \in Sealers : spc[s] # "idle" => s \in exclusive
  /\ \A w \in Writers :
       \/ pc[w] \in {"scan", "parent", "successor", "insert", "index"}
       \/ inserted[w] # {}
       \/ ticket[w] # NoEvent
       => w \in shared

\* Numbers are drawn upwards, and a number in flight lies above every boundary.
NumbersLieAhead ==
  /\ IsFiniteSet(events)
  /\ \A e \in events : 0 < e.seq /\ e.seq < nextSeq
  /\ \A c \in checkpoints : 0 < c.last /\ c.last < nextSeq
  /\ \A w \in Writers :
       /\ IsFiniteSet(inserted[w])
       /\ pc[w] = "index" => ticket[w] # NoEvent
       /\ ticket[w] < nextSeq
       /\ ticket[w] # NoEvent => \A c \in checkpoints : c.last < ticket[w]
       /\ \A e \in inserted[w] :
            /\ 0 < e.seq /\ e.seq < nextSeq
            /\ \A c \in checkpoints : c.last < e.seq

\* The boundary of a checkpoint is an event, boundaries do not repeat, and a
\* checkpoint names an earlier one as its previous.
BoundariesAreEvents ==
  \A c \in checkpoints :
    /\ c.last \in {e.seq : e \in c.leaves}
    /\ c.previous < c.last
    /\ \A d \in checkpoints : d.last = c.last => d = c

\* What a sealer has read is still what the tables hold.
ReadsAgree ==
  \A s \in Sealers :
    /\ spc[s] \in {"batch", "prefix", "seal"} => read[s].previous = Latest
    /\ spc[s] \in {"prefix", "seal"} =>
         /\ read[s].batch = Oldest(BatchSize, {e \in events : e.seq > read[s].previous.last})
         /\ read[s].batch # {}
    /\ spc[s] = "seal" =>
         read[s].prefix = {e \in events : e.seq <= LastSeq(read[s].batch)}

\* The safety of sealing is inductive only together with the state of every open
\* transaction: who holds the lock, which numbers are in flight, what was read.
SealingIsInductive ==
  /\ WritersAreWellPlaced
  /\ LocksAreHeld
  /\ NumbersLieAhead
  /\ BoundariesAreEvents
  /\ ReadsAgree
  /\ CheckpointsCoverTheirPrefix
  /\ SealsAreNeverRejected
  /\ OneChain

\* The rows the unique indexes know, those of open transactions included.
Rows == events \cup UNION {inserted[w] : w \in Writers}

\* Numbers, keys and parents belong to one row, a row to one transaction, and a
\* number that was drawn to no row yet.
RowsAreUnique ==
  /\ \A e, f \in Rows :
       \/ e.seq = f.seq \/ e.key = f.key
       \/ e.parent = f.parent /\ e.parent # NoEvent
       => e = f
  /\ \A w \in Writers :
       /\ inserted[w] \cap events = {}
       /\ \A v \in Writers \ {w} : inserted[v] \cap inserted[w] = {}
       /\ ticket[w] # NoEvent => /\ \A e \in Rows : e.seq # ticket[w]
                                 /\ \A v \in Writers \ {w} : ticket[v] # ticket[w]

RowsExtendTheirLines == \A e \in Rows : ExtendsItsLine(e)

\* A successor holds its parent's row, alone, until its own row is committed, and
\* what it found out about the parent stays true meanwhile.
HoldsItsParent(w) ==
  /\ \A v \in Writers \ {w} : rowLock[v] = rowLock[w] => rowLock[w] = NoEvent
  /\ \A e \in inserted[w] : e.parent \in {NoEvent, rowLock[w]}
  /\ pc[w] \in {"successor", "insert", "index"} /\ ItemsLeft(w) /\ Item(w).parent # NoEvent =>
       rowLock[w] = Item(w).parent
  /\ pc[w] \in {"insert", "index"} /\ ItemsLeft(w) /\ Item(w).parent # NoEvent =>
       /\ Successors(Item(w).parent) = {}
       /\ \E p \in WithSeq(Item(w).parent) : Item(w).instrument \in {NoInstrument, p.instrument}

\* What a request has worked off: its results name rows, committed or its own, with
\* the content of its items, each row it created once.
WorkIsExact(w) ==
  /\ pc[w] \in {"check", "lock", "scan", "parent", "successor"} =>
       work[w].pos = 1 /\ work[w].results = << >> /\ work[w].seen = {}
  /\ pc[w] \in {"insert", "index"} =>
       /\ work[w].pos = Len(work[w].results) + 1
       /\ Len(work[w].results) <= Len(Items(w))
       /\ \A i \in DOMAIN work[w].results :
            \E e \in events \cup inserted[w] :
              /\ e.seq = work[w].results[i].seq /\ Fingerprint(e) = Fingerprint(Items(w)[i])
              /\ work[w].results[i].created => e \in inserted[w]
       /\ \A i, j \in DOMAIN work[w].results :
            /\ work[w].results[i].created /\ work[w].results[j].created
            /\ work[w].results[i].seq = work[w].results[j].seq
            => i = j
       /\ \A e \in inserted[w] : \E i \in 1 .. Len(Items(w)) : Fingerprint(e) = Fingerprint(Items(w)[i])
       /\ work[w].seen \subseteq RowsOfBatch(w)
       /\ work[w].call.api = "batch" =>
            Cardinality({e.key : e \in work[w].seen}) >= work[w].attempt - 1
  /\ pc[w] = "index" =>
       /\ \A e \in work[w].seen \cup inserted[w] : e.key # Item(w).key
       /\ Item(w).parent < ticket[w]

\* A request names events that exist, or none; a refusal for want of an event is one
\* that no later event can belie.
NamesAreSettled(w) ==
  /\ pc[w] # "idle" =>
       \A i \in 1 .. Len(Items(w)) :
         Items(w)[i].parent \in {NoEvent, UnknownEvent} \cup {e.seq : e \in events}
  /\ pc[w] = "idle" =>
       /\ reply[w].status = "NOT_FOUND" => Items(w)[1].parent \in {NoEvent, UnknownEvent}
       /\ reply[w].results # << >> => reply[w].status = "ok"

\* What submission promises holds only together with the rows of the open transactions,
\* the locks on parents and the work done so far.
SubmissionHolds ==
  /\ RowsAreUnique
  /\ RowsExtendTheirLines
  /\ \A w \in Writers : HoldsItsParent(w) /\ WorkIsExact(w) /\ NamesAreSettled(w)
  /\ RaceLosersFindTheWinner
  /\ AnswersHold
  /\ LostAttemptsAreDistinctKeys

\* The domains of the variables and the placement of locks and numbers that sealing
\* needs are what submission needs as well (submit_event, submit_events).
SubmissionIsInductive == TypeOK /\ SealingIsInductive /\ SubmissionHolds

\* README.md:372: "idempotency keys make a retry safe even when the client did
\* not observe the original commit": what is already recorded is replayed.
RetriesAreReplayed ==
  \A w \in Writers :
    pc[w] = "idle" /\ reply[w].status = "EVENT_ALREADY_SUPERSEDED" =>
      \A e \in WithKey(Items(w)[1].key) : Fingerprint(e) # Fingerprint(Items(w)[1])

\* Every request is answered: no writer waits for ever for a sealer, another
\* writer's transaction or a cycle of them.
EveryCallIsAnswered ==
  \A w \in Writers : pc[w] # "idle" ~> pc[w] = "idle"

\* The event numbered n, once committed, is eventually under a checkpoint.
IsSealedEventually(n) ==
  (WithSeq(n) # {}) ~> (\E c \in checkpoints : n <= c.last)

=============================================================================
