---------------------------- MODULE AuditConsumers ----------------------------
(***************************************************************************)
(* Audit access points: AuditConsumerService called by concurrent API      *)
(* requests that register a consumer and acknowledge checkpoints for it.   *)
(*                                                                         *)
(* Checkpoints form one chain (theorem CheckpointsFormAChain of            *)
(* LedgerProofs), so checkpoint n is known by its place: its predecessor   *)
(* is n - 1, a greater one has a greater leaf count, and 0 is None.        *)
(*                                                                         *)
(* Each statement of a transaction sees what was committed before it.  The *)
(* row that an UPDATE or INSERT changes stays locked until the commit, so  *)
(* both are one step.                                                      *)
(***************************************************************************)
EXTENDS Integers

CONSTANTS
  Callers,        \* concurrent API requests
  Keys,           \* idempotency keys; a consumer is known by its key
  Names,          \* consumer names
  NoName,         \* the consumer does not exist
  MaxCheckpoints, \* bound: checkpoints sealed in a behaviour
  MaxCalls,       \* bound: calls in a behaviour
  MaxFaults       \* bound: API processes or connections that die

ASSUME ConsumersAssumption ==
  /\ Keys # {}
  /\ NoName \notin Names
  /\ MaxCheckpoints \in Nat
  /\ MaxCalls \in Nat
  /\ MaxFaults \in Nat

VARIABLES
  consumer,  \* consumer[k]: name and last_checkpoint_id of the consumer with key k
  sealed,    \* number of checkpoints in the chain
  pc,        \* pc[p]: next statement of request p
  call,      \* call[p]: parameters of request p and the cursor it has read
  reply,     \* reply[p]: what request p was answered
  calls,     \* calls so far
  faults     \* faults so far

vars == <<consumer, sealed, pc, call, reply, calls, faults>>

Checkpoints == 1 .. MaxCheckpoints

Exists(k) == consumer[k].name # NoName

Goto(p, label) == pc' = [pc EXCEPT ![p] = label]

\* A caller is told a status, whether its own call changed something, and the
\* cursor that belongs to the answer.
Answer(p, status, changed, cursor) ==
  /\ Goto(p, "idle")
  /\ reply' = [reply EXCEPT ![p] = [status |-> status, changed |-> changed, cursor |-> cursor]]

Start(p, label, k, name, n) ==
  /\ pc[p] = "idle"
  /\ calls < MaxCalls
  /\ calls' = calls + 1
  /\ Goto(p, label)
  /\ call' = [call EXCEPT ![p] = [key |-> k, name |-> name, checkpoint |-> n, current |-> 0]]
  /\ UNCHANGED <<consumer, sealed, reply, faults>>

-----------------------------------------------------------------------------
(***************************************************************************)
(* register_consumer                                                       *)
(***************************************************************************)

Register(p) == \E k \in Keys, name \in Names : Start(p, "register", k, name, 0)

AnswerFromRow(p) ==
  LET row == consumer[call[p].key]
  IN  Answer(p, IF row.name = call[p].name THEN "ok" ELSE "IDEMPOTENCY_CONFLICT", FALSE, row.cursor)

CheckKey(p) ==
  /\ pc[p] = "register"
  /\ \/ Exists(call[p].key) /\ AnswerFromRow(p)
     \/ ~ Exists(call[p].key) /\ Goto(p, "insert") /\ UNCHANGED reply
  /\ UNCHANGED <<consumer, sealed, call, calls, faults>>

\* Mutant: no unique index on idempotency_key.
KeyIsFree_NoIndex(k) == TRUE

\* The unique index on idempotency_key.
KeyIsFree(k) == ~ Exists(k)

Insert(p) ==
  /\ pc[p] = "insert"
  /\ \/ /\ KeyIsFree(call[p].key)
        /\ consumer' = [consumer EXCEPT ![call[p].key] = [name |-> call[p].name, cursor |-> 0]]
        /\ Answer(p, "ok", TRUE, 0)
     \/ /\ ~ KeyIsFree(call[p].key)
        /\ Goto(p, "settle")
        /\ UNCHANGED <<consumer, reply>>
  /\ UNCHANGED <<sealed, call, calls, faults>>

\* After the IntegrityError: rows are never deleted, the winner's is there.
SettleFromRow(p) ==
  /\ pc[p] = "settle"
  /\ AnswerFromRow(p)
  /\ UNCHANGED <<consumer, sealed, call, calls, faults>>

-----------------------------------------------------------------------------
(***************************************************************************)
(* acknowledge_checkpoint                                                  *)
(***************************************************************************)

Acknowledge(p) ==
  \E k \in Keys, n \in Checkpoints : Start(p, "read", k, NoName, n)

ReadCursor(p) ==
  /\ pc[p] = "read"
  /\ \/ /\ ~ Exists(call[p].key)
        /\ Answer(p, "NOT_FOUND", FALSE, 0)
        /\ UNCHANGED call
     \/ /\ Exists(call[p].key)
        /\ Goto(p, "classify")
        /\ call' = [call EXCEPT ![p].current = consumer[call[p].key].cursor]
        /\ UNCHANGED reply
  /\ UNCHANGED <<consumer, sealed, calls, faults>>

\* Mutant: any later checkpoint may follow.
Conflict_NoSuccessorCheck(current, n) ==
  CASE current = 0 /\ n # 1 -> "NOT_FIRST"
    [] current # 0 /\ n = current -> "DUPLICATE"
    [] current # 0 /\ n < current -> "REGRESSED"
    [] OTHER -> "none"

\* _classify
Conflict(current, n) ==
  CASE current = 0 /\ n # 1 -> "NOT_FIRST"
    [] current # 0 /\ n = current -> "DUPLICATE"
    [] current # 0 /\ n < current -> "REGRESSED"
    [] current # 0 /\ n > current + 1 -> "SKIPPED"
    [] OTHER -> "none"

\* Mutant: the submitted checkpoint is not looked up.
IsSealed_Assumed(n) == TRUE

IsSealed(n) == n <= sealed

ClassifySubmitted(p) ==
  /\ pc[p] = "classify"
  /\ LET n == call[p].checkpoint
         conflict == Conflict(call[p].current, n)
     IN  \/ ~ IsSealed(n) /\ Answer(p, "NOT_FOUND", FALSE, 0)
         \/ IsSealed(n) /\ conflict # "none" /\ Answer(p, conflict, FALSE, call[p].current)
         \/ IsSealed(n) /\ conflict = "none" /\ Goto(p, "update") /\ UNCHANGED reply
  /\ UNCHANGED <<consumer, sealed, call, calls, faults>>

\* Mutant: the cursor is overwritten unconditionally.
CursorMatches_Always(p) == TRUE

\* _cursor_matches, evaluated on the latest committed row.
CursorMatches(p) == consumer[call[p].key].cursor = call[p].current

Advance(p) ==
  /\ pc[p] = "update"
  /\ \/ /\ CursorMatches(p)
        /\ consumer' = [consumer EXCEPT ![call[p].key].cursor = call[p].checkpoint]
        /\ Answer(p, "ok", TRUE, call[p].checkpoint)
     \/ /\ ~ CursorMatches(p)
        /\ Goto(p, "reload")
        /\ UNCHANGED <<consumer, reply>>
  /\ UNCHANGED <<sealed, call, calls, faults>>

\* Mutant: the session's identity map keeps the row as it was first read.
Reloaded_Cached(p) == call[p].current

\* SELECT with populate_existing
Reloaded(p) == consumer[call[p].key].cursor

\* rowcount = 0: the conflict is classified again, against the new cursor.
ReloadAndClassify(p) ==
  /\ pc[p] = "reload"
  /\ LET conflict == Conflict(Reloaded(p), call[p].checkpoint)
     IN  Answer(p, IF conflict = "none" THEN "SKIPPED" ELSE conflict, FALSE, Reloaded(p))
  /\ UNCHANGED <<consumer, sealed, call, calls, faults>>

-----------------------------------------------------------------------------
\* The API process or its connection dies before the commit.  A caller that loses
\* the answer to a committed call may repeat it, like any other call.
Fault(p) ==
  /\ pc[p] # "idle"
  /\ faults < MaxFaults
  /\ faults' = faults + 1
  /\ Answer(p, "lost", FALSE, 0)
  /\ UNCHANGED <<consumer, sealed, call, calls>>

\* A sealer commits the next checkpoint of the chain.
SealCheckpoint ==
  /\ sealed < MaxCheckpoints
  /\ sealed' = sealed + 1
  /\ UNCHANGED <<consumer, pc, call, reply, calls, faults>>

Init ==
  /\ consumer = [k \in Keys |-> [name |-> NoName, cursor |-> 0]]
  /\ sealed = 0
  /\ pc = [p \in Callers |-> "idle"]
  /\ call = [p \in Callers |-> [key |-> CHOOSE k \in Keys : TRUE, name |-> NoName,
                                checkpoint |-> 0, current |-> 0]]
  /\ reply = [p \in Callers |-> [status |-> "none", changed |-> FALSE, cursor |-> 0]]
  /\ calls = 0
  /\ faults = 0

Caller(p) ==
  \/ Register(p) \/ CheckKey(p) \/ Insert(p) \/ SettleFromRow(p)
  \/ Acknowledge(p) \/ ReadCursor(p) \/ ClassifySubmitted(p) \/ Advance(p)
  \/ ReloadAndClassify(p) \/ Fault(p)

Next == SealCheckpoint \/ \E p \in Callers : Caller(p)

Spec == Init /\ [][Next]_vars

-----------------------------------------------------------------------------
(***************************************************************************)
(* Properties.                                                             *)
(***************************************************************************)

Conflicts == {"NOT_FIRST", "DUPLICATE", "REGRESSED", "SKIPPED"}

\* Every variable keeps its domain, and every cursor names a checkpoint that exists.
TypeOK ==
  /\ consumer \in [Keys -> [name : Names \cup {NoName}, cursor : 0 .. sealed]]
  /\ \A k \in Keys : ~ Exists(k) => consumer[k].cursor = 0
  /\ sealed \in 0 .. MaxCheckpoints
  /\ pc \in [Callers -> {"idle", "register", "insert", "settle", "read", "classify",
                         "update", "reload"}]
  /\ call \in [Callers -> [key : Keys, name : Names \cup {NoName}, checkpoint : Nat,
                           current : Nat]]
  /\ reply \in [Callers -> [status : {"none", "ok", "lost", "NOT_FOUND", "IDEMPOTENCY_CONFLICT"}
                                       \cup Conflicts,
                            changed : BOOLEAN, cursor : Nat]]
  /\ calls \in 0 .. MaxCalls
  /\ faults \in 0 .. MaxFaults

IsBehind(p) ==
  /\ pc[p] \in {"classify", "update", "reload"} =>
       Exists(call[p].key) /\ call[p].current <= consumer[call[p].key].cursor
  /\ pc[p] \in {"update", "reload"} =>
       call[p].checkpoint = call[p].current + 1 /\ call[p].checkpoint <= sealed
  /\ pc[p] = "reload" => call[p].current # consumer[call[p].key].cursor
  /\ pc[p] = "settle" => Exists(call[p].key)

\* What a request works with between its statements may be stale but is never
\* ahead of the row, and what it is about to write follows what it has read
\* (the reads of acknowledge_checkpoint before its conditional UPDATE).
ReadsAreBehind == \A p \in Callers : IsBehind(p)

\* However requests for one consumer overlap and retry, its cursor moves by one
\* checkpoint at a time, never back and never beyond the chain
\* (acknowledge_checkpoint; "the cursor only moves forward along the checkpoint
\* chain", README.md:303).
CursorsClimb ==
  [][\A k \in Keys :
       consumer'[k].cursor # consumer[k].cursor =>
         /\ Exists(k)
         /\ consumer'[k].cursor = consumer[k].cursor + 1
         /\ consumer'[k].cursor <= sealed
    ]_vars

\* "Exactly one transaction advances the cursor" (docstring of
\* acknowledge_checkpoint) and one registration creates the consumer: no two
\* callers are told that they made the same change.
ChangesHaveOneAuthor ==
  \A p, q \in Callers :
    /\ pc[p] = "idle" /\ reply[p].changed /\ pc[q] = "idle" /\ reply[q].changed
    /\ call[p].key = call[q].key /\ call[p].checkpoint = call[q].checkpoint
    => p = q

AnswerIsTrue(p) ==
  LET n == call[p].checkpoint
      at == reply[p].cursor
  IN  /\ at <= consumer[call[p].key].cursor
      /\ reply[p].status = "NOT_FIRST" => at = 0 /\ n > 1
      /\ reply[p].status = "DUPLICATE" => at = n
      /\ reply[p].status = "REGRESSED" => at > n
      /\ reply[p].status = "SKIPPED" => at > 0 /\ n > at + 1

\* The cursor in an answer was committed, and the reason given for a conflict is
\* right about it, also when the conflict was noticed by a lost race
\* (the two uses of _classify in acknowledge_checkpoint).
ConflictsAreTrue == \A p \in Callers : pc[p] = "idle" => AnswerIsTrue(p)

=============================================================================
