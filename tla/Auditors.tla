------------------------------ MODULE Auditors ------------------------------
(***************************************************************************)
(* External audit systems that follow the ledger as README.md describes    *)
(* under "Checkpoint event increments" and "Audit access points": they     *)
(* page through what one checkpoint newly covers, store it, and then       *)
(* acknowledge the checkpoint.                                             *)
(*                                                                         *)
(* This composes the read path (LedgerReads) with the access points        *)
(* (AuditConsumers).  The auditors are not part of the repository: their   *)
(* actions are what its README tells them to do.  Replicas of one audit    *)
(* system share an access point and an archive; each may crash and then    *)
(* knows only what the ledger and the archive keep.  No endpoint lists the *)
(* chain, so how an auditor learns the identifier of the next checkpoint   *)
(* is left open: it knows it once it is sealed.                            *)
(***************************************************************************)
EXTENDS LedgerReads

CONSTANTS
  Auditors,     \* replicas of the audit system
  AccessPoint,  \* the idempotency key of their registration
  SystemName,   \* the consumer_name of their registration
  NoName,       \* the access point is not registered
  MaxCalls      \* bound: registrations and acknowledgements

\* The page requests of a replica are requests like any other.
ASSUME AuditorsAssumption == Auditors \subseteq Readers /\ NoName # SystemName

VARIABLES
  consumer, pc, call, reply, calls,  \* access points, see AuditConsumers
  stage,    \* stage[a]: what replica a does next
  place,    \* place[a]: the checkpoint it consumes
  after,    \* after[a]: the cursor of its next page
  taken,    \* taken[a]: events of this increment it has taken
  archive   \* what the audit system has stored

C == INSTANCE AuditConsumers WITH
       Callers <- Auditors, Keys <- {AccessPoint}, Names <- {SystemName},
       MaxCheckpoints <- Cardinality(Rows), sealed <- ChainLength

accessVars == <<consumer, pc, call, reply, calls>>
auditorVars == <<stage, place, after, taken>>
allVars == <<vars, accessVars, auditorVars, archive>>

Becomes(a, label) == stage' = [stage EXCEPT ![a] = label]

\* What a replica knows of an increment that it has not begun.
Forget(a) ==
  /\ place' = [place EXCEPT ![a] = 0]
  /\ after' = [after EXCEPT ![a] = None]
  /\ taken' = [taken EXCEPT ![a] = {}]

-----------------------------------------------------------------------------
(***************************************************************************)
(* What an audit system does.                                              *)
(***************************************************************************)

Enrol(a) ==
  /\ stage[a] = "new"
  /\ Becomes(a, "enrolling")
  /\ UNCHANGED <<vars, place, after, taken, archive>>
  /\ C!Register(a)

\* A registration whose answer is lost is repeated under the same key.
Enrolled(a) ==
  /\ stage[a] = "enrolling" /\ pc[a] = "idle"
  /\ Becomes(a, IF reply[a].status = "ok" THEN "learn" ELSE "new")
  /\ UNCHANGED <<vars, accessVars, place, after, taken, archive>>

\* GET of the access point: the next checkpoint is the successor of its cursor.
Learn(a) ==
  /\ stage[a] = "learn"
  /\ consumer[AccessPoint].cursor < ChainLength
  /\ place' = [place EXCEPT ![a] = consumer[AccessPoint].cursor + 1]
  /\ Becomes(a, "pull")
  /\ UNCHANGED <<vars, accessVars, after, taken, archive>>

Pull(a) ==
  /\ stage[a] = "pull"
  /\ \E limit \in Limits : Request(a, Question("page", 0, place[a], after[a], limit))
  /\ Becomes(a, "pulling")
  /\ UNCHANGED <<queries, faults, accessVars, place, after, taken, archive>>

\* A page is there; whatever is done with it, it is then put away.
TakeAnswer(a) ==
  /\ stage[a] = "pulling" /\ rpc[a] = "idle"
  /\ answer' = [answer EXCEPT ![a] = NoAnswer]
  /\ UNCHANGED <<ledgerVars, rpc, query, queries, faults, accessVars, place>>

EventsOf(a) == {i.event : i \in answer[a].items}

\* A page is stored; next_after_sequence leads to the next one, null to the
\* acknowledgement.
TakePage(a) ==
  /\ TakeAnswer(a) /\ answer[a].status = "ok"
  /\ archive' = archive \cup EventsOf(a)
  /\ taken' = [taken EXCEPT ![a] = @ \cup EventsOf(a)]
  /\ \/ /\ answer[a].last # 0
        /\ after' = [after EXCEPT ![a] = answer[a].last]
        /\ Becomes(a, "pull")
     \/ /\ answer[a].last = 0
        /\ Becomes(a, "acknowledge")
        /\ UNCHANGED after

\* A page that was lost or refused is asked for again.
PullAgain(a) ==
  /\ TakeAnswer(a) /\ answer[a].status # "ok"
  /\ Becomes(a, "pull")
  /\ UNCHANGED <<after, taken, archive>>

Acknowledge(a) ==
  /\ stage[a] = "acknowledge"
  /\ Becomes(a, "acknowledging")
  /\ UNCHANGED <<vars, place, after, taken, archive>>
  /\ C!Acknowledge(a)
  /\ call'[a].checkpoint = place[a]

\* Acknowledged, or lost, or refused because another replica was faster: the
\* cursor of the access point says what is next.
Acknowledged(a) ==
  /\ stage[a] = "acknowledging" /\ pc[a] = "idle"
  /\ Becomes(a, "learn")
  /\ Forget(a)
  /\ UNCHANGED <<vars, accessVars, archive>>

\* A replica dies between its requests; what it has stored stays.
Crash(a) ==
  /\ rpc[a] = "idle" /\ pc[a] = "idle" /\ stage[a] # "new"
  /\ faults < MaxFaults
  /\ faults' = faults + 1
  /\ Becomes(a, "new")
  /\ Forget(a)
  /\ answer' = [answer EXCEPT ![a] = NoAnswer]
  /\ UNCHANGED <<ledgerVars, rpc, query, queries, accessVars, archive>>

-----------------------------------------------------------------------------
AccessRuns(a) ==
  /\ UNCHANGED <<ledgerVars, readVars, queries, auditorVars, archive>>
  /\ \/ C!CheckKey(a) \/ C!Insert(a) \/ C!SettleFromRow(a)
     \/ C!ReadCursor(a) \/ C!ClassifySubmitted(a) \/ C!Advance(a) \/ C!ReloadAndClassify(a)

AccessFault(a) ==
  /\ UNCHANGED <<ledgerVars, readVars, queries, auditorVars, archive>>
  /\ C!Fault(a)

PageRuns(a) == ReaderRuns(a) /\ UNCHANGED <<accessVars, auditorVars, archive>>

PageFault(a) == Fault(a) /\ UNCHANGED <<accessVars, auditorVars, archive>>

LedgerGrows == (CommitEvent \/ SealCheckpoint) /\ UNCHANGED <<accessVars, auditorVars, archive>>

AuditorRuns(a) ==
  \/ Enrol(a) \/ Enrolled(a) \/ Learn(a) \/ Pull(a) \/ TakePage(a) \/ PullAgain(a)
  \/ Acknowledge(a) \/ Acknowledged(a) \/ AccessRuns(a) \/ PageRuns(a)

AuditInit ==
  /\ ReadsInit
  /\ C!Init
  /\ stage = [a \in Auditors |-> "new"]
  /\ place = [a \in Auditors |-> 0]
  /\ after = [a \in Auditors |-> None]
  /\ taken = [a \in Auditors |-> {}]
  /\ archive = {}

AuditNext ==
  \/ LedgerGrows
  \/ \E a \in Auditors : AuditorRuns(a) \/ AccessFault(a) \/ PageFault(a) \/ Crash(a)

AuditSpec == AuditInit /\ [][AuditNext]_allVars

\* A running audit system goes on: its requests are answered and it follows them up.
\* Nothing obliges the ledger to grow, or anything to fail.
AuditFairSpec == AuditSpec /\ \A a \in Auditors : WF_allVars(AuditorRuns(a))

-----------------------------------------------------------------------------
(***************************************************************************)
(* Properties.                                                             *)
(***************************************************************************)

\* What the ledger records as consumed really was: every event up to the cursor of
\* the access point is in the archive of the audit system, whatever crashed, was
\* lost or was repeated, and although checkpoints were sealed between two pages
\* (next_after_sequence of build_checkpoint_event_page, acknowledge_checkpoint).
AcknowledgedIsStored == Boundary(consumer[AccessPoint].cursor) \subseteq archive

IsTakenExactly(a) ==
  /\ taken[a] \subseteq archive
  /\ stage[a] \notin {"new", "enrolling", "learn"} => place[a] \in 1 .. ChainLength
  /\ stage[a] \in {"pull", "pulling"} =>
       taken[a] = {e \in Increment(place[a]) : after[a] # None /\ e.seq <= after[a]}
  /\ stage[a] \in {"acknowledge", "acknowledging"} => taken[a] = Increment(place[a])

\* What a replica has taken is the part of the increment up to its cursor, no event
\* of a neighbouring increment among it, and all of it when next_after_sequence is
\* null; it is stored before anything is acknowledged, and a place in the chain, once
\* learned, stays the one the pages are about (build_checkpoint_event_page).
TakenIsExact == \A a \in Auditors : IsTakenExactly(a)

\* A client that only uses the cursors, checkpoints and keys it was given is never
\* told that they are wrong: no INVALID_CURSOR or NOT_FOUND for a page, no skip or
\* unknown checkpoint for an acknowledgement (build_checkpoint_event_page, _classify).
GivenCursorsAreGood ==
  \A a \in Auditors :
    /\ answer[a].status \notin {"INVALID_CURSOR", "NOT_FOUND"}
    /\ reply[a].status \notin {"NOT_FOUND", "NOT_FIRST", "SKIPPED", "IDEMPOTENCY_CONFLICT"}

\* As long as a replica lives, an event reaches it once and in sequence order, from
\* whatever page sizes it asks for and whatever is committed and sealed between the
\* pages (candidates and next_after_sequence of build_checkpoint_event_page).
PagesContinue ==
  [][\A a \in Auditors :
       taken'[a] # taken[a] /\ taken'[a] # {} =>
         \A e \in EventsOf(a), f \in taken[a] : f.seq < e.seq
    ]_allVars

\* An audit system that is behind catches up with the chain whenever the ledger
\* pauses, if only one process of the API that its replicas reach has the keys:
\* neither races between the replicas nor a crash, a lost page or a lost answer can
\* stop the cursor (acknowledge_checkpoint, build_checkpoint_event_page).
CursorCatchesUp ==
  consumer[AccessPoint].cursor < ChainLength ~> consumer[AccessPoint].cursor = ChainLength

-----------------------------------------------------------------------------
(***************************************************************************)
(* Why they hold, as facts that every step keeps.                          *)
(***************************************************************************)

Stages == {"new", "enrolling", "learn", "pull", "pulling", "acknowledge", "acknowledging"}

Enrolling == {"register", "insert", "settle"}

Acknowledging == {"read", "classify", "update", "reload"}

\* The access point and the requests to it.
AccessTypeOK ==
  /\ consumer \in [{AccessPoint} -> [name : {SystemName, NoName}, cursor : 0 .. ChainLength]]
  /\ ~ C!Exists(AccessPoint) => consumer[AccessPoint].cursor = 0
  /\ pc \in [Auditors -> {"idle"} \cup Enrolling \cup Acknowledging]
  /\ call \in [Auditors -> [key : {AccessPoint}, name : {SystemName, NoName}, checkpoint : Nat,
                             current : Nat]]
  /\ reply \in [Auditors -> [status : {"none", "ok", "lost", "DUPLICATE", "REGRESSED"},
                              changed : BOOLEAN, cursor : Nat]]
  /\ calls \in Nat

\* The variables of the replicas; those of the ledger and its readers are in TypeOK.
AuditTypeOK ==
  /\ AccessTypeOK
  /\ stage \in [Auditors -> Stages]
  /\ place \in [Auditors -> 0 .. ChainLength]
  /\ after \in [Auditors -> {None} \cup Nat]
  /\ taken \in [Auditors -> SUBSET log]
  /\ archive \subseteq log

\* A replica never runs ahead of its access point, and what a request of it has read
\* may be behind the row but is what its checkpoint succeeds.
AccessIsExact(a) ==
  /\ C!IsBehind(a)
  /\ pc[a] \in Enrolling => stage[a] = "enrolling" /\ call[a].name = SystemName
  /\ pc[a] \in Acknowledging => stage[a] = "acknowledging" /\ call[a].checkpoint = place[a]
  /\ pc[a] = "classify" => place[a] <= call[a].current + 1
  /\ stage[a] \notin {"new", "enrolling"} \/ reply[a].status = "ok" => C!Exists(AccessPoint)
  /\ place[a] <= consumer[AccessPoint].cursor + 1

\* The page that a replica waits for, or has in hand, is the next one: it was asked for
\* with the cursor behind everything taken so far, which is an event of the increment.
PagingIsExact(a) ==
  /\ stage[a] \in {"new", "enrolling", "learn"} =>
       place[a] = 0 /\ after[a] = None /\ taken[a] = {}
  /\ stage[a] # "pulling" => rpc[a] = "idle"
  /\ stage[a] # "pulling" \/ rpc[a] # "idle" => answer[a] = NoAnswer
  /\ stage[a] \in {"pull", "pulling"} =>
       after[a] = None \/ \E e \in Increment(place[a]) : e.seq = after[a]
  /\ stage[a] = "pulling" =>
       LET asked == IF rpc[a] = "idle" THEN answer[a].asked ELSE query[a].asked
       IN  \E limit \in Limits : asked = Question("page", 0, place[a], after[a], limit)

\* What an audit system relies on that follows the ledger through pages and an access
\* point: cursors lead on without a gap (build_checkpoint_event_page), the place of a
\* checkpoint stays, and the row of the access point is moved only by the comparison
\* of acknowledge_checkpoint.
AuditorsAreInductive ==
  /\ ReadsAreInductive
  /\ AuditTypeOK
  /\ AcknowledgedIsStored
  /\ TakenIsExact
  /\ GivenCursorsAreGood
  /\ \A a \in Auditors : AccessIsExact(a) /\ PagingIsExact(a)

=============================================================================
