----------------------------- MODULE LedgerReads -----------------------------
(***************************************************************************)
(* The read path: receipts, checkpoints, pages of a checkpoint's increment *)
(* and record histories that the API serves, and the receipts an exporter  *)
(* collects for an archive, while the ledger goes on growing.              *)
(*                                                                         *)
(* The ledger is the log of LedgerLog, which its write path implements     *)
(* (ImplementsLog in Ledger).  Checkpoints form one chain, so a checkpoint *)
(* is known by its place n in it; 0 is none.                               *)
(*                                                                         *)
(* A reader is one request with its session.  It holds no lock: every      *)
(* statement sees what is committed when it runs.  A step is one statement *)
(* and the Python up to the next; the lookup of a checkpoint row by its    *)
(* identifier goes with the step before it, because such a row never       *)
(* changes.  A root is the set of events under it, and MCReceipts checks   *)
(* the trees, proofs and signatures behind that.                           *)
(***************************************************************************)
EXTENDS LedgerLog, FiniteSets

CONSTANTS
  Readers,     \* concurrent requests that read
  Rows,        \* bound: the events that may be committed
  Versions,    \* signing key versions
  Keyring,     \* Keyring[r]: key versions of the process that serves r
  Limits,      \* page sizes that clients ask for
  MaxQueries,  \* bound: requests in a behaviour
  MaxFaults    \* bound: processes or connections that die

ASSUME ReadsAssumption ==
  /\ \A e \in Rows : e.seq \in Nat \ {0}
  /\ Keyring \in [Readers -> SUBSET Versions]
  /\ Limits \subseteq Nat \ {0}
  /\ MaxQueries \in Nat
  /\ MaxFaults \in Nat

VARIABLES
  signedBy,  \* signedBy[p]: key version of the checkpoint over the prefix p
  rpc,       \* rpc[r]: next statement of reader r
  query,     \* query[r]: parameters and local variables of r
  answer,    \* answer[r]: what r asked last and was answered
  queries,   \* requests so far
  faults     \* faults so far

ledgerVars == <<log, prefixes, signedBy>>
readVars == <<rpc, query, answer>>
vars == <<log, prefixes, signedBy, rpc, query, answer, queries, faults>>

None == -1  \* after_sequence was omitted

LastSeq(S) == IF S = {} THEN 0 ELSE CHOOSE n \in {e.seq : e \in S} : \A e \in S : e.seq <= n

Before(n, S) == {e \in S : e.seq < n}

\* ORDER BY sequence LIMIT n.
Oldest(n, S) == {e \in S : Cardinality(Before(e.seq, S)) < n}

ChainLength == Cardinality(prefixes)

\* The events under the n-th checkpoint of the chain.
Boundary(n) == UNION {p \in prefixes : Cardinality({q \in prefixes : q \subseteq p}) <= n}

\* The events that the n-th checkpoint covers and its predecessor does not.
Increment(n) == Boundary(n) \ Boundary(n - 1)

-----------------------------------------------------------------------------
(***************************************************************************)
(* The ledger grows.  Rows of one call that appear together may as well    *)
(* appear one by one.                                                      *)
(***************************************************************************)

CommitEvent ==
  /\ \E e \in Rows \ log : log' = log \cup {e}
  /\ AppendEvents
  /\ UNCHANGED <<signedBy, readVars, queries, faults>>

SealCheckpoint ==
  \E e \in log \ Sealed, v \in Versions :
    /\ prefixes' = prefixes \cup {{f \in log : f.seq <= e.seq}}
    /\ SealPrefix
    /\ signedBy' = [p \in prefixes' |-> IF p \in prefixes THEN signedBy[p] ELSE v]
    /\ UNCHANGED <<readVars, queries, faults>>

-----------------------------------------------------------------------------
(***************************************************************************)
(* Requests and answers.                                                   *)
(***************************************************************************)

\* What is read (an event, a record or an instrument), at which checkpoint,
\* from where and how much of it.
Question(kind, subject, at, after, limit) ==
  [kind |-> kind, subject |-> subject, at |-> at, after |-> after, limit |-> limit]

Nothing == Question("nothing", 0, 0, None, 1)

\* A request that starts: its question, the checkpoint it works at, the prefix it
\* has read, and for a bundle the events without a receipt and the receipts.
Started(q) == [asked |-> q, at |-> q.at, prefix |-> {}, rest |-> {}, items |-> {}]

FirstStatement(kind) ==
  CASE kind = "receipt" -> "event" [] kind = "record" -> "record" [] OTHER -> "target"

Request(r, q) ==
  /\ rpc[r] = "idle"
  /\ rpc' = [rpc EXCEPT ![r] = FirstStatement(q.kind)]
  /\ query' = [query EXCEPT ![r] = Started(q)]
  /\ UNCHANGED <<ledgerVars, answer>>

Goto(r, label) == rpc' = [rpc EXCEPT ![r] = label] /\ UNCHANGED answer

\* last is next_after_sequence of a page, 0 for null, or the event that gives the
\* current state of a record.
Reply(r, status, items, last) ==
  /\ rpc' = [rpc EXCEPT ![r] = "idle"]
  /\ query' = [query EXCEPT ![r] = Started(Nothing)]
  /\ answer' = [answer EXCEPT ![r] =
                  [asked |-> query[r].asked, status |-> status, items |-> items, last |-> last]]

NoAnswer == [asked |-> Nothing, status |-> "none", items |-> {}, last |-> 0]

Refuse(r, status) == Reply(r, status, {}, 0)

\* A sealed receipt gives the place of its event in the tree; checkpoint 0
\* stands for a receipt that is pending.
Receipt(e, n, rows) ==
  [event |-> e, checkpoint |-> n, index |-> Cardinality(Before(e.seq, rows))]

Unwitnessed(e) == [event |-> e, checkpoint |-> 0, index |-> 0]

\* What clients may ask.  They know events, records and checkpoints from earlier
\* answers, or name something unknown; a package is created only for an instrument
\* that its boundary covers.
Questions ==
  LET events == {e.seq : e \in log} \cup {0}
      places == 1 .. ChainLength + 1
  IN  {Question("receipt", n, 0, None, 1) : n \in events}
        \cup {Question("record", e.record, 0, None, 1) : e \in log}
        \cup {Question("checkpoint", 0, n, None, 1) : n \in places}
        \cup {Question("page", 0, n, after, limit) :
                n \in places, after \in {None} \cup 0 .. LastSeq(log) + 1, limit \in Limits}
        \cup UNION {{Question("bundle", e.instrument, n, None, 1) : e \in Boundary(n)} :
                      n \in 1 .. ChainLength}

Ask(r) ==
  /\ queries < MaxQueries
  /\ queries' = queries + 1
  /\ \E q \in Questions : Request(r, q)
  /\ UNCHANGED faults

-----------------------------------------------------------------------------
(***************************************************************************)
(* Statements.                                                             *)
(***************************************************************************)

WithSeq(n) == {e \in log : e.seq = n}

\* build_receipt: the event...
FindEvent(r) ==
  /\ rpc[r] = "event"
  /\ \/ WithSeq(query[r].asked.subject) = {} /\ Refuse(r, "NOT_FOUND")
     \/ WithSeq(query[r].asked.subject) # {} /\ Goto(r, "newest") /\ UNCHANGED query
  /\ UNCHANGED <<ledgerVars, queries, faults>>

EventOf(r) == CHOOSE e \in log : e.seq = query[r].asked.subject

\* Mutant: the last checkpoint, whether it counts the event or not.
Covering_Newest(n) == 1 .. ChainLength

\* Checkpoints whose boundary is not below the event.
Covering(n) == {c \in 1 .. ChainLength : LastSeq(Boundary(c)) >= n}

\* Mutant: no particular order.
ByLeafCount_Unordered(S) == S

\* ORDER BY leaf_count DESC LIMIT 1
ByLeafCount(S) == {c \in S : \A d \in S : Cardinality(Boundary(d)) <= Cardinality(Boundary(c))}

\* ... and the checkpoint with the most leaves that covers it.
FindNewest(r) ==
  /\ rpc[r] = "newest"
  /\ LET covering == Covering(query[r].asked.subject)
     IN  \/ covering = {} /\ Reply(r, "ok", {Unwitnessed(EventOf(r))}, 0)
         \/ \E c \in ByLeafCount(covering) :
              /\ query' = [query EXCEPT ![r].at = c]
              /\ Goto(r, "prefix")
  /\ UNCHANGED <<ledgerVars, queries, faults>>

\* Mutant: the checkpoint is not looked up.
IsKnown_Assumed(n) == TRUE

IsKnown(n) == n \in 1 .. ChainLength

IncrementStart(n) == LastSeq(Boundary(n - 1))

Cursor(q) == IF q.after = None THEN IncrementStart(q.at) ELSE q.after

\* Mutant: the start of the increment is no valid cursor.
Misplaced_AtStart(q) ==
  q.kind = "page" /\ Cursor(q) \notin IncrementStart(q.at) + 1 .. LastSeq(Boundary(q.at))

Misplaced(q) ==
  q.kind = "page" /\ Cursor(q) \notin IncrementStart(q.at) .. LastSeq(Boundary(q.at))

\* The checkpoint a request names, and for a page the range of its cursor.  The
\* boundary of a package always exists (foreign key).
FindTarget(r) ==
  /\ rpc[r] = "target"
  /\ LET q == query[r].asked
     IN  \/ ~ IsKnown(q.at) /\ Refuse(r, "NOT_FOUND")
         \/ IsKnown(q.at) /\ Misplaced(q) /\ Refuse(r, "INVALID_CURSOR")
         \/ /\ IsKnown(q.at) /\ ~ Misplaced(q)
            /\ Goto(r, IF q.kind = "bundle" THEN "instrument" ELSE "prefix")
            /\ UNCHANGED query
  /\ UNCHANGED <<ledgerVars, queries, faults>>

\* Mutant: an archive takes every event of the instrument.
InstrumentEvents_All(instrument, n) == {e \in log : e.instrument = instrument}

InstrumentEvents(instrument, n) ==
  {e \in log : e.instrument = instrument /\ e.seq <= LastSeq(Boundary(n))}

\* _load_bundle: the events an archive is made of.
ReadInstrument(r) ==
  /\ rpc[r] = "instrument"
  /\ LET rows == InstrumentEvents(query[r].asked.subject, query[r].at)
     IN  \/ rows = {} /\ Refuse(r, "AUDIT_BOUNDARY_EMPTY")
         \/ /\ rows # {}
            /\ query' = [query EXCEPT ![r].rest = rows]
            /\ Goto(r, "prefix")
  /\ UNCHANGED <<ledgerVars, queries, faults>>

\* Mutant: the prefix is everything that is committed.
PrefixRows_All(n) == log

\* _validated_prefix: the rows up to the boundary of a checkpoint...
PrefixRows(n) == {e \in log : e.seq <= LastSeq(Boundary(n))}

\* ... and the checks of its leaf count, its root and its key, in their order.  The
\* checks of single leaves, signatures and links compare a row with itself as it was
\* written, and rows are never changed; MCReceipts checks the functions behind them.
Validation(r, n, rows) ==
  CASE Cardinality(rows) # Cardinality(Boundary(n)) \/ rows = {} -> "CHECKPOINT_CORRUPT"
    [] rows # Boundary(n) -> "CHECKPOINT_CORRUPT"
    [] signedBy[Boundary(n)] \notin Keyring[r] -> "UNKNOWN_KEY_VERSION"
    [] OTHER -> "ok"

\* Mutant: a page starts at its cursor instead of after it.
Candidates_FromCursor(q, rows) == {e \in rows : e.seq >= Cursor(q)}

Candidates(q, rows) == {e \in rows : e.seq > Cursor(q)}

\* Mutant: one event too few to be worth another page.
NextAfter_OneShort(q, rows, page) ==
  IF Cardinality(Candidates(q, rows)) > q.limit + 1 THEN LastSeq(page) ELSE 0

\* Mutant: the last page gives the boundary in place of null.
NextAfter_Boundary(q, rows, page) == LastSeq(rows)

\* has_more and next_after_sequence, 0 for null.
NextAfter(q, rows, page) ==
  IF Cardinality(Candidates(q, rows)) > q.limit THEN LastSeq(page) ELSE 0

\* build_checkpoint_event_page: a slice of the prefix, and where to go on.
ReplyPage(r, q, rows) ==
  LET page == Oldest(q.limit, Candidates(q, rows))
  IN  Reply(r, "ok", {Receipt(e, q.at, rows) : e \in page}, NextAfter(q, rows, page))

\* Both prefixes are valid: what is answered, or the next receipt of a bundle.
Render(r, rows) ==
  LET q == query[r]
      e == IF q.asked.kind = "receipt" THEN EventOf(r)
           ELSE CHOOSE f \in q.rest : \A g \in q.rest : f.seq <= g.seq
      receipt == Receipt(e, q.at, rows)
  IN  \/ q.asked.kind = "checkpoint" /\ Reply(r, "ok", {}, 0)
      \/ q.asked.kind = "page" /\ ReplyPage(r, q.asked, rows)
      \/ q.asked.kind \in {"receipt", "bundle"} /\ e \notin rows /\ Refuse(r, "CHECKPOINT_CORRUPT")
      \/ /\ q.asked.kind \in {"receipt", "bundle"} /\ e \in rows /\ q.rest \subseteq {e}
         /\ Reply(r, "ok", q.items \cup {receipt}, 0)
      \/ /\ q.asked.kind = "bundle" /\ e \in rows /\ q.rest # {e}
         /\ query' = [query EXCEPT ![r].items = @ \cup {receipt}, ![r].rest = @ \ {e},
                                   ![r].prefix = {}]
         /\ Goto(r, "prefix")

\* The prefix of the checkpoint; the first one has no predecessor.
ReadPrefix(r) ==
  /\ rpc[r] = "prefix"
  /\ LET rows == PrefixRows(query[r].at)
         verdict == Validation(r, query[r].at, rows)
     IN  \/ verdict # "ok" /\ Refuse(r, verdict)
         \/ verdict = "ok" /\ query[r].at = 1 /\ Render(r, rows)
         \/ /\ verdict = "ok" /\ query[r].at # 1
            /\ query' = [query EXCEPT ![r].prefix = rows]
            /\ Goto(r, "previous")
  /\ UNCHANGED <<ledgerVars, queries, faults>>

\* build_consistency_bundle: the prefix of its predecessor.
ReadPrevious(r) ==
  /\ rpc[r] = "previous"
  /\ LET n == query[r].at - 1
         verdict == Validation(r, n, PrefixRows(n))
     IN  \/ verdict # "ok" /\ Refuse(r, verdict)
         \/ verdict = "ok" /\ Render(r, query[r].prefix)
  /\ UNCHANGED <<ledgerVars, queries, faults>>

\* get_record: the events of a record, the last of which is its current state.
ReadRecord(r) ==
  /\ rpc[r] = "record"
  /\ LET rows == {e \in log : e.record = query[r].asked.subject}
     IN  \/ rows = {} /\ Refuse(r, "NOT_FOUND")
         \/ rows # {} /\ Reply(r, "ok", {Unwitnessed(e) : e \in rows}, LastSeq(rows))
  /\ UNCHANGED <<ledgerVars, queries, faults>>

\* The process or its connection dies, or the answer is lost.
Fault(r) ==
  /\ rpc[r] # "idle"
  /\ faults < MaxFaults
  /\ faults' = faults + 1
  /\ Refuse(r, "lost")
  /\ UNCHANGED <<ledgerVars, queries>>

-----------------------------------------------------------------------------
ReaderRuns(r) ==
  \/ FindEvent(r) \/ FindNewest(r) \/ FindTarget(r) \/ ReadInstrument(r)
  \/ ReadPrefix(r) \/ ReadPrevious(r) \/ ReadRecord(r)

ReadsInit ==
  /\ Init
  /\ signedBy = [p \in {} |-> ""]
  /\ rpc = [r \in Readers |-> "idle"]
  /\ query = [r \in Readers |-> Started(Nothing)]
  /\ answer = [r \in Readers |-> NoAnswer]
  /\ queries = 0
  /\ faults = 0

ReadsNext ==
  \/ CommitEvent
  \/ SealCheckpoint
  \/ \E r \in Readers : Ask(r) \/ ReaderRuns(r) \/ Fault(r)

ReadsSpec == ReadsInit /\ [][ReadsNext]_vars

-----------------------------------------------------------------------------
(***************************************************************************)
(* Properties.                                                             *)
(***************************************************************************)

Kinds == {"nothing", "receipt", "record", "checkpoint", "page", "bundle"}

Labels == {"idle", "event", "newest", "target", "instrument", "prefix", "previous", "record"}

Statuses == {"none", "ok", "lost", "NOT_FOUND", "INVALID_CURSOR", "AUDIT_BOUNDARY_EMPTY",
             "CHECKPOINT_CORRUPT", "UNKNOWN_KEY_VERSION"}

Subjects == {0} \cup UNION {{e.seq, e.record, e.instrument} : e \in Rows}

Asking == [kind : Kinds, subject : Subjects, at : Nat, after : Nat \cup {None}, limit : Nat \ {0}]

Receipts == [event : log, checkpoint : 0 .. ChainLength, index : Nat]

Querying ==
  [asked : Asking, at : Nat, prefix : SUBSET log, rest : SUBSET log, items : SUBSET Receipts]

Answering == [asked : Asking, status : Statuses, items : SUBSET Receipts, last : Nat]

\* Every variable keeps its domain: what a request holds between two statements and
\* what it answers is committed, at a checkpoint that exists (the reads of proofs.py).
TypeOK ==
  /\ log \subseteq Rows
  /\ prefixes \subseteq SUBSET log
  /\ signedBy \in [prefixes -> Versions]
  /\ rpc \in [Readers -> Labels]
  /\ query \in [Readers -> Querying]
  /\ answer \in [Readers -> Answering]
  /\ queries \in 0 .. MaxQueries
  /\ faults \in 0 .. MaxFaults

\* A request whose process lacks a key it would need.
LacksKey(r, n) ==
  \E c \in {n - 1, n} \cap 1 .. ChainLength : signedBy[Boundary(c)] \notin Keyring[r]

IsNoFalseAlarm(r, a) ==
  /\ a.status \notin {"CHECKPOINT_CORRUPT", "AUDIT_BOUNDARY_EMPTY"}
  /\ a.status = "UNKNOWN_KEY_VERSION" =>
       IF a.asked.kind = "receipt" THEN \E n \in 1 .. ChainLength : LacksKey(r, n)
       ELSE LacksKey(r, a.asked.at)

\* While events are committed and sealed around it, a read never takes the honest
\* ledger for a damaged one: _validated_prefix and build_receipt_at_checkpoint find
\* no corruption, an archive is not empty (_load_bundle), and a key is missing only
\* where the process lacks the key of the checkpoint or of its predecessor.
NoFalseAlarms == \A r \in Readers : IsNoFalseAlarm(r, answer[r])

Witnessed(i) == i.event \in Boundary(i.checkpoint) /\
  i.index = Cardinality({e \in Boundary(i.checkpoint) : e.seq < i.event.seq})

\* The rest of the increment that a page question asks about.
Asked(q) == {e \in Increment(q.at) : q.after = None \/ e.seq > q.after}

PageIsExact(q, events, last) ==
  /\ events \subseteq Asked(q)
  /\ Cardinality(events) <= q.limit
  /\ IF last = 0 THEN events = Asked(q)
     ELSE events = {e \in Asked(q) : e.seq <= last} /\ \E e \in events : e.seq = last

HistoryIsLine(subject, events, last) ==
  /\ \A e \in log : e.record = subject /\ e.seq <= last => e \in events
  /\ \A e \in events : e.seq # last => \E f \in events : f.parent = e.seq
  /\ \A e \in events : e.type = "revocation" => \A f \in log : f.parent # e.seq

\* The events that a bundle about an instrument has to witness.
Collected(q) == {e \in Boundary(q.at) : e.instrument = q.subject}

AnswerIsTrue(a) ==
  LET q == a.asked
      events == {i.event : i \in a.items}
  IN  a.status = "ok" =>
        /\ q.kind # "record" => \A i \in a.items : i.checkpoint # 0 => Witnessed(i)
        /\ q.kind = "page" => PageIsExact(q, events, a.last)
        /\ q.kind = "bundle" => events = Collected(q)
        /\ q.kind = "record" => HistoryIsLine(q.subject, events, a.last)

\* Whatever is committed and sealed later, an answer stays exact: a receipt gives
\* the leaf its event has in the tree of its checkpoint, a page the events of the
\* increment behind its cursor ("events or checkpoints committed later can never
\* change the result of repeating the same page request", build_checkpoint_event_page),
\* an archive all events of its instrument up to its boundary and no other
\* (_load_bundle), a record a first part of its line, which ends for good at a
\* revocation (get_record).
AnswersStayTrue == \A r \in Readers : AnswerIsTrue(answer[r])

\* The checkpoint of the receipt a reader holds, if it asked for one.
WitnessOf(a) == {i.checkpoint : i \in a.items}

\* A caller that asks for a receipt again is never answered less than before: an
\* event that was sealed is not pending, and its checkpoint is not an older one
\* (the newest covering checkpoint of build_receipt).
WitnessesAreNeverWithdrawn ==
  [][\A r \in Readers :
       LET old == answer[r]
           new == answer'[r]
       IN  old.asked.kind = "receipt" /\ new.asked = old.asked
             /\ old.status = "ok" /\ new.status = "ok"
           => \A m \in WitnessOf(old), n \in WitnessOf(new) : m <= n
    ]_vars

-----------------------------------------------------------------------------
(***************************************************************************)
(* Why they hold, as facts that every step keeps.                          *)
(***************************************************************************)

\* What Append makes of the log: numbers are unique, and a record is a line from its
\* report to its last event, every other one of which has a successor.
LogIsOfLines ==
  /\ IsFiniteSet(log)
  /\ \A e, f \in log : e.seq = f.seq => e = f
  /\ \A e \in log :
       /\ \E f \in log : f.seq = e.record
       /\ IF e.parent = 0 THEN e.record = e.seq
          ELSE \E p \in log : /\ p.seq = e.parent /\ p.seq < e.seq
                              /\ p.record = e.record /\ p.type # "revocation"
  /\ \A e, f \in log :
       e.record = f.record /\ e.seq < f.seq => \E g \in log : g.parent = e.seq /\ g.record = e.record

\* A sealed prefix ends with one of its events.
PrefixesHaveEnds == \A p \in prefixes : \E e \in p : p = {f \in log : f.seq <= e.seq}

Serves(label) ==
  CASE label = "idle" -> {"nothing"}
    [] label \in {"event", "newest"} -> {"receipt"}
    [] label = "record" -> {"record"}
    [] label = "target" -> {"checkpoint", "page", "bundle"}
    [] label = "instrument" -> {"bundle"}
    [] OTHER -> {"receipt", "checkpoint", "page", "bundle"}

\* A bundle is complete once its receipts and the events without one are all that
\* is to be collected.
BundleIsExact(label, q) ==
  /\ q.at \in 1 .. ChainLength /\ Collected(q.asked) # {}
  /\ label \in {"target", "instrument"} => q.items = {}
  /\ label \in {"prefix", "previous"} =>
       /\ q.rest # {}
       /\ Collected(q.asked) = q.rest \cup {i.event : i \in q.items}
       /\ \A i \in q.items : i.checkpoint = q.at /\ Witnessed(i)

\* Between two statements, what a request was asked and has read agrees with what
\* the ledger holds at its checkpoint, however far the ledger has gone on.
QueryIsExact(label, q) ==
  /\ q.asked.kind \in Serves(label)
  /\ label = "newest" => WithSeq(q.asked.subject) # {}
  /\ q.asked.kind \in {"checkpoint", "page", "bundle"} => q.at = q.asked.at
  /\ IF q.asked.kind = "bundle" THEN BundleIsExact(label, q) ELSE q.rest = {} /\ q.items = {}
  /\ label \in {"prefix", "previous"} =>
       /\ q.at \in 1 .. ChainLength
       /\ q.asked.kind = "receipt" => \E e \in Boundary(q.at) : e.seq = q.asked.subject
       /\ ~ Misplaced(q.asked)
  /\ label = "previous" => q.at # 1 /\ q.prefix = Boundary(q.at)

\* An answer says which part of the ledger it is about.
AnswerIsPlaced(a) ==
  LET events == {i.event : i \in a.items}
  IN  a.status = "ok" =>
        /\ a.asked.kind \in {"page", "bundle"} => a.asked.at \in 1 .. ChainLength
        /\ a.asked.kind = "receipt" =>
             \E i \in a.items : a.items = {i} /\ i.event.seq = a.asked.subject
        /\ a.asked.kind = "record" =>
             /\ events = {e \in log : e.record = a.asked.subject /\ e.seq <= a.last}
             /\ \E e \in events : e.seq = a.last

\* A receipt that is being built again is built at a checkpoint that is not older.
NextWitnessIsNewer(label, q, a) ==
  /\ label \in {"prefix", "previous"} /\ q.asked.kind = "receipt"
  /\ a.status = "ok" /\ a.asked = q.asked
  => \A n \in WitnessOf(a) : n <= q.at

\* What readers rely on without a lock or a snapshot (_validated_prefix,
\* build_receipt, _load_bundle): the log and its prefixes only grow at their ends, so
\* what a request has read, and what it was answered, is never overtaken.
ReadsAreInductive ==
  /\ TypeOK
  /\ LogIsOfLines
  /\ PrefixesHaveEnds
  /\ NoFalseAlarms
  /\ \A r \in Readers :
       /\ QueryIsExact(rpc[r], query[r])
       /\ AnswerIsTrue(answer[r]) /\ AnswerIsPlaced(answer[r])
       /\ NextWitnessIsNewer(rpc[r], query[r], answer[r])

=============================================================================
