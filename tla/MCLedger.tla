------------------------------ MODULE MCLedger ------------------------------
(***************************************************************************)
(* Instances of Ledger for TLC.  Each set of calls below is chosen for one *)
(* question; a configuration file picks it for the constant Calls.         *)
(***************************************************************************)
EXTENDS Ledger

CONSTANTS w1, w2, w3, s1, s2, k1, k2, k3, a, b, i1, i2, v1, v2

Report(k, c) ==
  [type |-> "report", key |-> k, parent |-> NoEvent, instrument |-> i1, content |-> c]

Revision(k, p, i) ==
  [type |-> "revision", key |-> k, parent |-> p, instrument |-> i, content |-> a]

Revocation(k, p) ==
  [type |-> "revocation", key |-> k, parent |-> p, instrument |-> NoInstrument, content |-> a]

Single(s) == [api |-> "single", items |-> <<s>>]

Batch(items) == [api |-> "batch", items |-> items]

\* One report and everything that can follow it.
RecordCalls ==
  {Single(Report(k1, a)),
   Single(Revision(k2, 1, i1)), Single(Revision(k3, 1, i1)), Single(Revision(k2, 1, i2)),
   Single(Revision(k3, 2, i1)), Single(Revocation(k2, 1)), Single(Revocation(k3, 2)),
   Single(Revocation(k3, UnknownEvent))}

\* Racing submissions: one key with one or two contents, batches that take the
\* same keys in opposite orders, that fold a key and that collide with themselves,
\* together with everything that can follow a report.  The batch of three keys can
\* lose two of them and use up its attempts.
RaceCalls ==
  RecordCalls \cup
  {Single(Report(k2, b)),
   Batch(<<Report(k1, a), Report(k2, a), Report(k3, a)>>),
   Batch(<<Report(k2, a), Report(k1, a), Report(k2, a)>>),
   Batch(<<Report(k1, a), Report(k1, b)>>)}

\* Events alone and in pairs, for the sealers; a lost race for a key leaves a
\* gap in the numbers, and the pair may be refused after its first row was flushed.
SealCalls ==
  {Single(Report(k1, a)), Single(Report(k3, b)), Batch(<<Report(k2, a), Report(k3, a)>>)}

\* Batches that deadlock on each other's keys, and a record to extend.
LiveCalls ==
  {Batch(<<Report(k1, a), Report(k2, a)>>), Batch(<<Report(k2, a), Report(k1, a)>>),
   Single(Revision(k3, 1, i1)), Single(Revocation(k2, 1))}

\* Key rotation: s2 runs with the new key and still knows the old one.
RotatingKeyring == [s \in Sealers |-> IF s = s1 THEN {v1} ELSE {v1, v2}]
RotatingKey == [s \in Sealers |-> IF s = s1 THEN v1 ELSE v2]

\* Every replica configured alike.
OneKeyring == [s \in Sealers |-> {v1}]
OneKey == [s \in Sealers |-> v1]

\* Every committed event comes under a checkpoint (the poll loop of sealer.py):
\* with the calls of the liveness run no sequence number exceeds 5.
EveryEventIsSealed == \A n \in 1 .. 5 : IsSealedEventually(n)

=============================================================================
