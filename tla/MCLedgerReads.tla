---------------------------- MODULE MCLedgerReads ----------------------------
(***************************************************************************)
(* Instances of LedgerReads for TLC.                                       *)
(***************************************************************************)
EXTENDS LedgerReads

CONSTANTS r1, v1, v2, i1, i2

Event(seq, type, parent, record, instrument) ==
  [seq |-> seq, key |-> seq, type |-> type, parent |-> parent, record |-> record,
   instrument |-> instrument]

\* A report that is revised and then revoked, and one for another instrument; the
\* number 3 was lost in a race.
OneRevoked ==
  {Event(1, "report", 0, 1, i1), Event(2, "report", 0, 2, i2),
   Event(4, "revision", 1, 1, i1), Event(5, "revocation", 4, 1, i1)}

\* A process that was not restarted with the new key.
OldKeyring == [r \in Readers |-> {v1}]

=============================================================================
