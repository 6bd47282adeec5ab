---------------------------- MODULE LedgerCalls ------------------------------
(***************************************************************************)
(* What the ledger promises its callers, on top of the log: a call is      *)
(* recorded as a whole or not at all.                                      *)
(***************************************************************************)
EXTENDS LedgerLog

CONSTANTS
  Batches,      \* the sets of submissions that calls make together
  Content(_)    \* the submission that an event records

\* The events of one call are appended and none is left out: afterwards every
\* submission of the call is recorded, by these events or by earlier ones, and
\* nothing else has been.
AppendCall ==
  /\ AppendEvents
  /\ \E batch \in Batches :
       {Content(e) : e \in log'} = {Content(e) : e \in log} \cup batch

Next == AppendCall \/ SealPrefix

Spec == Init /\ [][Next]_logVars

=============================================================================
