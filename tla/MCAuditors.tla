----------------------------- MODULE MCAuditors -----------------------------
(***************************************************************************)
(* Instances of Auditors for TLC.                                          *)
(***************************************************************************)
EXTENDS Auditors

CONSTANTS a1, a2, v1, v2, i1, point, system

Report(n) ==
  [seq |-> n, key |-> n, parent |-> 0, record |-> n, type |-> "report", instrument |-> i1]

\* Reports, one number of which was lost in a race.
Reports == {Report(1), Report(2), Report(4)}

\* During a key rotation a1 still reaches a process without the new key.
OneLacksAKey == [a \in Auditors |-> IF a = a1 THEN {v1} ELSE {v1, v2}]

=============================================================================
