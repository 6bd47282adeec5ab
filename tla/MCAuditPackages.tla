--------------------------- MODULE MCAuditPackages ---------------------------
(***************************************************************************)
(* Instances of AuditPackages for TLC.                                     *)
(***************************************************************************)
EXTENDS AuditPackages

CONSTANTS k1, k2, i1, i2, c1, c2, w1, w2

\* i1 has an event under the first checkpoint, i2 only under the second.
SecondInstrumentIsLate == [i \in Instruments |-> IF i = i1 THEN 1 ELSE 2]

\* Every replica can read every checkpoint.
AllReadable == [w \in Workers |-> 1 .. MaxCheckpoints]

\* A replica deployed without the key of the first checkpoint.
OneLacksAKey == [w \in Workers |-> IF w = w1 THEN {} ELSE 1 .. MaxCheckpoints]

Wants(k, i, n) == [key |-> k, instrument |-> i, checkpoint |-> n]

\* One key asked for with and without a boundary, for an instrument that is covered
\* early and one that is covered late.
RacingRequests == {Wants(k1, i1, Anything), Wants(k1, i2, 2)}

\* Two packages, and a boundary that does not cover the instrument.
TwoRequests ==
  {Wants(k1, i1, Anything), Wants(k2, i1, Anything), Wants(k2, i2, 1), Wants(k2, i2, Anything)}

\* One package.
OneRequest == {Wants(k1, i1, Anything)}

Life1 ==
  INSTANCE PackageLifecycle WITH
    status <- package[k1].status, boundary <- package[k1].boundary,
    archive <- artifact[k1].boundary

Life2 ==
  INSTANCE PackageLifecycle WITH
    status <- package[k2].status, boundary <- package[k2].boundary,
    archive <- artifact[k2].boundary

\* Whatever replicas, crashes and racing requests do to a package, it lives one
\* legal life: the requester's view is implemented for every package
\* (request_retry, cancel_package, build_once and claim_package together).
ImplementsLifecycle == Life1!Spec /\ Life2!Spec

=============================================================================
