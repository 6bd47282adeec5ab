-------------------------- MODULE MCAuditConsumers --------------------------
(***************************************************************************)
(* Instances of AuditConsumers for TLC.                                    *)
(***************************************************************************)
EXTENDS AuditConsumers

CONSTANTS p1, p2, p3, k1, k2, n1, n2

=============================================================================
