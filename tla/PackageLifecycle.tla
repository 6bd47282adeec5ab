-------------------------- MODULE PackageLifecycle --------------------------
(***************************************************************************)
(* The life of one audit package as its requester may rely on it, without  *)
(* replicas, leases or lost requests: the boundary is fixed at creation,   *)
(* a cancellation that was accepted is final, a package that is ready      *)
(* stays ready, and only a ready package has an archive, built for the     *)
(* fixed boundary.                                                         *)
(***************************************************************************)
EXTENDS Integers

VARIABLES
  status,    \* "absent" until the package is created
  boundary,  \* the checkpoint fixed at creation, 0 before
  archive    \* the boundary of the stored archive, 0 without one

lifeVars == <<status, boundary, archive>>

Move(from, to) ==
  /\ status \in from
  /\ status' = to
  /\ UNCHANGED boundary

Create == status = "absent" /\ status' = "pending" /\ boundary' # 0 /\ UNCHANGED archive

Start == Move({"pending"}, "building") /\ UNCHANGED archive

Finish == Move({"building"}, "ready") /\ archive' = boundary

Fail == Move({"building"}, "failed") /\ UNCHANGED archive

Retry == Move({"failed"}, "pending") /\ UNCHANGED archive

Cancel == Move({"pending", "cancelling"}, "cancelled") /\ UNCHANGED archive

RequestCancel == Move({"building"}, "cancelling") /\ UNCHANGED archive

Init == status = "absent" /\ boundary = 0 /\ archive = 0

Next == Create \/ Start \/ Finish \/ Fail \/ Retry \/ Cancel \/ RequestCancel

Spec == Init /\ [][Next]_lifeVars

\* What follows for the requester: an archive belongs to a package that is ready.
OnlyReadyHasArchive == archive # 0 <=> status = "ready"

=============================================================================
