------------------------------ MODULE MerkleTree ------------------------------
(***************************************************************************)
(* RFC 6962 Merkle trees as merkle.py computes and verifies them.          *)
(*                                                                         *)
(* Hashes are terms: leaf_hash is a 1-tuple and node_hash a pair, so two   *)
(* hashes are equal only if they were made from the same leaves in the     *)
(* same shape, which is what SHA-256 with separated domains is used for.   *)
(* Hashes have the right length by construction, so the length checks of   *)
(* the verifiers never fail here.                                          *)
(*                                                                         *)
(* Indexes and sizes are the code's: the first leaf has index 0.  A slice  *)
(* of the leaves that a recursion is called with is the number n of its    *)
(* leaves and the number lo of leaves before it; recursions are functions  *)
(* of n first, because every call is for a smaller slice.                  *)
(***************************************************************************)
EXTENDS Integers, Sequences

EmptyRoot == <<>>

LeafHash(data) == <<data>>

NodeHash(left, right) == <<left, right>>

Odd(n) == n % 2 = 1
Half(n) == n \div 2

\* 1 << (n.bit_length() - 1): the power of two with the length of n.
LeadingPower[n \in Nat] == IF n <= 1 THEN n ELSE 2 * LeadingPower[Half(n)]

\* _split: the greatest power of two below size.
Split(size) == LeadingPower[size - 1]

\* merkle_root of every slice of the leaves.
Roots(leaves) ==
  LET root[n \in Nat] == [lo \in Nat |->
        CASE n = 0 -> EmptyRoot
          [] n = 1 -> leaves[lo + 1]
          [] OTHER -> NodeHash(root[Split(n)][lo], root[n - Split(n)][lo + Split(n)])]
  IN  root

MerkleRoot(leaves) == Roots(leaves)[Len(leaves)][0]

-----------------------------------------------------------------------------
(***************************************************************************)
(* Inclusion.  A step of a proof tells on which side its hash stands.      *)
(***************************************************************************)

Step(side, hash) == [side |-> side, hash |-> hash]

\* `walk` of inclusion_proof, for every slice and every index in it.
Walks(leaves) ==
  LET walk[n \in Nat] == [lo \in Nat |-> [index \in 0 .. n - 1 |->
        IF n = 1 THEN <<>>
        ELSE LET k == Split(n)
             IN  IF index < k
                   THEN Append(walk[k][lo][index], Step("right", Roots(leaves)[n - k][lo + k]))
                   ELSE Append(walk[n - k][lo + k][index - k], Step("left", Roots(leaves)[k][lo]))]]
  IN  walk

InclusionProof(leaves, index) == Walks(leaves)[Len(leaves)][0][index]

\* `collect_sides` of verify_inclusion
Sides[size \in Nat] == [index \in 0 .. size - 1 |->
  IF size = 1 THEN <<>>
  ELSE LET k == Split(size)
       IN  IF index < k THEN Append(Sides[k][index], "right")
                        ELSE Append(Sides[size - k][index - k], "left")]

\* Mutant: the sides are taken from the proof, whatever the index is.
SidesMatch_Any(index, size, proof) == Len(proof) = Len(Sides[size][index])

SidesMatch(index, size, proof) == [i \in DOMAIN proof |-> proof[i].side] = Sides[size][index]

Joined(current, step) ==
  IF step.side = "left" THEN NodeHash(step.hash, current) ELSE NodeHash(current, step.hash)

\* The loop of verify_inclusion: `current` after i steps of the proof.
Path(leaf, proof) ==
  LET current[i \in Nat] == IF i = 0 THEN leaf ELSE Joined(current[i - 1], proof[i])
  IN  current

VerifyInclusion(leaf, index, size, proof, expectedRoot) ==
  /\ index \in 0 .. size - 1
  /\ SidesMatch(index, size, proof)
  /\ Path(leaf, proof)[Len(proof)] = expectedRoot

-----------------------------------------------------------------------------
(***************************************************************************)
(* Consistency of a tree with the tree of its first m leaves.              *)
(***************************************************************************)

\* Mutant: the subtree both trees share is left out of the proof.
SharedSubtree_Omitted(root, complete) == <<>>

\* The old root itself need not be sent.
SharedSubtree(root, complete) == IF complete THEN <<>> ELSE <<root>>

\* `subproof` of consistency_proof, for every slice and the first m leaves of it.
Subproofs(leaves) ==
  LET subproof[n \in Nat] == [lo \in Nat |-> [m \in 1 .. n |-> [complete \in BOOLEAN |->
        IF m = n THEN SharedSubtree(Roots(leaves)[n][lo], complete)
        ELSE LET k == Split(n)
             IN  IF m <= k
                   THEN Append(subproof[k][lo][m][complete], Roots(leaves)[n - k][lo + k])
                   ELSE Append(subproof[n - k][lo + k][m - k][FALSE], Roots(leaves)[k][lo])]]]
  IN  subproof

ConsistencyProof(leaves, oldSize) ==
  IF oldSize = Len(leaves) THEN <<>> ELSE Subproofs(leaves)[Len(leaves)][0][oldSize][TRUE]

\* The loop before the proof: while fn & 1.
SkipRight[fn \in Nat] == [sn \in Nat |->
  IF Odd(fn) THEN SkipRight[Half(fn)][Half(sn)] ELSE [fn |-> fn, sn |-> sn]]

\* Both positions move up while the old one is a left child: while fn and not (fn & 1).
Climb[fn \in Nat] == [sn \in Nat |->
  IF fn = 0 \/ Odd(fn) THEN [fn |-> fn, sn |-> sn] ELSE Climb[Half(fn)][Half(sn)]]

\* Mutant: the old tree's last node is never taken for the new tree's.
TakesLeft_OddOnly(fn, sn) == Odd(fn)

\* The next hash of the proof stands left of the path.
TakesLeft(fn, sn) == Odd(fn) \/ fn = sn

\* One round of the loop over the proof.
Round(at, item) ==
  LET left == TakesLeft(at.fn, at.sn)
      up == IF left THEN Climb[at.fn][at.sn] ELSE [fn |-> at.fn, sn |-> at.sn]
  IN  [fn |-> Half(up.fn), sn |-> Half(up.sn),
       old |-> IF left THEN NodeHash(item, at.old) ELSE at.old,
       new |-> IF left THEN NodeHash(item, at.new) ELSE NodeHash(at.new, item)]

\* The positions and the roots that the proof implies, after i rounds.
Rounds(start, items) ==
  LET at[i \in Nat] == IF i = 0 THEN start ELSE Round(at[i - 1], items[i])
  IN  at

\* The proof starts with the subtree the trees share, unless that is the old tree.
Start(oldSize, newSize, oldRoot, proof) ==
  LET at == SkipRight[oldSize - 1][newSize - 1]
      shared == IF at.fn = 0 THEN oldRoot ELSE Head(proof)
  IN  [fn |-> at.fn, sn |-> at.sn, old |-> shared, new |-> shared]

\* The rounds use up the proof: one that starts at the top has an item too many.
Implies(start, items, oldRoot, newRoot) ==
  LET at == Rounds(start, items)
      end == at[Len(items)]
  IN  /\ \A i \in 1 .. Len(items) : at[i - 1].sn # 0
      /\ end.sn = 0 /\ end.old = oldRoot /\ end.new = newRoot

VerifyConsistency(oldSize, newSize, oldRoot, newRoot, proof) ==
  /\ oldSize \in 1 .. newSize
  /\ \/ oldSize = newSize /\ proof = <<>> /\ oldRoot = newRoot
     \/ /\ oldSize # newSize
        /\ IF SkipRight[oldSize - 1][newSize - 1].fn = 0
             THEN Implies(Start(oldSize, newSize, oldRoot, proof), proof, oldRoot, newRoot)
             ELSE /\ proof # <<>>
                  /\ Implies(Start(oldSize, newSize, oldRoot, proof), Tail(proof),
                             oldRoot, newRoot)

=============================================================================
