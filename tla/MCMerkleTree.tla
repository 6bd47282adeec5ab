---------------------------- MODULE MCMerkleTree ----------------------------
(***************************************************************************)
(* Checks merkle.py against what its proofs have to mean, for every pair   *)
(* of tree sizes up to a bound: an auditor grows with the ledger from one  *)
(* tree size to another.                                                   *)
(***************************************************************************)
EXTENDS MerkleTree

CONSTANT MaxSize  \* bound: leaves of a tree

VARIABLES
  size,   \* leaves of the ledger
  known   \* leaves of the tree the auditor last verified

vars == <<size, known>>

Prefix(s, n) == SubSeq(s, 1, n)

Leaves(n) == [i \in 1 .. n |-> LeafHash(i)]

Root(n) == MerkleRoot(Leaves(n))

Init == size = 1 /\ known = 1

Append1 == size < MaxSize /\ size' = size + 1 /\ UNCHANGED known

Verify == \E n \in known + 1 .. size : known' = n /\ UNCHANGED size

Next == Append1 \/ Verify

Spec == Init /\ [][Next]_vars

Indexes(n) == 0 .. n - 1

\* The receipt of a leaf proves that leaf, at its index, under the root of its
\* tree: it verifies, and it verifies nothing else (inclusion_proof and
\* verify_inclusion).
InclusionIsExact ==
  \A i \in Indexes(size) :
    LET proof == InclusionProof(Leaves(size), i)
    IN  \A n \in {known, size} : \A leaf, j \in Indexes(n) :
          VerifyInclusion(LeafHash(leaf + 1), j, n, proof, Root(n))
            <=> leaf = i /\ j = i /\ n = size

\* The bundle of a checkpoint proves that its tree extends the known tree, and
\* no other tree (consistency_proof and verify_consistency).
ConsistencyIsExact ==
  LET proof == ConsistencyProof(Leaves(size), known)
  IN  \A m \in 1 .. size :
        VerifyConsistency(known, size, Root(m), Root(size), proof) <=> m = known

\* Histories that differ from the ledger's from leaf i on: a changed leaf, two
\* leaves that changed places, and a leaf that was deleted.
Forgeries(i) ==
  LET leaves == Leaves(size)
  IN  {[leaves EXCEPT ![i] = LeafHash(0)],
       [j \in 1 .. size |-> IF j = i /\ i < size THEN LeafHash(i + 1)
                            ELSE IF j = i + 1 THEN LeafHash(i) ELSE LeafHash(j)],
       [j \in 1 .. size |-> IF j < i THEN LeafHash(j) ELSE LeafHash(j + 1)]}

\* A ledger whose history was changed behind the known checkpoint cannot prove
\* that it extends it; one that differs only later can (README.md:130-131:
\* "changing a report digest, swapping leaves, or deleting history changes the
\* root"; consistency_proof and verify_consistency).
ChangedHistoryIsNoticed ==
  \A i \in 1 .. size : \A forged \in Forgeries(i) :
    VerifyConsistency(known, size, Root(known), MerkleRoot(forged),
                      ConsistencyProof(forged, known))
      <=> Prefix(forged, known) = Leaves(known)

=============================================================================
