------------------------------- MODULE Receipts -------------------------------
(***************************************************************************)
(* Receipts: how proofs.py renders them from a sealed prefix, and how      *)
(* verify_receipt checks one from its fields and a keyring alone.          *)
(*                                                                         *)
(* The committed fields of an event are one value, `data`; its sequence    *)
(* number is in the receipt but not in the commitment.  A key is known by  *)
(* its version.  A signature is the term of what was signed with which     *)
(* key, so nobody can make one without the key; hashes are the terms of    *)
(* MerkleTree.                                                             *)
(*                                                                         *)
(* A value that the verifier decodes before it uses it has what it decodes *)
(* to and the form it is written in: times (datetime.fromisoformat takes   *)
(* any offset), hashes (bytes.fromhex takes capitals) and the sizes and    *)
(* the index of the proofs (int takes "3" and 3.9 for 3).  Columns that    *)
(* are signed or compared as they stand have no form.  A time may be       *)
(* absent.  Other malformed values are left out.                           *)
(***************************************************************************)
EXTENDS MerkleTree

\* A value as the service renders it.
Written(value) == [value |-> value, form |-> "rendered"]

\* What the verifier makes of a written value, whatever its form is.
Read(written) == written.value

\* The value of a checkpoint without created_at and of an event without occurred_at.
NoTime == -1

SchemaVersion == 1

Event(seq, data) ==
  [sequence |-> seq, data |-> Written(data), leaf_hash |-> Written(LeafHash(data))]

\* None of a checkpoint's predecessor.
NoId == 0
NoRoot == EmptyRoot

\* Mutant: the last sequence number is not signed.
Payload_NoLast(c) ==
  [schema |-> SchemaVersion, id |-> c.id, count |-> c.count, root |-> c.root,
   previous_id |-> c.previous_id, previous_root |-> c.previous_root, version |-> c.version,
   created |-> Read(c.created)]

\* checkpoint_payload: all columns but the signature.  The schema version is the code's
\* own, whatever the checkpoint says, and the time is read and rendered again.
Payload(c) ==
  [schema |-> SchemaVersion, id |-> c.id, count |-> c.count, last |-> c.last, root |-> c.root,
   previous_id |-> c.previous_id, previous_root |-> c.previous_root, version |-> c.version,
   created |-> Read(c.created)]

Sign(payload, key) == <<key, payload>>

Checkpoint(id, leaves, last, previous, version, created) ==
  LET c == [schema |-> SchemaVersion, id |-> id, count |-> Len(leaves), last |-> last,
            root |-> MerkleRoot(leaves), previous_id |-> previous.id,
            previous_root |-> previous.root, version |-> version,
            created |-> Written(created), signature |-> <<>>]
  IN  [c EXCEPT !.signature = Sign(Payload(c), version)]

NoCheckpoint ==
  [schema |-> SchemaVersion, id |-> NoId, count |-> 0, last |-> 0, root |-> NoRoot,
   previous_id |-> NoId, previous_root |-> NoRoot, version |-> "none",
   created |-> Written(0), signature |-> <<>>]

NoInclusion == [index |-> Written(0), size |-> Written(0), path |-> Written(<<>>)]

NoBundle ==
  [old |-> NoCheckpoint, new_id |-> NoId, old_size |-> Written(0), new_size |-> Written(0),
   hashes |-> Written(<<>>)]

-----------------------------------------------------------------------------
(***************************************************************************)
(* Rendering.                                                              *)
(***************************************************************************)

\* build_consistency_bundle
Bundle(old, new, leaves) ==
  IF old = NoCheckpoint THEN NoBundle
  ELSE [old |-> old, new_id |-> new.id, old_size |-> Written(old.count),
        new_size |-> Written(new.count), hashes |-> Written(ConsistencyProof(leaves, old.count))]

\* _sealed_receipt
SealedReceipt(event, index, old, new, leaves) ==
  [event |-> event, status |-> "sealed", checkpoint |-> new,
   inclusion |-> [index |-> Written(index), size |-> Written(new.count),
                  path |-> Written(InclusionProof(leaves, index))],
   consistency |-> Bundle(old, new, leaves)]

PendingReceipt(event) ==
  [event |-> event, status |-> "pending", checkpoint |-> NoCheckpoint,
   inclusion |-> NoInclusion, consistency |-> NoBundle]

-----------------------------------------------------------------------------
(***************************************************************************)
(* Verification.                                                           *)
(***************************************************************************)

\* Mutant: any key will do.
SignatureVerdict_AnyKey(c, keyring) ==
  CASE Read(c.created) = NoTime -> "ERROR"
    [] Read(c.created) # NoTime /\ \E v \in keyring : c.signature = Sign(Payload(c), v) -> "ok"
    [] OTHER -> "INVALID_PROOF"

\* _verify_signed_checkpoint, with the key that the checkpoint names.  Rendering a time
\* that is absent fails with an error that nobody catches.
SignatureVerdict(c, keyring) ==
  CASE c.version \notin keyring -> "UNKNOWN_KEY_VERSION"
    [] c.version \in keyring /\ Read(c.created) = NoTime -> "ERROR"
    [] /\ c.version \in keyring /\ Read(c.created) # NoTime
       /\ c.signature = Sign(Payload(c), c.version) -> "ok"
    [] OTHER -> "INVALID_PROOF"

CommitmentHolds(event) == Read(event.leaf_hash) = LeafHash(Read(event.data))

Included(r) ==
  /\ Read(r.inclusion.size) = r.checkpoint.count
  /\ VerifyInclusion(LeafHash(Read(r.event.data)), Read(r.inclusion.index),
                     Read(r.inclusion.size), Read(r.inclusion.path), r.checkpoint.root)

\* The bundle leads from the predecessor that the checkpoint names to the checkpoint.
Links(b, new) ==
  /\ b.old.id = new.previous_id
  /\ b.old.root = new.previous_root
  /\ b.new_id = new.id
  /\ Read(b.old_size) = b.old.count
  /\ Read(b.new_size) = new.count
  /\ VerifyConsistency(Read(b.old_size), Read(b.new_size), b.old.root, new.root, Read(b.hashes))

\* Mutant: a bundle is checked only if there is one.
BundleVerdict_Optional(b, new, keyring) ==
  IF b = NoBundle THEN "witnessed"
  ELSE LET signed == SignatureVerdict(b.old, keyring)
       IN  CASE signed # "ok" -> signed
             [] signed = "ok" /\ Links(b, new) -> "witnessed"
             [] OTHER -> "INVALID_PROOF"

\* The first checkpoint has no predecessor, every other one a bundle from its own.
BundleVerdict(b, new, keyring) ==
  LET first == new.previous_id = NoId
      signed == SignatureVerdict(b.old, keyring)
  IN  CASE first /\ new.previous_root = NoRoot /\ b = NoBundle -> "witnessed"
        [] ~ first /\ b # NoBundle /\ signed # "ok" -> signed
        [] ~ first /\ b # NoBundle /\ signed = "ok" /\ Links(b, new) -> "witnessed"
        [] OTHER -> "INVALID_PROOF"

SealedVerdict(r, keyring) ==
  LET signed == SignatureVerdict(r.checkpoint, keyring)
  IN  CASE signed # "ok" -> signed
        [] signed = "ok" /\ Included(r) -> BundleVerdict(r.consistency, r.checkpoint, keyring)
        [] OTHER -> "INVALID_PROOF"

PendingVerdict(r) ==
  IF r.checkpoint = NoCheckpoint /\ r.inclusion = NoInclusion THEN "pending" ELSE "INVALID_PROOF"

\* verify_receipt
Verdict(r, keyring) ==
  IF Read(r.event.data) = NoTime THEN "ERROR"
  ELSE CASE ~ CommitmentHolds(r.event) -> "INVALID_PROOF"
         [] CommitmentHolds(r.event) /\ r.status = "pending" -> PendingVerdict(r)
         [] CommitmentHolds(r.event) /\ r.status = "sealed" -> SealedVerdict(r, keyring)
         [] OTHER -> "INVALID_PROOF"

=============================================================================
