----------------------------- MODULE MCReceipts -----------------------------
(***************************************************************************)
(* Checks the receipts of every ledger with up to three checkpoints, for   *)
(* every choice of their sizes up to the bound of MCMerkleTree, whose two  *)
(* sizes get one more checkpoint before them.  The keys are in rotation:   *)
(* each checkpoint is signed with a newer one.                             *)
(***************************************************************************)
EXTENDS Receipts, MCMerkleTree

Version(n) == <<"v1", "v2", "v3">>[n]

Versions == {"v1", "v2", "v3"}

\* Numbers of the identity sequence are used up now and then.
SequenceOf(i) == 2 * i + 1

EventAt(i) == Event(SequenceOf(i), i + 1)

\* The checkpoints over the given numbers of leaves; each names its predecessor.
Chain(sizes) ==
  [n \in 0 .. Len(sizes) |->
     IF n = 0 THEN NoCheckpoint
     ELSE Checkpoint(n, Leaves(sizes[n]), SequenceOf(sizes[n] - 1),
                     [id |-> n - 1, root |-> IF n = 1 THEN NoRoot ELSE Root(sizes[n - 1])],
                     Version(n), n)]

ReceiptOf(chain, n, i) ==
  SealedReceipt(EventAt(i), i, chain[n - 1], chain[n], Leaves(chain[n].count))

Genuine(chain) ==
  UNION {{ReceiptOf(chain, n, i) : i \in Indexes(chain[n].count)} : n \in DOMAIN chain \ {0}}

\* A ledger of three checkpoints, of which the last two have the sizes in the state.
Chains ==
  IF known < size THEN {Chain(<<first, known, size>>) : first \in 1 .. known - 1} ELSE {}

\* A receipt whose parts were taken from different receipts of one ledger verifies
\* only if the parts belong together after all: nobody can show an event under
\* another place, checkpoint or predecessor than its own (verify_receipt).
MixedReceiptsAreRefused ==
  \A chain \in Chains :
    LET genuine == Genuine(chain)
        part(f) == {r[f] : r \in genuine}
    IN  \A e \in part("event"), c \in part("checkpoint"), i \in part("inclusion"),
           b \in part("consistency") :
          LET mixed == [event |-> e, status |-> "sealed", checkpoint |-> c,
                        inclusion |-> i, consistency |-> b]
          IN  Verdict(mixed, Versions) = "witnessed" <=> mixed \in genuine

OtherHash == LeafHash(0)

\* Every way to change one field of a checkpoint.
ChangedCheckpoints(c) ==
  {[c EXCEPT !.id = @ + 1], [c EXCEPT !.count = @ + 1], [c EXCEPT !.last = @ + 1],
   [c EXCEPT !.root = OtherHash], [c EXCEPT !.previous_id = @ + 1],
   [c EXCEPT !.previous_root = OtherHash], [c EXCEPT !.created = Written(Read(@) + 1)],
   [c EXCEPT !.signature = Sign(Payload(c), "none")]}
     \cup {[c EXCEPT !.version = v] : v \in Versions \ {c.version}}

ChangedEvents(e) ==
  {[e EXCEPT !.data = Written(0)], [e EXCEPT !.leaf_hash = Written(OtherHash)]}

\* A step of a proof is dropped, added, or has another hash.
ChangedHashes(s) ==
  {Tail(s) : x \in {1} \cap DOMAIN s} \cup {s \o <<OtherHash>>}
    \cup {[s EXCEPT ![i] = OtherHash] : i \in DOMAIN s}

ChangedPaths(p) ==
  {Tail(p) : x \in {1} \cap DOMAIN p} \cup {p \o <<Step("left", OtherHash)>>}
    \cup {[p EXCEPT ![i].hash = OtherHash] : i \in DOMAIN p}
    \cup {[p EXCEPT ![i].side = IF @ = "left" THEN "right" ELSE "left"] : i \in DOMAIN p}

ChangedInclusions(i) ==
  {[i EXCEPT !.index = Written(Read(@) + 1)], [i EXCEPT !.index = Written(Read(@) - 1)],
   [i EXCEPT !.size = Written(Read(@) + 1)], [i EXCEPT !.size = Written(Read(@) - 1)]}
    \cup {[i EXCEPT !.path = Written(p)] : p \in ChangedPaths(Read(i.path))}

ChangedBundles(b) ==
  {[b EXCEPT !.new_id = @ + 1], [b EXCEPT !.old_size = Written(Read(@) + 1)],
   [b EXCEPT !.new_size = Written(Read(@) + 1)]}
    \cup {[b EXCEPT !.old = c] : c \in ChangedCheckpoints(b.old)}
    \cup {[b EXCEPT !.hashes = Written(h)] : h \in ChangedHashes(Read(b.hashes))}

\* One value of the receipt is another one.
Altered(r) ==
  {[r EXCEPT !.event = e] : e \in ChangedEvents(r.event)}
    \cup {[r EXCEPT !.status = s] : s \in {"pending", "unknown"}}
    \cup {[r EXCEPT !.checkpoint = c] : c \in ChangedCheckpoints(r.checkpoint)}
    \cup {[r EXCEPT !.inclusion = i] : i \in ChangedInclusions(r.inclusion)}
    \cup {[r EXCEPT !.consistency = b] : b \in ChangedBundles(r.consistency)}

\* The same value in another form: a time with an offset, a hash in capitals, a number
\* as text or with a fraction.
Reworded(written) == [written EXCEPT !.form = "other"]

RewordedEvents(e) ==
  {[e EXCEPT !.sequence = @ + 1], [e EXCEPT !.data = Reworded(@)],
   [e EXCEPT !.leaf_hash = Reworded(@)]}

RewordedCheckpoints(c) == {[c EXCEPT !.schema = @ + 1], [c EXCEPT !.created = Reworded(@)]}

RewordedInclusions(i) ==
  {[i EXCEPT !.index = Reworded(@)], [i EXCEPT !.size = Reworded(@)],
   [i EXCEPT !.path = Reworded(@)]}

RewordedBundles(b) ==
  {[b EXCEPT !.old_size = Reworded(@)], [b EXCEPT !.new_size = Reworded(@)],
   [b EXCEPT !.hashes = Reworded(@)]}
    \cup {[b EXCEPT !.old = c] : c \in RewordedCheckpoints(b.old)}

\* One field is another one or is written otherwise, and the verifier does not see it.
Unread(r) ==
  {[r EXCEPT !.event = e] : e \in RewordedEvents(r.event)}
    \cup {[r EXCEPT !.checkpoint = c] : c \in RewordedCheckpoints(r.checkpoint)}
    \cup {[r EXCEPT !.inclusion = i] : i \in RewordedInclusions(r.inclusion)}
    \cup {[r EXCEPT !.consistency = b] : b \in IF r.consistency = NoBundle THEN {}
                                             ELSE RewordedBundles(r.consistency)}

\* One of the times is absent.
Untimed(r) ==
  {[r EXCEPT !.event.data = Written(NoTime)], [r EXCEPT !.checkpoint.created = Written(NoTime)]}
    \cup IF r.consistency = NoBundle THEN {}
         ELSE {[r EXCEPT !.consistency.old.created = Written(NoTime)]}

\* Which single changes of a sealed receipt verify_receipt lets pass.  One that changes a
\* value is refused (README.md:400-401, the drill "Proof corruption"), with two exceptions,
\* which pass: the sequence number of the event, which is not committed to
\* (event_commitment), and the schema version of a checkpoint, for which
\* checkpoint_payload puts in its own although README.md:131-132 lists it among what the
\* HMAC covers.  A value in another form passes as well, because it is decoded first.
\* A receipt that lacks a time is not refused: the verifier fails.
OnlyUnreadChangesPass ==
  \A chain \in Chains : \A r \in Genuine(chain) :
    /\ \A altered \in Altered(r) : Verdict(altered, Versions) = "INVALID_PROOF"
    /\ \A unread \in Unread(r) : Verdict(unread, Versions) = "witnessed"
    /\ \A untimed \in Untimed(r) : Verdict(untimed, Versions) = "ERROR"

\* Whoever has the keys of a checkpoint and its predecessor can verify its receipts,
\* and who lacks one is told so and not that the receipt is bad; a pending receipt
\* needs no key (_verify_signed_checkpoint and the key rotation of README.md:316-328).
KeysDecide ==
  \A chain \in Chains : \A keyring \in SUBSET Versions :
    /\ \A n \in 1 .. 3 : \A i \in {0, chain[n].count - 1} :
         LET needed == {Version(m) : m \in {n - 1, n} \ {0}}
         IN  Verdict(ReceiptOf(chain, n, i), keyring)
               = IF needed \subseteq keyring THEN "witnessed" ELSE "UNKNOWN_KEY_VERSION"
    /\ Verdict(PendingReceipt(EventAt(size)), keyring) = "pending"

=============================================================================
