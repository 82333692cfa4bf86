-------------------------- MODULE MCArtifactStore --------------------------
(* Small instances of ArtifactStore: one harness script with two versions, a
   git reference registered under a name, and a pointer without one. *)
EXTENDS ArtifactStore, TLC

CONSTANTS harness, sha1, sha2, git, s3

Item(s, r) == [name |-> harness, sha |-> s, role |-> r, kind |-> "other"]

\* An upload with a kind or a meta that no row can hold.
Bad(s) == [Item(s, NULL) EXCEPT !.kind = "unknown"]
MCMalformed == {Bad(sha1), Bad(sha2)}

Pointer(n, s, u) == [name |-> n, sha |-> s, uri |-> u, role |-> "produced"]

\* A single upload, one whose client says "produced", malformed ones alone and
\* behind a good one, a batch of two and one with the same file twice.
MCBatches ==
  {<<Item(sha1, NULL)>>, <<Item(sha1, "produced")>>,
   <<Bad(sha1)>>, <<Item(sha1, NULL), Bad(sha2)>>,
   <<Item(sha2, NULL), Item(sha1, NULL)>>, <<Item(sha1, NULL), Item(sha1, NULL)>>}

\* A git reference, the harness registered by its hash, a nameless pointer.
MCPointers ==
  {Pointer(harness, NULL, git), Pointer(harness, sha1, s3), Pointer(NULL, NULL, s3)}

SymmetricRequests == Permutations(Requests) \cup Permutations(Runs)
=============================================================================
