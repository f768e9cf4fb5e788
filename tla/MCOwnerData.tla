---------------------------- MODULE MCOwnerData ----------------------------
(***************************************************************************)
(* Instances of PrivacyDeletion, BlobDeletion and Reprocessing.  They      *)
(* share no state here, so a behaviour is one of a single instance, and    *)
(* `instance' says which; everything else keeps its initial value.         *)
(*                                                                         *)
(*   reprocessing  two invocations reprocess the exports of one owner      *)
(*   overlapping   two deletions run at once                               *)
(*   serial        one deletion at a time, with more rows                  *)
(*   renamed       a permalink moves, so one owner's two captures share a  *)
(*                 media row                                               *)
(*   blobs         two processors delete two forms of one object           *)
(*   archiving     the same while the content is archived again            *)
(***************************************************************************)
EXTENDS TLC

CONSTANTS None, Owners, o1, c1, c2, m1, m2, r1, r2, r3, r4, k1, k2

VARIABLES
    instance, faults,
    reconciled, runs, process, reprocessed,    \* reprocessed: items of Reprocessing
    capture, rows, media, accounts, items, profile, raw, published, removals, guard, operation,
    caller,
    file, live, task, blob_operation, worker, archived      \* blob_operation: of BlobDeletion

reprocessing_vars == <<reconciled, runs, process, reprocessed>>
deletion_vars == <<capture, rows, media, accounts, items, profile, raw, published, removals,
                   guard, operation, caller>>
blob_vars == <<file, live, task, blob_operation, worker, archived>>
owner_vars == <<instance, reprocessing_vars, deletion_vars, blob_vars, faults>>

Reprocess == INSTANCE Reprocessing WITH
    items <- reprocessed, Imports <- {"i1", "i2"}, Operations <- {"p"},
    Invocations <- {"v1", "v2"}, OwnerOf <- [i \in {"i1", "i2"} |-> o1],
    Kinds <- [i1 |-> <<"normalized", "unknown_record", "warning">>,
              i2 |-> <<"normalized", "conflict">>],
    Chunks <- {1, 2}, MaxFaults <- 1

Overlap == INSTANCE PrivacyDeletion WITH
    CaptureIds <- {c1, c2}, RawIds <- {r1, r2}, Accounts <- {"a1"},
    OwnerOf <- [a1 |-> o1], Urls <- {"u1"}, Posts <- {"p1"},
    MediaIds <- {m1}, Operations <- {"d1", "d2"}, Callers <- {k1, k2}

Serial == INSTANCE PrivacyDeletion WITH
    CaptureIds <- {c1, c2}, RawIds <- {r1, r2}, Accounts <- {"a1"},
    OwnerOf <- [a1 |-> o1], Urls <- {"u1", "u2"}, Posts <- {"p1"},
    MediaIds <- {m1, m2}, Operations <- {"d1", "d2"}, Callers <- {"k1"}

Moved == INSTANCE PrivacyDeletion WITH
    CaptureIds <- {c1, c2}, RawIds <- {r1, r2, r3, r4}, Accounts <- {"a1"},
    OwnerOf <- [a1 |-> o1], Owners <- {o1}, Urls <- {"u1", "u2"}, Posts <- {"p1"},
    MediaIds <- {m1}, Operations <- {"d1"}, Callers <- {"k1"}

Blobs == INSTANCE BlobDeletion WITH
    operation <- blob_operation, Digests <- {"b1"},
    Objects <- [form: {"media", "raw"}, digest: {"b1"}], Holders <- {"h1", "h2"},
    Operations <- {"d1", "d2"}, Workers <- {k1, k2}, Archiving <- {},
    MaxFaults <- 1

Archive == INSTANCE BlobDeletion WITH
    operation <- blob_operation, Digests <- {"b1"},
    Objects <- [form: {"media"}, digest: {"b1"}], Holders <- {"h1", "h2"},
    Operations <- {"d1", "d2"}, Workers <- {k1, k2}, Archiving <- {"b1"},
    MaxFaults <- 1

OwnerDataInit ==
    /\ Reprocess!Init
    /\ \/ instance \in {"reprocessing", "blobs", "archiving", "overlapping"} /\ Overlap!Init
       \/ instance = "serial" /\ Serial!Init
       \/ instance = "renamed" /\ Moved!Init
    /\ \/ instance # "archiving" /\ Blobs!Init
       \/ instance = "archiving" /\ Archive!Init
    /\ instance # "reprocessing" => reconciled = {}
    /\ instance \notin {"blobs", "archiving"} => file = {} /\ \A o \in DOMAIN live : live[o] = {}

OwnerDataNext ==
    /\ \/ /\ instance = "reprocessing" /\ Reprocess!Next
          /\ UNCHANGED <<deletion_vars, blob_vars>>
       \/ /\ instance = "overlapping" /\ Overlap!Next
          /\ UNCHANGED <<reprocessing_vars, blob_vars, faults>>
       \/ /\ \/ instance = "serial" /\ Serial!Next
             \/ instance = "renamed" /\ Moved!Next
          /\ UNCHANGED <<reprocessing_vars, blob_vars, faults>>
       \/ /\ \/ instance = "blobs" /\ Blobs!Next
             \/ instance = "archiving" /\ Archive!Next
          /\ UNCHANGED <<reprocessing_vars, deletion_vars>>
    /\ UNCHANGED instance

OwnerDataSpec == OwnerDataInit /\ [][OwnerDataNext]_owner_vars

\* Fresh identifiers and concurrent calls are interchangeable.
Fresh ==
    Permutations({c1, c2}) \cup Permutations({m1, m2}) \cup Permutations({r1, r2})
      \cup Permutations({k1, k2})

\* Every variable of every instance has its type.
OwnerDataTypes ==
    CASE instance = "reprocessing" -> Reprocess!TypeOK
      [] instance = "overlapping" -> Overlap!TypeOK
      [] instance = "serial" -> Serial!TypeOK
      [] instance = "renamed" -> Moved!TypeOK
      [] instance = "blobs" -> Blobs!TypeOK
      [] instance = "archiving" -> Archive!TypeOK

\* Reprocessing's CommittedIsPrefix.
CommittedIsPrefix == Reprocess!CommittedIsPrefix

\* Reprocessing's RunIsStable.
RunIsStable == Reprocess!RunIsStable

\* Evidence exists as long as something holds it: PrivacyDeletion's
\* HeldEvidence for overlapping deletions, its NoOrphan for one deletion at a
\* time, and both where two captures of one owner share a media row.
EvidenceMatchesHoldings ==
    /\ instance = "overlapping" => Overlap!HeldEvidence
    /\ instance = "serial" => Serial!NoOrphan
    /\ instance = "renamed" => Moved!HeldEvidence /\ Moved!NoOrphan

\* PrivacyDeletion's NoRemnant and ConnectionErased, for overlapping deletions.
NothingLeftBehind == instance = "overlapping" => Overlap!NoRemnant /\ Overlap!ConnectionErased

\* PrivacyDeletion's RemovalsMatchDeletions, for overlapping deletions.
RemovalsMatchDeletions == instance = "overlapping" => Overlap!RemovalsMatchDeletions

\* PrivacyDeletion's NoLateLink, for overlapping deletions.
NoLateLink == instance = "overlapping" => Overlap!NoLateLink

\* An operation is complete only when its tasks are, also while the content
\* is archived again, and without an archiver a deletion takes no object a row
\* references: BlobDeletion's CompleteOperationHasNoTask and
\* ReferencedObjectKept.
BlobsDeletedSafely ==
    IF instance = "archiving" THEN Archive!CompleteOperationHasNoTask
    ELSE Blobs!CompleteOperationHasNoTask /\ Blobs!ReferencedObjectKept

=============================================================================
