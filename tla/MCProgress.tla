----------------------------- MODULE MCProgress -----------------------------
(***************************************************************************)
(* What must eventually happen, in one instance of each component that     *)
(* loops or retries.  The instances share no state, so a behaviour here is *)
(* one of a single instance, and `instance' says which; everything else    *)
(* keeps its initial value.                                                *)
(*                                                                         *)
(*   capture    the resolver: one capture, two operations, one fault       *)
(*   import     the export worker: two archives, one fault                 *)
(*   own_media  the scheduler: two accounts, one fault                     *)
(*   blob       a caller that retries: two objects, two storage failures   *)
(***************************************************************************)
EXTENDS OwnMediaSync, TLC

CONSTANT None

VARIABLES
    instance,
    inbox, capture, latest, capture_media, operations, reported, reports, capture_facts, removed,
    resolver, marking, passes,
    archive, upload, state, history, queue, staged, conflicts, report, export_media,
    export_facts, importer,
    file, live, task, operation, processor, archived

capture_vars == <<inbox, capture, latest, capture_media, operations, reported, reports,
                  capture_facts, removed, resolver, marking, passes>>
import_vars == <<archive, upload, state, history, queue, staged, conflicts, report, export_media,
                 export_facts, importer>>
own_media_vars == <<account, catalogue, newest, runs, sync, order, due, media, facts, worker,
                    edits>>
blob_vars == <<file, live, task, operation, processor, archived>>

Capture == INSTANCE CaptureLifecycle WITH
    media <- capture_media, facts <- capture_facts, worker <- resolver,
    Captures <- {"c1"}, NoCapture <- "nocapture", Permalinks <- {"p"},
    PermalinkOf <- [c1 |-> "p"], Operations <- {"o1", "o2"}, Commands <- {"m1", "m2"},
    OperationOf <- [m1 |-> "o1", m2 |-> "o2"], CaptureOf <- [m1 |-> "c1", m2 |-> "c1"],
    Captions <- {"x"}, MaxAttempts <- 2, BatchSize <- 1, MaxPasses <- 7

Record(p) == [post |-> p, url |-> p, at |-> 1]
Saved(records) ==
    [size |-> 1, safe |-> TRUE, layout |-> TRUE, records |-> records, unknown |-> <<>>]

Import == INSTANCE DataExport WITH
    file <- archive, media <- export_media, facts <- export_facts, worker <- importer,
    Owners <- {"o1"}, Archives <- {"a1", "a2"},
    Content <- [a1 |-> Saved(<<Record(2), Record(1)>>), a2 |-> Saved(<<Record(1), Record(2)>>)],
    Uploads <- {"x1"}, BatchSize <- 2, MaxBodyBytes <- 1, Damageable <- {}

Blob == INSTANCE BlobDeletion WITH
    worker <- processor, Objects <- [form: {"media"}, digest: {"b1", "b2"}],
    Digests <- {"b1", "b2"}, Holders <- {"h1"}, Operations <- {"d1", "d2"}, Archiving <- {},
    MaxFaults <- 2

ProgressInit ==
    /\ instance \in {"capture", "import", "own_media", "blob"}
    /\ Capture!Init /\ Import!Init /\ Init /\ Blob!Init
    /\ instance # "blob" => \A o \in DOMAIN live : live[o] = {}

ProgressNext ==
    /\ \/ /\ instance = "capture" /\ Capture!ServiceStep
          /\ UNCHANGED <<import_vars, own_media_vars, blob_vars>>
       \/ /\ instance = "import" /\ Import!Next
          /\ UNCHANGED <<capture_vars, own_media_vars, blob_vars>>
       \/ /\ instance = "own_media" /\ Next
          /\ UNCHANGED <<capture_vars, import_vars, blob_vars>>
       \/ /\ instance = "blob" /\ Blob!Next
          /\ UNCHANGED <<capture_vars, import_vars, own_media_vars>>
    /\ UNCHANGED instance

progress_vars == <<instance, capture_vars, import_vars, own_media_vars, blob_vars,
                   faults>>

capture_state == <<capture_vars, faults>>
import_state == <<import_vars, faults>>
own_media_state == <<own_media_vars, faults>>
blob_state == <<blob_vars, faults>>

\* Each component keeps the fairness of its own specification: WF of an
\* action that is disabled because another instance runs asks for nothing.
Fairness ==
    /\ \A w \in Workers :
         /\ WF_capture_state(instance = "capture" /\ Capture!Claim(w))
         /\ WF_capture_state(instance = "capture" /\ Capture!Advance(w))
         /\ WF_import_state(instance = "import" /\ Import!run_once(w))
         /\ WF_own_media_state(instance = "own_media" /\ progress(w))
         /\ WF_blob_state(instance = "blob" /\ Blob!process(w))
    /\ WF_capture_state(instance = "capture" /\ Capture!Elapse("c1"))
    /\ WF_own_media_state(instance = "own_media" /\ cadence_elapses)
    /\ WF_blob_state(instance = "blob" /\ \E w \in Workers, o \in DOMAIN live :
                                            Blob!read_task(w, o))

ProgressSpec == ProgressInit /\ [][ProgressNext]_progress_vars /\ Fairness

\* CaptureLifecycle's EveryOperationReported.
EveryOperationReported == Capture!EveryOperationReported

\* DataExport's Finishes.
Finishes == Import!Finishes

\* OwnMediaSync's EveryAccountScanned, in the behaviours of that instance.
EveryConnectedAccountScanned == instance = "own_media" => EveryAccountScanned

\* BlobDeletion's Converges.
Converges == Blob!Converges
=============================================================================
