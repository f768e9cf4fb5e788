---------------------------- MODULE BlobDeletion ----------------------------
(***************************************************************************)
(* Post-commit deletion of stored bytes (media_retention.rs): the durable  *)
(* blob_deletion_tasks a privacy deletion schedules, the processor that    *)
(* counts references, deletes the object and completes task and operation, *)
(* and the archiver that may store the same content again.                 *)
(*                                                                         *)
(* process_blob_deletion_task holds no transaction: each of its statements *)
(* and the file operation is a step of its own, and any number of callers  *)
(* may process one task.                                                   *)
(*                                                                         *)
(* An object is a reference as the tables spell it.  Archived media is     *)
(* named "instagram-archive/media/sha256/<digest>"; a raw record is named  *)
(* by the bare digest of its body, which lives in the row.                 *)
(***************************************************************************)
EXTENDS Integers, FiniteSets

CONSTANTS
    Objects,        \* [form: {"media", "raw"}, digest: Digests]
    Digests,
    Holders,        \* rows that can reference an object
    Operations,     \* deletion operations
    Workers,        \* callers of process_blob_deletion_task
    Archiving,      \* digests that are archived while tasks are processed
    None,
    MaxFaults       \* bound: storage failures explored

VARIABLES
    file,       \* digests present in the media store
    live,       \* rows that reference each object
    task,       \* blob_deletion_tasks, unique per object
    operation,  \* deletion_operations
    worker,     \* where each processing call is
    archived,   \* evidence returned by the archiver, not attached yet
    faults

vars == <<file, live, task, operation, worker, archived, faults>>

-----------------------------------------------------------------------------
Media(d) == [form |-> "media", digest |-> d]
NoTask == [state |-> "none", op |-> None]
Idle == [step |-> "idle", object |-> None, op |-> None]

\* The task, operation and object rows keep their columns' types.
TypeOK ==
    /\ file \subseteq Digests
    /\ live \in [Objects -> SUBSET Holders]
    /\ task \in [Objects -> [state: {"none", "pending", "complete"},
                             op: Operations \cup {None}]]
    /\ operation \in [Operations -> {"none", "pending_blob_deletion", "complete"}]
    /\ worker \in [Workers -> [step: {"idle", "count", "delete", "complete", "finish", "fail"},
                               object: Objects \cup {None}, op: Operations \cup {None}]]
    /\ archived \subseteq Archiving
    /\ faults \in 0..MaxFaults

\* Rows already reference objects, and every referenced media object is stored.
Init ==
    /\ live \in [Objects -> SUBSET Holders]
    /\ file = {o.digest : o \in {p \in Objects : p.form = "media" /\ live[p] # {}}}
    /\ task = [o \in Objects |-> NoTask]
    /\ operation = [d \in Operations |-> "none"]
    /\ worker = [w \in Workers |-> Idle]
    /\ archived = {}
    /\ faults = 0

-----------------------------------------------------------------------------
(* Scheduling *)

\* insert ... on conflict (blob_ref, content_hash) do nothing
schedule_blob_task(o, d) ==
    IF task[o] = NoTask THEN [state |-> "pending", op |-> d] ELSE task[o]

\* The commit of a privacy deletion: one row of each object in os is erased.
\* Every scheduled object counts, whether or not its task was inserted.
apply(d, os, h) ==
    /\ operation[d] = "none"
    /\ os # {} /\ \A o \in os : h \in live[o]
    /\ live' = [o \in Objects |-> IF o \in os THEN live[o] \ {h} ELSE live[o]]
    /\ task' = [o \in Objects |-> IF o \in os THEN schedule_blob_task(o, d) ELSE task[o]]
    /\ operation' = [operation EXCEPT ![d] = "pending_blob_deletion"]
    /\ UNCHANGED <<file, worker, archived, faults>>

-----------------------------------------------------------------------------
(* process_blob_deletion_task *)

to(w, step) == [worker EXCEPT ![w].step = step]

read_task(w, o) ==
    /\ worker[w] = Idle
    /\ task[o].state = "pending"
    /\ worker' = [worker EXCEPT ![w] = [step |-> "count", object |-> o, op |-> task[o].op]]
    /\ UNCHANGED <<file, live, task, operation, archived, faults>>

\* Variant: one remaining row is taken for the one being deleted.
OtherReferences(o) == Cardinality(live[o]) - 1

live_references(o) == Cardinality(live[o])

count_references(w) ==
    /\ worker[w].step = "count"
    /\ worker' = to(w, IF live_references(worker[w].object) > 0 THEN "fail" ELSE "delete")
    /\ UNCHANGED <<file, live, task, operation, archived, faults>>

\* The store accepts only the reference form it writes itself.
expected_ref(o) == o.form = "media"

\* An absent object counts as deleted.
delete_if_matches(w) ==
    LET o == worker[w].object
    IN  /\ worker[w].step = "delete"
        /\ IF expected_ref(o)
             THEN /\ file' = file \ {o.digest}
                  /\ worker' = to(w, "complete")
             ELSE /\ worker' = to(w, "fail")
                  /\ UNCHANGED file
        /\ UNCHANGED <<live, task, operation, archived, faults>>

storage_unavailable(w) ==
    /\ worker[w].step = "delete" /\ expected_ref(worker[w].object)
    /\ faults < MaxFaults
    /\ faults' = faults + 1
    /\ worker' = to(w, "fail")
    /\ UNCHANGED <<file, live, task, operation, archived>>

complete_task(w) ==
    /\ worker[w].step = "complete"
    /\ task' = [task EXCEPT ![worker[w].object].state = "complete"]
    /\ worker' = to(w, "finish")
    /\ UNCHANGED <<file, live, operation, archived, faults>>

no_pending_task(d) == \A o \in Objects : ~(task[o].op = d /\ task[o].state = "pending")

finish_operation(w) ==
    /\ worker[w].step = "finish"
    /\ operation' = [operation EXCEPT ![worker[w].op] =
           IF no_pending_task(worker[w].op) THEN "complete" ELSE @]
    /\ worker' = [worker EXCEPT ![w] = Idle]
    /\ UNCHANGED <<file, live, task, archived, faults>>

\* Variant: a failed task is given up.
GivesUp(w) ==
    /\ worker[w].step = "fail"
    /\ task' = [task EXCEPT ![worker[w].object].state = "failed"]
    /\ operation' = [operation EXCEPT ![worker[w].op] = "pending_blob_deletion"]
    /\ worker' = [worker EXCEPT ![w] = Idle]
    /\ UNCHANGED <<file, live, archived, faults>>

\* The task keeps its state; the operation is set back whatever it was.
record_blob_failure(w) ==
    /\ worker[w].step = "fail"
    /\ operation' = [operation EXCEPT ![worker[w].op] = "pending_blob_deletion"]
    /\ worker' = [worker EXCEPT ![w] = Idle]
    /\ UNCHANGED <<file, live, task, archived, faults>>

-----------------------------------------------------------------------------
(* The archiver *)

\* The object is linked into place, or found there and verified.
archive_acquired_media(d) ==
    /\ d \in Archiving \ archived
    /\ file' = file \cup {d}
    /\ archived' = archived \cup {d}
    /\ UNCHANGED <<live, task, operation, worker, faults>>

\* The caller attaches the returned evidence to a media row.
attach(d, h) ==
    /\ d \in archived /\ Media(d) \in Objects
    /\ live' = [live EXCEPT ![Media(d)] = @ \cup {h}]
    /\ archived' = archived \ {d}
    /\ UNCHANGED <<file, task, operation, worker, faults>>

-----------------------------------------------------------------------------
process(w) ==
    \/ count_references(w) \/ delete_if_matches(w) \/ storage_unavailable(w)
    \/ complete_task(w) \/ finish_operation(w) \/ record_blob_failure(w)

Next ==
    \/ \E d \in Operations, os \in SUBSET Objects, h \in Holders : apply(d, os, h)
    \/ \E w \in Workers : process(w) \/ \E o \in Objects : read_task(w, o)
    \/ \E d \in Digests : archive_acquired_media(d) \/ \E h \in Holders : attach(d, h)

Spec == Init /\ [][Next]_vars

\* A caller keeps retrying while a task is pending, and no call hangs.
Retrying ==
    /\ \A w \in Workers : WF_vars(process(w))
    /\ WF_vars(\E w \in Workers, o \in Objects : read_task(w, o))

LiveSpec == Spec /\ Retrying

-----------------------------------------------------------------------------
(* Properties *)

\* "no live Instagram record references the same object": a media object some
\* row references is in the store (media_retention.rs:217-253).
ReferencedObjectKept ==
    \A o \in Objects : o.form = "media" /\ live[o] # {} => o.digest \in file

\* "only then is the deletion marked complete": whoever finishes first, no
\* task of a complete operation is pending (media_retention.rs:262-275).
CompleteOperationHasNoTask ==
    \A o \in Objects : task[o].state = "pending" => operation[task[o].op] # "complete"

\* "Final-reference deletion converges after a transient failure": a deletion
\* operation whose objects nobody references any more completes.
Converges ==
    \A d \in Operations :
        operation[d] = "pending_blob_deletion" /\ (\A o \in Objects : live[o] = {})
            ~> operation[d] = "complete"
=============================================================================
