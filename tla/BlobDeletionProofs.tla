------------------------- MODULE BlobDeletionProofs -------------------------
(***************************************************************************)
(* The safety of the deletion of stored bytes for any objects, operations  *)
(* and callers.                                                            *)
(*                                                                         *)
(* process_blob_deletion_task holds no transaction between its statements, *)
(* so what one of them read may be stale when the next one acts.  A        *)
(* reference count of zero stays true, because rows are only erased, as    *)
(* long as nothing archives the same content meanwhile: the theorem on the *)
(* objects assumes that, and the theorem on the operations does not.       *)
(***************************************************************************)
EXTENDS BlobDeletion, FiniteSetTheorems, TLAPS

\* The rows; a pending task belongs to an operation that is not complete.
Tasks ==
    /\ task \in [Objects -> [state: {"none", "pending", "complete"},
                             op: Operations \cup {None}]]
    /\ operation \in [Operations -> {"none", "pending_blob_deletion", "complete"}]
    /\ \A o \in Objects : task[o].state = "pending" => task[o].op \in Operations
    /\ CompleteOperationHasNoTask

\* Setting one operation to something else than complete, or to complete when
\* it has no pending task, keeps Tasks.
LEMMA OperationStep ==
    ASSUME Tasks, NEW d, NEW s \in {"none", "pending_blob_deletion", "complete"},
           s = "complete" => \A o \in Objects : ~(task[o].op = d /\ task[o].state = "pending"),
           operation' = [operation EXCEPT ![d] = s], task' = task
    PROVE  Tasks'
<1>1. operation' \in [Operations -> {"none", "pending_blob_deletion", "complete"}]
  BY ZenonT(60) DEF Tasks
<1>2. \A e \in Operations : e # d => operation'[e] = operation[e]
  BY DEF Tasks
<1>3. d \in Operations => operation'[d] = s
  BY DEF Tasks
<1>4. CompleteOperationHasNoTask'
  BY <1>2, <1>3 DEF Tasks, CompleteOperationHasNoTask
<1> QED
  BY <1>1, <1>4 DEF Tasks

\* Every step keeps Tasks.
LEMMA TasksInductive == Tasks /\ [Next]_vars => Tasks'
<1> SUFFICES ASSUME Tasks, [Next]_vars PROVE Tasks'
  OBVIOUS
<1>1. ASSUME task' = task, operation' = operation
      PROVE  Tasks'
  BY <1>1 DEF Tasks, CompleteOperationHasNoTask
<1>2. ASSUME NEW d \in Operations, NEW os \in SUBSET Objects, NEW h \in Holders, apply(d, os, h)
      PROVE  Tasks'
  <2>1. /\ task' \in [Objects -> [state: {"none", "pending", "complete"},
                                  op: Operations \cup {None}]]
        /\ \A o \in Objects : \/ task'[o] = task[o]
                              \/ task'[o].op = d
    BY <1>2 DEF apply, schedule_blob_task, Tasks
  <2>2. /\ operation' \in [Operations -> {"none", "pending_blob_deletion", "complete"}]
        /\ operation'[d] = "pending_blob_deletion"
        /\ \A e \in Operations \ {d} : operation'[e] = operation[e]
    BY <1>2 DEF apply, Tasks
  <2>3. \A o \in Objects : task'[o].state = "pending" => task'[o].op \in Operations
    BY <2>1 DEF Tasks
  <2>4. CompleteOperationHasNoTask'
    BY <2>1, <2>2 DEF Tasks, CompleteOperationHasNoTask
  <2> QED
    BY <2>1, <2>2, <2>3, <2>4 DEF Tasks
<1>3. ASSUME NEW w \in Workers, complete_task(w)
      PROVE  Tasks'
  <2>1. /\ task' \in [Objects -> [state: {"none", "pending", "complete"},
                                  op: Operations \cup {None}]]
        /\ \A o \in Objects : \/ task'[o] = task[o]
                              \/ task'[o].state = "complete"
    <3>1. CASE worker[w].object \in Objects
      BY <1>3, <3>1 DEF complete_task, Tasks
    <3>2. CASE worker[w].object \notin Objects
      <4>1. task' = task
        BY <1>3, <3>2 DEF complete_task, Tasks
      <4> QED
        BY <4>1 DEF Tasks
    <3> QED
      BY <3>1, <3>2
  <2>2. operation' = operation
    BY <1>3 DEF complete_task
  <2> QED
    BY <2>1, <2>2 DEF Tasks, CompleteOperationHasNoTask
<1>4. ASSUME NEW w \in Workers, finish_operation(w)
      PROVE  Tasks'
  <2>1. CASE no_pending_task(worker[w].op)
    <3>1. operation' = [operation EXCEPT ![worker[w].op] = "complete"] /\ task' = task
      BY <1>4, <2>1 DEF finish_operation
    <3>2. \A o \in Objects : ~(task[o].op = worker[w].op /\ task[o].state = "pending")
      BY <2>1 DEF no_pending_task
    <3> QED
      BY <3>1, <3>2, OperationStep, ZenonT(60)
  <2>2. CASE ~no_pending_task(worker[w].op)
    <3>1. operation' = operation /\ task' = task
      BY <1>4, <2>2 DEF finish_operation, Tasks
    <3> QED
      BY <1>1, <3>1
  <2> QED
    BY <2>1, <2>2
<1>5. ASSUME NEW w \in Workers, record_blob_failure(w)
      PROVE  Tasks'
  <2>1. /\ operation' = [operation EXCEPT ![worker[w].op] = "pending_blob_deletion"]
        /\ task' = task
    BY <1>5 DEF record_blob_failure
  <2> QED
    BY <2>1, OperationStep, ZenonT(60)
<1>6. ASSUME NEW w \in Workers,
             \/ count_references(w) \/ delete_if_matches(w) \/ storage_unavailable(w)
             \/ \E o \in Objects : read_task(w, o)
      PROVE  Tasks'
  BY <1>1, <1>6 DEF count_references, delete_if_matches, storage_unavailable, read_task
<1>7. ASSUME NEW d \in Digests,
             archive_acquired_media(d) \/ \E h \in Holders : attach(d, h)
      PROVE  Tasks'
  BY <1>1, <1>7 DEF archive_acquired_media, attach
<1>8. CASE UNCHANGED vars
  BY <1>1, <1>8 DEF vars
<1> QED
  BY <1>2, <1>3, <1>4, <1>5, <1>6, <1>7, <1>8 DEF Next, process

\* No caller completes an operation that has a pending task, whatever other
\* callers complete, fail or retry (process_blob_deletion_task).
THEOREM CompleteHasNoTask == Spec => []CompleteOperationHasNoTask
<1>1. Init => Tasks
  BY DEF Init, Tasks, CompleteOperationHasNoTask, NoTask
<1> QED
  BY <1>1, TasksInductive, PTL DEF Spec, Tasks

-----------------------------------------------------------------------------
(* The objects *)

\* A caller that is about to delete an object counted no reference, and none
\* was added; a referenced media object is in the store.
Unreferenced ==
    /\ archived = {}
    /\ live \in [Objects -> SUBSET Holders]
    /\ worker \in [Workers -> [step: {"idle", "count", "delete", "complete", "finish", "fail"},
                               object: Objects \cup {None}, op: Operations \cup {None}]]
    /\ \A w \in Workers : worker[w].step # "idle" => worker[w].object \in Objects
    /\ \A w \in Workers : worker[w].step = "delete" => live[worker[w].object] = {}
    /\ ReferencedObjectKept

\* References that only shrink keep what the callers counted.
LEMMA Shrinking ==
    ASSUME Unreferenced, live' \in [Objects -> SUBSET Holders],
           \A o \in Objects : live'[o] \subseteq live[o],
           UNCHANGED <<file, worker, archived>>
    PROVE  Unreferenced'
<1>1. \A w \in Workers : worker[w].step = "delete" => live'[worker[w].object] = {}
  BY DEF Unreferenced
<1>2. ReferencedObjectKept'
  BY DEF Unreferenced, ReferencedObjectKept
<1> QED
  BY <1>1, <1>2 DEF Unreferenced

\* A caller moves on; it deletes only what it found unreferenced.
LEMMA Moving ==
    ASSUME Unreferenced, NEW w \in Workers,
           NEW x \in [step: {"idle", "count", "delete", "complete", "finish", "fail"},
                      object: Objects \cup {None}, op: Operations \cup {None}],
           x.step # "idle" => x.object \in Objects,
           x.step = "delete" => live[x.object] = {},
           worker' = [worker EXCEPT ![w] = x],
           ReferencedObjectKept', UNCHANGED <<live, archived>>
    PROVE  Unreferenced'
<1>1. /\ worker' \in [Workers -> [step: {"idle", "count", "delete", "complete", "finish", "fail"},
                                  object: Objects \cup {None}, op: Operations \cup {None}]]
      /\ worker'[w] = x /\ \A v \in Workers \ {w} : worker'[v] = worker[v]
  BY DEF Unreferenced
<1>2. \A v \in Workers : worker'[v].step # "idle" => worker'[v].object \in Objects
  BY <1>1 DEF Unreferenced
<1>3. \A v \in Workers : worker'[v].step = "delete" => live[worker'[v].object] = {}
  BY <1>1 DEF Unreferenced
<1> QED
  BY <1>1, <1>2, <1>3 DEF Unreferenced

\* A caller that goes to another step of its task.
LEMMA GoingTo ==
    ASSUME Unreferenced, NEW w \in Workers, worker[w].step # "idle",
           NEW s \in {"count", "delete", "complete", "finish", "fail"},
           s = "delete" => live[worker[w].object] = {},
           worker' = to(w, s), ReferencedObjectKept', UNCHANGED <<live, archived>>
    PROVE  Unreferenced'
<1> DEFINE x == [worker[w] EXCEPT !.step = s]
<1>1. worker[w] \in [step: {"idle", "count", "delete", "complete", "finish", "fail"},
                     object: Objects \cup {None}, op: Operations \cup {None}]
      /\ worker[w].object \in Objects
  BY DEF Unreferenced
<1>2. x \in [step: {"idle", "count", "delete", "complete", "finish", "fail"},
             object: Objects \cup {None}, op: Operations \cup {None}]
      /\ x.step = s /\ x.object = worker[w].object
  BY <1>1
<1>3. worker' = [worker EXCEPT ![w] = x]
  BY DEF to
<1> HIDE DEF x
<1> QED
  BY <1>1, <1>2, <1>3, Moving, ZenonT(60)

\* Every step keeps Unreferenced when nothing is archived.
LEMMA UnreferencedInductive ==
    ASSUME Archiving = {}, IsFiniteSet(Holders),
           Objects \subseteq [form: {"media", "raw"}, digest: Digests],
           Tasks, Unreferenced, [Next]_vars
    PROVE  Unreferenced'
<1>0. UNCHANGED <<file, live>> => ReferencedObjectKept'
  BY DEF Unreferenced, ReferencedObjectKept
<1>i. Idle \in [step: {"idle", "count", "delete", "complete", "finish", "fail"},
                object: Objects \cup {None}, op: Operations \cup {None}]
      /\ Idle.step = "idle"
  BY DEF Idle
<1>1. ASSUME NEW d \in Operations, NEW os \in SUBSET Objects, NEW h \in Holders, apply(d, os, h)
      PROVE  Unreferenced'
  <2>1. /\ live' \in [Objects -> SUBSET Holders]
        /\ \A o \in Objects : live'[o] \subseteq live[o]
    BY <1>1 DEF apply, Unreferenced
  <2> QED
    BY <1>1, <2>1, Shrinking DEF apply
<1>2. ASSUME NEW w \in Workers, NEW o \in Objects, read_task(w, o)
      PROVE  Unreferenced'
  <2> DEFINE x == [step |-> "count", object |-> o, op |-> task[o].op]
  <2>1. worker' = [worker EXCEPT ![w] = x] /\ UNCHANGED <<file, live, archived>>
    BY <1>2 DEF read_task
  <2>2. x \in [step: {"idle", "count", "delete", "complete", "finish", "fail"},
               object: Objects \cup {None}, op: Operations \cup {None}]
        /\ x.step = "count" /\ x.object = o
    BY DEF Tasks
  <2> HIDE DEF x
  <2> QED
    BY <1>0, <2>1, <2>2, Moving, ZenonT(60)
<1>3. ASSUME NEW w \in Workers, count_references(w)
      PROVE  Unreferenced'
  <2> DEFINE o == worker[w].object
             s == IF live_references(o) > 0 THEN "fail" ELSE "delete"
  <2>1. worker[w].step = "count" /\ worker' = to(w, s) /\ UNCHANGED <<file, live, archived>>
    BY <1>3 DEF count_references
  <2>2. o \in Objects /\ live[o] \subseteq Holders
    BY <2>1 DEF Unreferenced
  <2>3. IsFiniteSet(live[o])
    BY <2>2, FS_Subset
  <2>4. live[o] # {} => Cardinality(live[o]) > 0
    BY <2>3, FS_EmptySet, FS_CardinalityType
  <2>5. s = "delete" => live[o] = {}
    BY <2>4 DEF live_references
  <2>6. s \in {"count", "delete", "complete", "finish", "fail"}
    OBVIOUS
  <2> HIDE DEF s
  <2> QED
    BY <1>0, <2>1, <2>5, <2>6, GoingTo
<1>4. ASSUME NEW w \in Workers, delete_if_matches(w)
      PROVE  Unreferenced'
  <2> DEFINE o == worker[w].object
  <2>1. /\ worker[w].step = "delete" /\ o \in Objects /\ live[o] = {}
        /\ UNCHANGED <<live, archived>>
    BY <1>4 DEF delete_if_matches, Unreferenced
  <2>2. CASE expected_ref(o)
    <3>1. file' = file \ {o.digest} /\ worker' = to(w, "complete")
      BY <1>4, <2>2 DEF delete_if_matches
    <3>2. \A p \in Objects : p.form = "media" /\ p.digest = o.digest => p = o
      BY <2>1, <2>2 DEF expected_ref
    <3>3. ReferencedObjectKept'
      BY <2>1, <3>1, <3>2 DEF Unreferenced, ReferencedObjectKept
    <3> QED
      BY <2>1, <3>1, <3>3, GoingTo
  <2>3. CASE ~expected_ref(o)
    <3>1. file' = file /\ worker' = to(w, "fail")
      BY <1>4, <2>3 DEF delete_if_matches
    <3> QED
      BY <1>0, <2>1, <3>1, GoingTo
  <2> QED
    BY <2>2, <2>3
<1>5. ASSUME NEW w \in Workers, storage_unavailable(w) \/ complete_task(w)
      PROVE  Unreferenced'
  <2>1. /\ worker[w].step \in {"delete", "complete"} /\ UNCHANGED <<file, live, archived>>
        /\ worker' = to(w, "fail") \/ worker' = to(w, "finish")
    BY <1>5 DEF storage_unavailable, complete_task
  <2> QED
    BY <1>0, <2>1, GoingTo
<1>6. ASSUME NEW w \in Workers, finish_operation(w) \/ record_blob_failure(w)
      PROVE  Unreferenced'
  <2>1. worker' = [worker EXCEPT ![w] = Idle] /\ UNCHANGED <<file, live, archived>>
    BY <1>6 DEF finish_operation, record_blob_failure
  <2> QED
    BY <1>0, <1>i, <2>1, Moving, ZenonT(60)
<1>7. ASSUME NEW d \in Digests,
             archive_acquired_media(d) \/ \E h \in Holders : attach(d, h)
      PROVE  FALSE
  BY <1>7 DEF archive_acquired_media, attach, Unreferenced
<1>8. CASE UNCHANGED vars
  BY <1>8, Shrinking DEF vars, Unreferenced
<1> QED
  BY <1>1, <1>2, <1>3, <1>4, <1>5, <1>6, <1>7, <1>8 DEF Next, process

\* While nothing archives the same content, no caller deletes an object that
\* a row references, however stale its count is when it acts
\* (process_blob_deletion_task, delete_if_matches).
THEOREM ReferencedKept ==
    ASSUME Archiving = {}, IsFiniteSet(Holders),
           Objects \subseteq [form: {"media", "raw"}, digest: Digests]
    PROVE  Spec => []ReferencedObjectKept
<1>1. Init => Tasks
  BY DEF Init, Tasks, CompleteOperationHasNoTask, NoTask
<1>2. Init => Unreferenced
  <2> SUFFICES ASSUME Init PROVE Unreferenced
    OBVIOUS
  <2>1. Idle \in [step: {"idle", "count", "delete", "complete", "finish", "fail"},
                  object: Objects \cup {None}, op: Operations \cup {None}]
        /\ Idle.step = "idle"
    BY DEF Idle
  <2>2. ReferencedObjectKept
    BY DEF Init, ReferencedObjectKept
  <2> QED
    BY <2>1, <2>2 DEF Init, Unreferenced
<1>3. Tasks /\ Unreferenced /\ [Next]_vars => Unreferenced'
  BY UnreferencedInductive
<1> QED
  BY <1>1, <1>2, <1>3, TasksInductive, PTL DEF Spec, Unreferenced

=============================================================================
