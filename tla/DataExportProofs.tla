-------------------------- MODULE DataExportProofs --------------------------
(***************************************************************************)
(* The import implements ImportRun for any owners, archives, uploads and   *)
(* workers: no interleaving skips, reverses or repeats a transition.       *)
(*                                                                         *)
(* The compare-and-swaps of inspection and parsing check the state they    *)
(* leave.  A reconciliation checks it when it opens its transaction and    *)
(* leaves it much later, so the refinement needs that the run an open      *)
(* transaction holds stays "parsed" and belongs to no other (Locked).      *)
(***************************************************************************)
EXTENDS DataExport, TLAPS

\* A worker has the fields of Idle.
Shaped(x) ==
    x = [step |-> x.step, batch |-> x.batch, run |-> x.run, todo |-> x.todo,
         record |-> x.record, found |-> x.found, strong |-> x.strong, rows |-> x.rows,
         posted |-> x.posted, ambiguous |-> x.ambiguous]

Shapes ==
    /\ state \in [Runs -> Run!States]
    /\ history = [r \in Runs |-> history[r]]
    /\ worker = [w \in Workers |-> worker[w]]
    /\ \A w \in Workers : Shaped(worker[w])

Open(w) == worker[w].step \in InTransaction

\* An open reconciliation holds a parsed run, alone.
Locked ==
    \A w \in Workers : Open(w) =>
      /\ worker[w].run \in Runs => state[worker[w].run] = "parsed"
      /\ \A v \in Workers \ {w} : Open(v) => worker[v].run # worker[w].run

IInv == Shapes /\ Locked

-----------------------------------------------------------------------------
(* What a step of a worker does to Shapes and Locked *)

\* A worker that is outside a transaction after its step.
Leaves(w) ==
    \E x : /\ Shaped(x) /\ x.step \notin InTransaction
           /\ worker' = [worker EXCEPT ![w] = x]

\* A worker that stays in its transaction.
Stays(w) ==
    \E x : /\ Shaped(x) /\ Open(w) /\ x.run = worker[w].run
           /\ worker' = [worker EXCEPT ![w] = x]

\* An assignment to one field keeps the shape of a worker, and its step and
\* run if it is not one of those.
LEMMA AssignedStep ==
    ASSUME NEW y, Shaped(y), NEW v
    PROVE  /\ Shaped([y EXCEPT !.step = v])
           /\ [y EXCEPT !.step = v].run = y.run
           /\ [y EXCEPT !.step = v].step = v
BY DEF Shaped

\* The same for batch.
LEMMA AssignedBatch ==
    ASSUME NEW y, Shaped(y), NEW v
    PROVE  /\ Shaped([y EXCEPT !.batch = v])
           /\ [y EXCEPT !.batch = v].step = y.step
           /\ [y EXCEPT !.batch = v].run = y.run
BY DEF Shaped

\* The same for run.
LEMMA AssignedRun ==
    ASSUME NEW y, Shaped(y), NEW v
    PROVE  /\ Shaped([y EXCEPT !.run = v])
           /\ [y EXCEPT !.run = v].step = y.step
           /\ [y EXCEPT !.run = v].run = v
BY DEF Shaped

\* The same for todo.
LEMMA AssignedTodo ==
    ASSUME NEW y, Shaped(y), NEW v
    PROVE  /\ Shaped([y EXCEPT !.todo = v])
           /\ [y EXCEPT !.todo = v].step = y.step
           /\ [y EXCEPT !.todo = v].run = y.run
BY DEF Shaped

\* The same for record.
LEMMA AssignedRecord ==
    ASSUME NEW y, Shaped(y), NEW v
    PROVE  /\ Shaped([y EXCEPT !.record = v])
           /\ [y EXCEPT !.record = v].step = y.step
           /\ [y EXCEPT !.record = v].run = y.run
BY DEF Shaped

\* The same for found.
LEMMA AssignedFound ==
    ASSUME NEW y, Shaped(y), NEW v
    PROVE  /\ Shaped([y EXCEPT !.found = v])
           /\ [y EXCEPT !.found = v].step = y.step
           /\ [y EXCEPT !.found = v].run = y.run
BY DEF Shaped

\* The same for strong.
LEMMA AssignedStrong ==
    ASSUME NEW y, Shaped(y), NEW v
    PROVE  /\ Shaped([y EXCEPT !.strong = v])
           /\ [y EXCEPT !.strong = v].step = y.step
           /\ [y EXCEPT !.strong = v].run = y.run
BY DEF Shaped

\* The same for rows.
LEMMA AssignedRows ==
    ASSUME NEW y, Shaped(y), NEW v
    PROVE  /\ Shaped([y EXCEPT !.rows = v])
           /\ [y EXCEPT !.rows = v].step = y.step
           /\ [y EXCEPT !.rows = v].run = y.run
BY DEF Shaped

\* The same for posted.
LEMMA AssignedPosted ==
    ASSUME NEW y, Shaped(y), NEW v
    PROVE  /\ Shaped([y EXCEPT !.posted = v])
           /\ [y EXCEPT !.posted = v].step = y.step
           /\ [y EXCEPT !.posted = v].run = y.run
BY DEF Shaped

\* The same for ambiguous.
LEMMA AssignedAmbiguous ==
    ASSUME NEW y, Shaped(y), NEW v
    PROVE  /\ Shaped([y EXCEPT !.ambiguous = v])
           /\ [y EXCEPT !.ambiguous = v].step = y.step
           /\ [y EXCEPT !.ambiguous = v].run = y.run
BY DEF Shaped

\* A statement of advance or of a handled failure ends outside a transaction.
LEMMA Ends ==
    ASSUME Shapes, NEW w \in Workers
    PROVE  /\ worker' = NextRow(w) => Leaves(w)
           /\ worker' = EndPass(w) => Leaves(w)
           /\ \A s : s \notin InTransaction /\ worker' = Enter(w, s) => Leaves(w)
<1>1. Shaped(Idle) /\ Idle.step \notin InTransaction
  BY DEF Shaped, Idle, InTransaction
<1>2. worker' = EndPass(w) => Leaves(w)
  BY <1>1, ZenonT(60) DEF EndPass, Leaves
<1>3. worker' = NextRow(w) => Leaves(w)
  <2> DEFINE x == [Idle EXCEPT !.step = "next", !.batch = worker[w].batch]
  <2> DEFINE y == [Idle EXCEPT !.step = "next"]
  <2>0. Shaped(y) /\ y.step = "next"
    BY <1>1, AssignedStep
  <2> HIDE DEF y
  <2>1. Shaped([y EXCEPT !.batch = worker[w].batch])
        /\ [y EXCEPT !.batch = worker[w].batch].step = "next"
    BY <2>0, AssignedBatch, SMTT(60)
  <2>a. Shaped(x) /\ x.step \notin InTransaction
    BY <2>1, SMTT(60) DEF y, InTransaction
  <2>2. NextRow(w) = [worker EXCEPT ![w] = x]
    BY DEF NextRow
  <2> HIDE DEF x
  <2> QED
    BY <2>a, <2>2, ZenonT(60) DEF Leaves
<1>4. ASSUME NEW s, s \notin InTransaction, worker' = Enter(w, s)
      PROVE  Leaves(w)
  <2> DEFINE x == [worker[w] EXCEPT !.step = s]
  <2>0. Shaped(worker[w])
    BY DEF Shapes
  <2>1. Shaped(x) /\ x.step = s
    BY <2>0 DEF Shaped
  <2>2. Enter(w, s) = [worker EXCEPT ![w] = x]
    BY DEF Enter
  <2> HIDE DEF x
  <2> QED
    BY <1>4, <2>1, <2>2, ZenonT(60) DEF Leaves
<1> QED
  BY <1>2, <1>3, <1>4, SMTT(60)

\* Leaving or staying in a transaction keeps the invariant while no state
\* changes.
LEMMA WorkerStep ==
    ASSUME IInv, NEW w \in Workers, Leaves(w) \/ Stays(w), UNCHANGED <<state, history>>
    PROVE  IInv'
<1>1. PICK x : /\ Shaped(x)
               /\ worker' = [worker EXCEPT ![w] = x]
               /\ x.step \notin InTransaction \/ (Open(w) /\ x.run = worker[w].run)
  BY DEF Leaves, Stays
<1>2. worker = [v \in Workers |-> worker[v]]
  BY DEF IInv, Shapes
<1>3. worker'[w] = x /\ \A v \in Workers \ {w} : worker'[v] = worker[v]
  BY <1>1, <1>2, SMTT(60)
<1>4. Shapes'
  <2>1. worker' = [v \in Workers |-> worker'[v]]
    BY <1>1, <1>2, SMTT(60)
  <2>2. \A v \in Workers : Shaped(worker'[v])
    BY <1>1, <1>3, SMTT(60) DEF IInv, Shapes
  <2> QED
    BY <2>1, <2>2, SMTT(60) DEF IInv, Shapes, Shaped
<1>5. Locked'
  BY <1>1, <1>3, SMTT(60) DEF IInv, Locked, Open
<1> QED
  BY <1>4, <1>5 DEF IInv

-----------------------------------------------------------------------------
(* Transitions *)

\* The abstract step a Swap is, for a run that exists.
LEMMA SwapIsTransition ==
    ASSUME Shapes, NEW r, NEW from, NEW to \in Run!States, NEW ordinal,
           r \in Runs => state[r] = from, Run!Follows(from, to), ordinal = Run!Position(from) + 1,
           Swap(r, from, to, ordinal)
    PROVE  [Run!Next]_<<state, history>>
<1>1. CASE r \in Runs
  <2>1. Run!Transition(r, to)
    BY <1>1, ZenonT(60) DEF Swap, Run!Transition
  <2> QED
    BY <1>1, <2>1, SMTT(60) DEF Run!Next
<1>2. CASE r \notin Runs
  <2>1. state' = state
    BY <1>2 DEF Swap, Shapes
  <2>2. history' = history
    BY <1>2 DEF Swap, Shapes
  <2> QED
    BY <2>1, <2>2
<1> QED
  BY <1>1, <1>2, SMTT(60)

\* A transition from a state that is not "parsed" disturbs no transaction.
LEMMA SwapKeeps ==
    ASSUME IInv, NEW w \in Workers, Leaves(w), NEW r, NEW from, NEW to \in Run!States,
           NEW ordinal, r \in Runs => state[r] = from,
           from # "parsed" \/ (Open(w) /\ r = worker[w].run),
           Swap(r, from, to, ordinal)
    PROVE  IInv'
<1>1. PICK x : /\ Shaped(x) /\ x.step \notin InTransaction
               /\ worker' = [worker EXCEPT ![w] = x]
  BY ZenonT(60) DEF Leaves
<1>2. worker = [v \in Workers |-> worker[v]]
  BY DEF IInv, Shapes
<1>3. worker'[w] = x /\ \A v \in Workers \ {w} : worker'[v] = worker[v]
  BY <1>1, <1>2
<1>4. Shapes'
  <2>1. worker' = [v \in Workers |-> worker'[v]]
    BY <1>1, <1>2
  <2>2. \A v \in Workers : Shaped(worker'[v])
    BY <1>1, <1>3, SMTT(60) DEF IInv, Shapes
  <2>3. state' \in [Runs -> Run!States]
    BY ZenonT(60) DEF IInv, Shapes, Swap
  <2>4. history' = [q \in Runs |-> history'[q]]
    <3> DEFINE n == history[r] \cup {[ordinal |-> ordinal, from |-> from, to |-> to]}
    <3>1. history' = [history EXCEPT ![r] = n]
      BY DEF Swap
    <3> HIDE DEF n
    <3> QED
      BY <3>1 DEF IInv, Shapes
  <2> QED
    BY <2>1, <2>2, <2>3, <2>4 DEF Shapes, Shaped
<1>5. \A q \in Runs \ {r} : state'[q] = state[q]
  BY DEF IInv, Shapes, Swap
<1>6. Locked'
  BY <1>1, <1>3, <1>5 DEF IInv, Locked, Open
<1> QED
  BY <1>4, <1>6 DEF IInv

-----------------------------------------------------------------------------
(* The steps of a worker *)

\* Selecting rows and starting with one leave the worker outside a transaction.
LEMMA Selecting ==
    ASSUME Shapes, NEW w \in Workers, select_batch(w) \/ advance(w)
    PROVE  Leaves(w)
<1>1. Shaped(Idle) /\ Idle.step \notin InTransaction
  BY DEF Shaped, Idle, InTransaction
<1>2. ASSUME NEW s, s \notin InTransaction, NEW b
      PROVE  /\ Shaped([Idle EXCEPT !.step = s, !.batch = b])
             /\ [Idle EXCEPT !.step = s, !.batch = b].step \notin InTransaction
  <2> DEFINE y == [Idle EXCEPT !.step = s]
  <2>1. Shaped(y) /\ y.step = s
    BY <1>1, AssignedStep, SMTT(60)
  <2> HIDE DEF y
  <2>2. Shaped([y EXCEPT !.batch = b]) /\ [y EXCEPT !.batch = b].step = s
    BY <2>1, AssignedBatch, SMTT(60)
  <2> QED
    BY <1>2, <2>2, SMTT(60) DEF y
<1>3. ASSUME NEW s, s \notin InTransaction, NEW r, NEW b
      PROVE  /\ Shaped([Idle EXCEPT !.step = s, !.run = r, !.batch = b])
             /\ [Idle EXCEPT !.step = s, !.run = r, !.batch = b].step \notin InTransaction
  <2> DEFINE y == [Idle EXCEPT !.step = s]
             z == [y EXCEPT !.run = r]
  <2>1. Shaped(y) /\ y.step = s
    BY <1>1, AssignedStep
  <2> HIDE DEF y
  <2>2. Shaped(z) /\ z.step = s
    BY <2>1, AssignedRun, SMTT(60)
  <2> HIDE DEF z
  <2>3. Shaped([z EXCEPT !.batch = b]) /\ [z EXCEPT !.batch = b].step = s
    BY <2>2, AssignedBatch
  <2> QED
    BY <1>3, <2>3, SMTT(60) DEF y, z
<1>4. CASE select_batch(w)
  <2>1. PICK b : worker' = [worker EXCEPT ![w] = [Idle EXCEPT !.step = "next", !.batch = b]]
    BY <1>4, ZenonT(60) DEF select_batch
  <2> DEFINE x == [Idle EXCEPT !.step = "next", !.batch = b]
  <2>2. Shaped(x) /\ x.step \notin InTransaction
    BY <1>2, ZenonT(60) DEF InTransaction
  <2> HIDE DEF x
  <2> QED
    BY <2>1, <2>2, ZenonT(60) DEF x, Leaves
<1>5. CASE advance(w)
  <2>1. CASE worker[w].batch = <<>>
    <3>1. worker' = [worker EXCEPT ![w] = Idle]
      BY <1>5, <2>1 DEF advance
    <3> QED
      BY <1>1, <3>1, ZenonT(60) DEF Leaves
  <2>2. CASE worker[w].batch # <<>>
    <3> DEFINE s == FirstStage(Head(worker[w].batch)[2])
               r == Head(worker[w].batch)[1]
               b == Tail(worker[w].batch)
               x == [Idle EXCEPT !.step = s, !.run = r, !.batch = b]
    <3>1. worker' = [worker EXCEPT ![w] = x]
      BY <1>5, <2>2 DEF advance
    <3>2. s \notin InTransaction
      BY DEF FirstStage, InTransaction
    <3> HIDE DEF s, r, b
    <3>3. Shaped(x) /\ x.step \notin InTransaction
      BY <1>3, <3>2, ZenonT(60)
    <3> HIDE DEF x
    <3> QED
      BY <3>1, <3>3, ZenonT(60) DEF Leaves
  <2> QED
    BY <2>1, <2>2, SMTT(60)
<1> QED
  BY <1>4, <1>5, SMTT(60)

\* The statements inside a reconciliation keep the worker in it or end it.
LEMMA Reconciling ==
    ASSUME Shapes, NEW w \in Workers,
           project_record(w) \/ \E rec \in Records : reconcile_record(w, rec)
    PROVE  Leaves(w) \/ Stays(w)
<1>0. Shaped(worker[w])
  BY DEF Shapes
<1>1. ASSUME NEW rec \in Records, reconcile_record(w, rec)
      PROVE  Stays(w)
  <2>0. Open(w)
    BY <1>1, ZenonT(60) DEF reconcile_record, Open, InTransaction
  <2>1. CASE Cardinality(Matches(w, rec)) > 1
    <3>0. PICK t, a : worker' = [worker EXCEPT ![w] = [@ EXCEPT !.todo = t, !.ambiguous = a]]
      BY <1>1, <2>1, ZenonT(60) DEF reconcile_record
    <3> DEFINE y == [worker[w] EXCEPT !.todo = t]
               x == [y EXCEPT !.ambiguous = a]
    <3>1. worker' = [worker EXCEPT ![w] = x]
      BY <3>0, SMTT(60)
    <3>2. Shaped(y) /\ y.run = worker[w].run
      BY <1>0, AssignedTodo, SMTT(60)
    <3> HIDE DEF y
    <3>3. Shaped(x) /\ x.run = worker[w].run
      BY <3>2, AssignedAmbiguous, SMTT(60)
    <3> HIDE DEF x
    <3> QED
      BY <2>0, <3>1, <3>3, ZenonT(60) DEF Stays
  <2>2. CASE ~(Cardinality(Matches(w, rec)) > 1)
    <3> DEFINE found == Matches(w, rec)
               f == IF found = {} THEN None ELSE CHOOSE m \in found : TRUE
               g == \E m \in found : stronger(Visible(w, m))
    <3>1. worker' = [worker EXCEPT ![w] =
             [@ EXCEPT !.step = "write", !.record = rec, !.found = f, !.strong = g]]
      BY <1>1, <2>2, ZenonT(60) DEF reconcile_record
    <3> HIDE DEF f, g
    <3> DEFINE y1 == [worker[w] EXCEPT !.step = "write"]
               y2 == [y1 EXCEPT !.record = rec]
               y3 == [y2 EXCEPT !.found = f]
               x == [y3 EXCEPT !.strong = g]
    <3>2. worker' = [worker EXCEPT ![w] = x]
      BY <3>1, SMTT(60)
    <3>3. Shaped(y1) /\ y1.run = worker[w].run
      BY <1>0, AssignedStep, SMTT(60)
    <3> HIDE DEF y1
    <3>4. Shaped(y2) /\ y2.run = worker[w].run
      BY <3>3, AssignedRecord, SMTT(60)
    <3> HIDE DEF y2
    <3>5. Shaped(y3) /\ y3.run = worker[w].run
      BY <3>4, AssignedFound, SMTT(60)
    <3> HIDE DEF y3
    <3>6. Shaped(x) /\ x.run = worker[w].run
      BY <3>5, AssignedStrong, SMTT(60)
    <3> HIDE DEF x
    <3> QED
      BY <2>0, <3>2, <3>6 DEF Stays
  <2> QED
    BY <2>1, <2>2, SMTT(60)
<1>2. CASE project_record(w)
  <2>0. Open(w)
    BY <1>2, SMTT(60) DEF project_record, Open, InTransaction
  <2>1. CASE worker' = EndPass(w)
    BY <2>1, Ends, SMTT(60)
  <2>2. CASE worker' # EndPass(w)
    <3>1. PICK t, rows, posted : worker' = [worker EXCEPT ![w] =
                 [@ EXCEPT !.step = "match", !.todo = t, !.record = None, !.found = None,
                           !.strong = FALSE, !.rows = rows, !.posted = posted]]
      BY <1>2, <2>2, ZenonT(60) DEF project_record
    <3> DEFINE y1 == [worker[w] EXCEPT !.step = "match"]
               y2 == [y1 EXCEPT !.todo = t]
               y3 == [y2 EXCEPT !.record = None]
               y4 == [y3 EXCEPT !.found = None]
               y5 == [y4 EXCEPT !.strong = FALSE]
               y6 == [y5 EXCEPT !.rows = rows]
               x == [y6 EXCEPT !.posted = posted]
    <3>2. worker' = [worker EXCEPT ![w] = x]
      BY <3>1, SMTT(60)
    <3>3. Shaped(y1) /\ y1.run = worker[w].run
      BY <1>0, AssignedStep, SMTT(60)
    <3> HIDE DEF y1
    <3>4. Shaped(y2) /\ y2.run = worker[w].run
      BY <3>3, AssignedTodo, SMTT(60)
    <3> HIDE DEF y2
    <3>5. Shaped(y3) /\ y3.run = worker[w].run
      BY <3>4, AssignedRecord, SMTT(60)
    <3> HIDE DEF y3
    <3>6. Shaped(y4) /\ y4.run = worker[w].run
      BY <3>5, AssignedFound, SMTT(60)
    <3> HIDE DEF y4
    <3>7. Shaped(y5) /\ y5.run = worker[w].run
      BY <3>6, AssignedStrong, SMTT(60)
    <3> HIDE DEF y5
    <3>8. Shaped(y6) /\ y6.run = worker[w].run
      BY <3>7, AssignedRows, SMTT(60)
    <3> HIDE DEF y6
    <3>9. Shaped(x) /\ x.run = worker[w].run
      BY <3>8, AssignedPosted, SMTT(60)
    <3> HIDE DEF x
    <3> QED
      BY <2>0, <3>2, <3>9, ZenonT(60) DEF Stays
  <2> QED
    BY <2>1, <2>2, SMTT(60)
<1> QED
  BY <1>1, <1>2, SMTT(60)

\* Opening a transaction takes a run that is parsed and that nobody holds.
LEMMA Opening ==
    ASSUME IInv, NEW w \in Workers, begin_reconcile(w)
    PROVE  IInv'
<1>0. Shapes /\ Shaped(worker[w]) /\ UNCHANGED <<state, history>>
  BY SMTT(60) DEF IInv, Shapes, begin_reconcile, run_vars
<1>1. CASE state[worker[w].run] # "parsed"
  <2>1. worker' = NextRow(w)
    BY <1>1, SMTT(60) DEF begin_reconcile
  <2> QED
    BY <1>0, <2>1, Ends, WorkerStep, SMTT(60)
<1>2. CASE state[worker[w].run] = "parsed"
  <2> DEFINE y == [worker[w] EXCEPT !.step = "match"]
             x == [y EXCEPT !.todo = normalized(worker[w].run)]
  <2>1. worker' = [worker EXCEPT ![w] = x]
    BY <1>2, SMTT(60) DEF begin_reconcile
  <2>2. Shaped(y) /\ y.run = worker[w].run /\ y.step = "match"
    BY <1>0, AssignedStep, SMTT(60)
  <2> HIDE DEF y
  <2>3. Shaped(x) /\ x.run = worker[w].run /\ x.step = "match"
    BY <2>2, AssignedTodo, SMTT(60)
  <2> HIDE DEF x
  <2>4. worker = [v \in Workers |-> worker[v]]
    BY <1>0, SMTT(60) DEF Shapes
  <2>5. worker'[w] = x /\ \A v \in Workers \ {w} : worker'[v] = worker[v]
    BY <2>1, <2>4, SMTT(60)
  <2>6. \A v \in Workers \ {w} : Open(v) => worker[v].run # worker[w].run
    BY SMTT(60) DEF begin_reconcile, RunLocked, Open
  <2>7. Shapes'
    <3>1. worker' = [v \in Workers |-> worker'[v]]
      BY <2>1, <2>4, SMTT(60)
    <3>2. \A v \in Workers : Shaped(worker'[v])
      BY <1>0, <2>3, <2>5, SMTT(60) DEF Shapes
    <3> QED
      BY <1>0, <3>1, <3>2, SMTT(60) DEF Shapes, Shaped
  <2>8. Locked'
    BY <1>0, <1>2, <2>3, <2>5, <2>6, SMTT(60) DEF IInv, Locked, Open
  <2> QED
    BY <2>7, <2>8, SMTT(60) DEF IInv
<1> QED
  BY <1>1, <1>2, SMTT(60)

\* A commit of the inspection or of the parser starts from the state it checks.
LEMMA Committing ==
    ASSUME IInv, NEW w \in Workers, finish_inspection(w) \/ fail_parse(w) \/ persist_parsed(w)
    PROVE  IInv' /\ [Run!Next]_<<state, history>>
<1> DEFINE r == worker[w].run
<1>0. Shapes
  BY SMTT(60) DEF IInv
<1>1. ASSUME UNCHANGED run_vars, worker' = NextRow(w) \/ worker' = EndPass(w)
      PROVE  IInv' /\ [Run!Next]_<<state, history>>
  BY <1>0, <1>1, Ends, WorkerStep, SMTT(60) DEF run_vars
<1>2. ASSUME NEW from \in {"received", "inspected"}, state[r] = from,
             NEW to \in {"inspected", "parsed", "failed"}, Run!Follows(from, to),
             NEW ordinal, ordinal = Run!Position(from) + 1, Swap(r, from, to, ordinal),
             Leaves(w)
      PROVE  IInv' /\ [Run!Next]_<<state, history>>
  <2>1. to \in Run!States /\ from # "parsed"
    BY SMTT(60) DEF Run!States
  <2> HIDE DEF r
  <2>2. IInv'
    BY <1>2, <2>1, SwapKeeps, SMTT(60)
  <2>3. [Run!Next]_<<state, history>>
    BY <1>0, <1>2, <2>1, SwapIsTransition, SMTT(60)
  <2> QED
    BY <2>2, <2>3, SMTT(60)
<1>3. /\ Run!Position("received") + 1 = 2 /\ Run!Position("inspected") + 1 = 3
      /\ Run!Follows("received", "inspected") /\ Run!Follows("received", "failed")
      /\ Run!Follows("inspected", "parsed") /\ Run!Follows("inspected", "failed")
  BY SMTT(60) DEF Run!Position, Run!Follows
<1>4. CASE finish_inspection(w)
  <2>1. CASE holds_state(r, "received")
    <3> DEFINE safe == Content[ArchiveOf(r)].safe
    <3>1. state[r] = "received"
      BY <2>1, SMTT(60) DEF holds_state
    <3>2. Swap(r, "received", IF safe THEN "inspected" ELSE "failed", 2)
      BY <1>4, <2>1, ZenonT(60) DEF finish_inspection
    <3>3. worker' = IF safe THEN Enter(w, "parse") ELSE NextRow(w)
      BY <1>4, <2>1, ZenonT(60) DEF finish_inspection
    <3> HIDE DEF safe, r
    <3>4. Leaves(w)
      BY <1>0, <3>3, Ends, SMTT(60) DEF InTransaction
    <3>5. CASE safe
      BY <1>2, <1>3, <3>1, <3>2, <3>4, <3>5, SMTT(60)
    <3>6. CASE ~safe
      BY <1>2, <1>3, <3>1, <3>2, <3>4, <3>6, SMTT(60)
    <3> QED
      BY <3>5, <3>6, SMTT(60)
  <2>2. CASE ~holds_state(r, "received")
    BY <1>1, <1>4, <2>2, SMTT(60) DEF finish_inspection
  <2> QED
    BY <2>1, <2>2, SMTT(60)
<1>5. CASE fail_parse(w)
  <2>1. CASE holds_state(r, "inspected")
    <3>1. state[r] = "inspected" /\ Swap(r, "inspected", "failed", 3) /\ worker' = NextRow(w)
      BY <1>5, <2>1, SMTT(60) DEF fail_parse, holds_state
    <3>2. Leaves(w)
      BY <1>0, <3>1, Ends, SMTT(60)
    <3> HIDE DEF r
    <3> QED
      BY <1>2, <1>3, <3>1, <3>2, SMTT(60)
  <2>2. CASE ~holds_state(r, "inspected")
    BY <1>1, <1>5, <2>2, SMTT(60) DEF fail_parse
  <2> QED
    BY <2>1, <2>2, SMTT(60)
<1>6. CASE persist_parsed(w)
  <2>1. CASE holds_state(r, "inspected") /\ distinct_keys(Content[ArchiveOf(r)].records)
    <3>1. state[r] = "inspected" /\ Swap(r, "inspected", "parsed", 3)
          /\ worker' = Enter(w, "reconcile")
      BY <1>6, <2>1, SMTT(60) DEF persist_parsed, holds_state
    <3>2. Leaves(w)
      BY <1>0, <3>1, Ends, SMTT(60) DEF InTransaction
    <3> HIDE DEF r
    <3> QED
      BY <1>2, <1>3, <3>1, <3>2, SMTT(60)
  <2>2. CASE ~(holds_state(r, "inspected") /\ distinct_keys(Content[ArchiveOf(r)].records))
    BY <1>1, <1>6, <2>2, SMTT(60) DEF persist_parsed
  <2> QED
    BY <2>1, <2>2, SMTT(60)
<1> QED
  BY <1>4, <1>5, <1>6, SMTT(60)

\* The commit of a reconciliation leaves the state its transaction locked.
LEMMA CommittingReconciliation ==
    ASSUME IInv, NEW w \in Workers, commit_reconcile(w)
    PROVE  IInv' /\ [Run!Next]_<<state, history>>
<1> DEFINE r == worker[w].run
<1>1. Swap(r, "parsed", "reconciled", 4) /\ worker' = NextRow(w) /\ Open(w)
  BY SMTT(60) DEF commit_reconcile, Open, InTransaction
<1>2. Shapes /\ Leaves(w)
  BY <1>1, Ends, SMTT(60) DEF IInv
<1>3. r \in Runs => state[r] = "parsed"
  BY <1>1, SMTT(60) DEF IInv, Locked
<1>4. /\ Run!Follows("parsed", "reconciled") /\ 4 = Run!Position("parsed") + 1
      /\ "reconciled" \in Run!States
  BY SMTT(60) DEF Run!Follows, Run!Position, Run!States
<1>5. IInv'
  BY <1>1, <1>2, <1>3, <1>4, SwapKeeps, SMTT(60)
<1>6. [Run!Next]_<<state, history>>
  BY <1>1, <1>2, <1>3, <1>4, SwapIsTransition, SMTT(60)
<1> QED
  BY <1>5, <1>6, SMTT(60)

-----------------------------------------------------------------------------
(* Every step *)

\* A receipt starts a run that has no state yet, so no transaction holds it;
\* the rest of receive touches no run.
LEMMA Receiving ==
    ASSUME IInv, receive
    PROVE  IInv' /\ [Run!Next]_<<state, history>>
<1>1. PICK x \in Uploads :
        \/ \E o \in Owners, a \in Archives : copy_and_hash(x, o, a)
        \/ publish_or_verify(x)
        \/ persist_receipt(x)
        \/ abandon_upload(x)
  BY SMTT(60) DEF receive
<1>2. ASSUME UNCHANGED <<state, history, worker>>
      PROVE  IInv' /\ [Run!Next]_<<state, history>>
  BY <1>2, SMTT(60) DEF IInv, Shapes, Shaped, Locked, Open
<1>3. CASE persist_receipt(x)
  <2> DEFINE r == <<upload[x].owner, upload[x].archive>>
  <2>1. CASE state[r] = "none"
    <3> DEFINE t == {[ordinal |-> 1, from |-> "none", to |-> "received"]}
    <3>1. /\ state' = [state EXCEPT ![r] = "received"]
          /\ history' = [history EXCEPT ![r] = @ \cup t]
          /\ worker' = worker
      BY <1>3, <2>1, SMTT(60) DEF persist_receipt
    <3>2. /\ Run!Follows("none", "received") /\ Run!Position("none") + 1 = 1
          /\ "received" \in Run!States
      BY SMTT(60) DEF Run!Follows, Run!Position, Run!States
    <3>3. [Run!Next]_<<state, history>>
      <4>1. CASE r \in Runs
        <5>1. Run!Transition(r, "received")
          BY <2>1, <3>1, <3>2, ZenonT(60) DEF Run!Transition
        <5> QED
          BY <3>2, <4>1, <5>1, SMTT(60) DEF Run!Next
      <4>2. CASE r \notin Runs
        BY <3>1, <4>2 DEF IInv, Shapes
      <4> QED
        BY <4>1, <4>2, SMTT(60)
    <3> HIDE DEF r, t
    <3>4. Shapes'
      <4>1. state' \in [Runs -> Run!States]
        BY <3>1, <3>2, ZenonT(60) DEF IInv, Shapes
      <4>2. history' = [q \in Runs |-> history'[q]]
        BY <3>1, ZenonT(60) DEF IInv, Shapes
      <4> QED
        BY <3>1, <4>1, <4>2 DEF IInv, Shapes, Shaped
    <3>5. \A q \in Runs : state[q] = "parsed" => state'[q] = "parsed"
      BY <2>1, <3>1 DEF IInv, Shapes
    <3>6. Locked'
      BY <3>1, <3>5, SMTT(60) DEF IInv, Locked, Open
    <3> QED
      BY <3>3, <3>4, <3>6, SMTT(60) DEF IInv
  <2>2. CASE state[r] # "none"
    BY <1>2, <1>3, <2>2, SMTT(60) DEF persist_receipt, run_vars
  <2> QED
    BY <2>1, <2>2, SMTT(60)
<1>4. CASE ~persist_receipt(x)
  BY <1>1, <1>2, <1>4, SMTT(60) DEF copy_and_hash, publish_or_verify, abandon_upload, run_vars
<1> QED
  BY <1>3, <1>4, SMTT(60)

\* A step of a worker.
LEMMA Working ==
    ASSUME IInv, NEW w \in Workers, run_once(w) \/ crash(w)
    PROVE  IInv' /\ [Run!Next]_<<state, history>>
<1>0. Shapes
  BY SMTT(60) DEF IInv
<1>1. CASE select_batch(w) \/ advance(w)
  <2>1. UNCHANGED <<state, history>>
    BY <1>1, SMTT(60) DEF select_batch, advance, run_vars
  <2> QED
    BY <1>0, <1>1, <2>1, Selecting, WorkerStep, SMTT(60)
<1>2. CASE inspect(w) \/ parse(w)
  <2>1. UNCHANGED <<state, history>>
    BY <1>2, SMTT(60) DEF inspect, parse, StartStage, run_vars
  <2>2. \/ worker' = NextRow(w) \/ worker' = EndPass(w)
        \/ worker' = Enter(w, "finish_inspection") \/ worker' = Enter(w, "persist_parsed")
    BY <1>2, ZenonT(60) DEF inspect, parse, StartStage
  <2>3. Leaves(w)
    BY <1>0, <2>2, Ends, SMTT(60) DEF InTransaction
  <2> QED
    BY <2>1, <2>3, WorkerStep, SMTT(60)
<1>3. CASE finish_inspection(w) \/ fail_parse(w) \/ persist_parsed(w)
  BY <1>3, Committing, SMTT(60)
<1>4. CASE begin_reconcile(w)
  BY <1>4, Opening, ZenonT(60) DEF begin_reconcile, run_vars
<1>5. CASE project_record(w) \/ \E rec \in Records : reconcile_record(w, rec)
  <2>1. UNCHANGED <<state, history>>
    BY <1>5, ZenonT(60) DEF project_record, reconcile_record, run_vars
  <2> QED
    BY <1>0, <1>5, <2>1, Reconciling, WorkerStep, SMTT(60)
<1>6. CASE commit_reconcile(w)
  BY <1>6, CommittingReconciliation, SMTT(60)
<1>7. CASE crash(w)
  <2>1. UNCHANGED <<state, history>> /\ worker' = EndPass(w)
    BY <1>7, SMTT(60) DEF crash, run_vars
  <2> QED
    BY <1>0, <2>1, Ends, WorkerStep, SMTT(60)
<1> QED
  BY <1>1, <1>2, <1>3, <1>4, <1>5, <1>6, <1>7, SMTT(60) DEF run_once

\* The invariant is inductive, and every step is a step of ImportRun or leaves
\* its variables alone.
LEMMA Inductive ==
    ASSUME IInv, [Next]_vars
    PROVE  IInv' /\ [Run!Next]_<<state, history>>
<1>1. ASSUME UNCHANGED <<state, history, worker>>
      PROVE  IInv' /\ [Run!Next]_<<state, history>>
  BY <1>1, SMTT(60) DEF IInv, Shapes, Shaped, Locked, Open
<1>2. CASE receive
  BY <1>2, Receiving, SMTT(60)
<1>3. CASE \E w \in Workers : run_once(w) \/ crash(w)
  BY <1>3, Working, SMTT(60)
<1>4. CASE \E u \in Urls : store_resolution(u)
  BY <1>1, <1>4, SMTT(60) DEF store_resolution, run_vars
<1>5. CASE \E a \in Archives : damage(a)
  BY <1>1, <1>5, SMTT(60) DEF damage, run_vars
<1>6. CASE UNCHANGED vars
  BY <1>1, <1>6, SMTT(60) DEF vars
<1> QED
  BY <1>2, <1>3, <1>4, <1>5, <1>6, SMTT(60) DEF Next

\* The initial states satisfy the invariant.
LEMMA Initially == Init => IInv /\ Run!Init
<1> SUFFICES ASSUME Init PROVE IInv /\ Run!Init
  BY SMTT(60)
<1>1. Shaped(Idle) /\ Idle.step \notin InTransaction
  BY SMTT(60) DEF Shaped, Idle, InTransaction
<1>2. Shapes
  BY <1>1, SMTT(60) DEF Init, Run!Init, Shapes, Run!States
<1>3. Locked
  BY <1>1, SMTT(60) DEF Init, Locked, Open
<1> QED
  BY <1>2, <1>3, SMTT(60) DEF IInv, Init

\* An open reconciliation holds a parsed run, and no two hold the same one
\* (reconcile, the row lock of select ... for update).
THEOREM LockedAlways == Spec => []Locked
<1>1. IInv /\ [Next]_vars => IInv'
  BY Inductive, SMTT(60)
<1> QED
  BY <1>1, Initially, PTL DEF Spec, IInv

\* The import implements ImportRun: however uploads, workers, stale selections
\* and crashes interleave, a run makes each transition of its linear state
\* machine at most once and records it (receive, run_once).
THEOREM LinearRun == Spec => OneLinearRun
<1>1. IInv /\ [Next]_vars => IInv' /\ [Run!Next]_Run!vars
  BY Inductive DEF Run!vars
<1> QED
  BY <1>1, Initially, PTL DEF Spec, OneLinearRun, Run!Spec

=============================================================================
