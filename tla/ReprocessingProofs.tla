------------------------- MODULE ReprocessingProofs -------------------------
(***************************************************************************)
(* What an operation identity is bound to, for any owners, imports,        *)
(* invocations and chunk sizes.  Invocations carry what they loaded across *)
(* a read and a transaction, so nothing about them is assumed: apply_chunk *)
(* checks the receipt and the plan again in the transaction that writes.   *)
(***************************************************************************)
EXTENDS Reprocessing, TLAPS

\* The rows exist for every run key, and belong to a reconciled import of the
\* owner.
IInv ==
    /\ runs = [r \in RunKeys |-> runs[r]]
    /\ items = [r \in RunKeys |-> items[r]]
    /\ RunOfOwnImport

Stable ==
    \A r \in RunKeys : runs[r] # NoRun =>
      /\ runs'[r].import = runs[r].import /\ runs'[r].plan = runs[r].plan
      /\ items[r] \subseteq items'[r]
      /\ finished(runs[r].state) => runs'[r] = runs[r] /\ items'[r] = items[r]

\* A transaction of apply_chunk that finds the run finished writes nothing,
\* and any other writes one run under the plan it was started with.
LEMMA Applying ==
    ASSUME IInv, NEW p \in Invocations, NEW n, apply_chunk(p, n)
    PROVE  IInv' /\ Stable
<1> DEFINE i == process[p].import
           r == <<process[p].owner, process[p].op>>
           report == render_report(i)
           chunk == next_items(r, report, n)
<1>0. /\ OwnerOf[i] = process[p].owner /\ i \in reconciled /\ reconciled' = reconciled
      /\ runs[r] = NoRun \/ (runs[r].import = i /\ runs[r].plan = report)
  BY DEF apply_chunk, receipt_ready, same_plan
<1>1. CASE finished(runs[r].state)
  <2>1. runs' = runs /\ items' = items
    BY <1>1 DEF apply_chunk
  <2> QED
    BY <1>0, <2>1 DEF IInv, RunOfOwnImport, Stable
<1>2. CASE ~finished(runs[r].state)
  <2>1. items' = [items EXCEPT ![r] = items[r] \cup chunk]
    BY <1>2 DEF apply_chunk
  <2>2. PICK s, c : runs' = [runs EXCEPT ![r] =
                    [import |-> report.state_fingerprint, plan |-> report,
                     state |-> s, checkpoint |-> c]]
    BY <1>2, ZenonT(60) DEF apply_chunk, finish_reprocessing_run
  <2>3. report.state_fingerprint = i
    BY DEF render_report
  <2> DEFINE x == [import |-> report.state_fingerprint, plan |-> report,
                   state |-> s, checkpoint |-> c]
  <2>4. runs' = [runs EXCEPT ![r] = x] /\ x.import = i /\ x.plan = report
    BY <2>2, <2>3
  <2>5. r[1] = process[p].owner
    OBVIOUS
  <2> HIDE DEF r, report, chunk, i, x
  <2>6. \A q \in RunKeys \ {r} : runs'[q] = runs[q] /\ items'[q] = items[q]
    BY <2>1, <2>4, ZenonT(60) DEF IInv
  <2>7. r \in RunKeys => runs'[r] = x /\ items'[r] = items[r] \cup chunk
    BY <2>1, <2>4 DEF IInv
  <2>8. /\ runs' = [q \in RunKeys |-> runs'[q]]
        /\ items' = [q \in RunKeys |-> items'[q]]
    BY <2>1, <2>4, ZenonT(60) DEF IInv
  <2>9. RunOfOwnImport'
    BY <1>0, <2>4, <2>5, <2>6, <2>7, ZenonT(60) DEF IInv, RunOfOwnImport
  <2>10. Stable
    BY <1>0, <1>2, <2>4, <2>6, <2>7 DEF Stable
  <2> QED
    BY <2>8, <2>9, <2>10 DEF IInv
<1> QED
  BY <1>1, <1>2

\* Every other step leaves the runs alone.
LEMMA Inductive ==
    ASSUME IInv, [Next]_vars
    PROVE  IInv' /\ Stable
<1>1. ASSUME runs' = runs, items' = items, reconciled \subseteq reconciled'
      PROVE  IInv' /\ Stable
  BY <1>1 DEF IInv, RunOfOwnImport, Stable
<1>2. CASE \E p \in Invocations, n \in Chunks : apply_chunk(p, n)
  BY <1>2, Applying
<1>3. CASE \E p \in Invocations, o \in Owners, i \in Imports :
             \/ run(p, "dry_run", o, i, None)
             \/ \E op \in Operations : run(p, "apply", o, i, op)
  BY <1>1, <1>3 DEF run
<1>4. CASE \E p \in Invocations : load_reprocessing_inputs(p) \/ dry_run(p) \/ refuse(p)
                                  \/ unique_violation(p) \/ stop(p)
  BY <1>1, <1>4 DEF load_reprocessing_inputs, dry_run, refuse, unique_violation, stop
<1>5. CASE \E i \in Imports : reconcile(i)
  BY <1>1, <1>5 DEF reconcile
<1>6. CASE UNCHANGED vars
  BY <1>1, <1>6 DEF vars
<1> QED
  BY <1>2, <1>3, <1>4, <1>5, <1>6 DEF Next

\* The initial states satisfy the invariant.
LEMMA Initially == Init => IInv
BY DEF Init, IInv, RunOfOwnImport

\* A run exists only for a reconciled import of its owner (apply_chunk).
THEOREM RunsOfOwnImports == Spec => []RunOfOwnImport
<1>1. IInv /\ [Next]_vars => IInv'
  BY Inductive
<1> QED
  BY <1>1, Initially, PTL DEF Spec, IInv

\* An operation identity keeps its import, its plan and its items, and a
\* finished run is never rewritten, however invocations overlap or stop
\* (apply_chunk, finish_reprocessing_run).
THEOREM RunsAreStable == Spec => RunIsStable
<1>1. IInv /\ [Next]_vars =>
        IInv' /\ [\A r \in RunKeys : runs[r] # NoRun =>
                    /\ runs'[r].import = runs[r].import /\ runs'[r].plan = runs[r].plan
                    /\ items[r] \subseteq items'[r]
                    /\ finished(runs[r].state) => runs'[r] = runs[r] /\ items'[r] = items[r]]_vars
  BY Inductive DEF Stable
<1> QED
  BY <1>1, Initially, PTL DEF Spec, RunIsStable

=============================================================================
