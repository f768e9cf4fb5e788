---------------------------- MODULE Reprocessing ----------------------------
(***************************************************************************)
(* Parser reprocessing of a retained Data Export: the reprocess-export     *)
(* command (reprocess_export.rs) over the checkpointed runs of             *)
(* data_export_reprocessing.rs.  Invocations overlap; each reads the       *)
(* receipt, then the retained records, and then runs one transaction.      *)
(*                                                                         *)
(* Item keys are numbers in the order of the record ids.  A fingerprint is *)
(* the value it is a digest of.                                            *)
(***************************************************************************)
EXTENDS Integers, FiniteSets, FiniteSetsExt

CONSTANTS
    Owners, Imports, Operations,
    Invocations,    \* processes of the command that may run at once
    OwnerOf,        \* the owner of each import
    Kinds,          \* import -> item key -> record_kind
    Chunks,         \* configured values of max_items_per_invocation
    MaxFaults,      \* bound: invocations that stop, receipts that change state
    None

VARIABLES
    reconciled, \* the imports whose run is reconciled by the supported parser
    runs,       \* export_reprocessing_runs, by (owner, operation)
    items,      \* export_reprocessing_items of each run
    process,
    faults

vars == <<reconciled, runs, items, process, faults>>

Keys == 1..Max({Cardinality(DOMAIN Kinds[i]) : i \in Imports})
RunKeys == Owners \X Operations
NoRun == [import |-> None, plan |-> None, state |-> "none", checkpoint |-> 0]
Idle == [step |-> "idle", mode |-> None, owner |-> None, import |-> None, op |-> None]

Init ==
    /\ reconciled \in SUBSET Imports
    /\ runs = [r \in RunKeys |-> NoRun]
    /\ items = [r \in RunKeys |-> {}]
    /\ process = [p \in Invocations |-> Idle]
    /\ faults = 0

goto(p, s) == process' = [process EXCEPT ![p].step = s]
exit(p) == process' = [process EXCEPT ![p] = Idle]

-----------------------------------------------------------------------------

classification(kind) == IF kind = "other" THEN None ELSE kind

item_state(c) ==
    CASE c = "conflict" -> "conflict"
      [] c = "warning" -> "warning"
      [] c = "omitted" -> "skipped"
      [] OTHER -> "applied"

\* The items in key order; the plan fingerprint covers all of them.
render_report(i) ==
    [items |-> [k \in DOMAIN Kinds[i] |-> classification(Kinds[i][k])],
     state_fingerprint |-> i]

with_warnings(report) ==
    \E k \in DOMAIN report.items : report.items[k] \in {"warning", "conflict"}

\* parse_reprocess_command: dry-run takes no operation, apply needs one.
run(p, mode, o, i, op) ==
    /\ process[p].step = "idle"
    /\ (mode = "dry_run") <=> (op = None)
    /\ process' = [process EXCEPT ![p] = [step |-> "load", mode |-> mode, owner |-> o,
                                          import |-> i, op |-> op]]
    /\ UNCHANGED <<reconciled, runs, items, faults>>

\* The receipt of another owner, or of a run that is not reconciled, is not
\* found; a record kind nobody registered refuses the whole receipt.
load_reprocessing_inputs(p) ==
    LET i == process[p].import
    IN  /\ process[p].step = "load"
        /\ IF /\ OwnerOf[i] = process[p].owner /\ i \in reconciled
              /\ \A k \in DOMAIN Kinds[i] : classification(Kinds[i][k]) # None
           THEN goto(p, process[p].mode) ELSE exit(p)
        /\ UNCHANGED <<reconciled, runs, items, faults>>

\* Renders the same report as apply and writes nothing.
dry_run(p) ==
    /\ process[p].step = "dry_run"
    /\ exit(p)
    /\ UNCHANGED <<reconciled, runs, items, faults>>

-----------------------------------------------------------------------------
(* apply_chunk: one transaction.  The row of a run is locked while it is   *)
(* updated; two invocations that both insert it meet at the unique key,    *)
(* and the second fails with no effect.                                    *)

receipt_ready(p) ==
    OwnerOf[process[p].import] = process[p].owner /\ process[p].import \in reconciled

\* Variant: any plan may continue the run.
AnyPlan(r, p) == TRUE

same_plan(r, p) ==
    /\ runs[r].import = process[p].import
    /\ runs[r].plan = render_report(process[p].import)

finished(state) == state \in {"completed", "completed_with_warnings"}

\* Variant: the chunk resumes one item too far.
SkipsAfterCheckpoint(r, report, max_items) ==
    LET start == IF items[r] = {} THEN 0 ELSE runs[r].checkpoint + 1
    IN  {k \in DOMAIN report.items : start < k /\ k <= start + max_items}

\* The first max_items keys that have no row yet.
next_items(r, report, max_items) ==
    LET pending == DOMAIN report.items \ items[r]
    IN  {k \in pending : Cardinality({j \in pending : j < k}) < max_items}

finish_reprocessing_run(r, report, chunk) ==
    LET committed == items[r] \cup chunk
        completed == Cardinality(committed) = Cardinality(DOMAIN report.items)
    IN  runs' = [runs EXCEPT ![r] =
           [import |-> report.state_fingerprint, plan |-> report,
            state |-> IF ~completed THEN "running"
                      ELSE IF with_warnings(report) THEN "completed_with_warnings"
                      ELSE "completed",
            checkpoint |-> IF chunk = {} THEN @.checkpoint ELSE Max(chunk)]]

apply_chunk(p, max_items) ==
    LET r == <<process[p].owner, process[p].op>>
        report == render_report(process[p].import)
        chunk == next_items(r, report, max_items)
    IN  /\ process[p].step = "apply"
        /\ receipt_ready(p)
        /\ runs[r] = NoRun \/ same_plan(r, p)
        /\ IF finished(runs[r].state) THEN UNCHANGED <<runs, items>>
           ELSE /\ items' = [items EXCEPT ![r] = @ \cup chunk]
                /\ finish_reprocessing_run(r, report, chunk)
        /\ exit(p)
        /\ UNCHANGED <<reconciled, faults>>

refuse(p) ==
    LET r == <<process[p].owner, process[p].op>>
    IN  /\ process[p].step = "apply"
        /\ ~receipt_ready(p) \/ (runs[r] # NoRun /\ ~same_plan(r, p))
        /\ exit(p)
        /\ UNCHANGED <<reconciled, runs, items, faults>>

unique_violation(p) ==
    /\ process[p].step = "apply"
    /\ \E q \in Invocations \ {p} : process[q].step = "apply" /\ process[q].op = process[p].op
                                    /\ process[q].owner = process[p].owner
    /\ runs[<<process[p].owner, process[p].op>>] = NoRun
    /\ exit(p)
    /\ UNCHANGED <<reconciled, runs, items, faults>>

-----------------------------------------------------------------------------

reconcile(i) ==
    /\ i \notin reconciled
    /\ reconciled' = reconciled \cup {i}
    /\ UNCHANGED <<runs, items, process, faults>>

stop(p) ==
    /\ process[p].step # "idle" /\ faults < MaxFaults
    /\ faults' = faults + 1
    /\ exit(p)
    /\ UNCHANGED <<reconciled, runs, items>>

Next ==
    \/ \E p \in Invocations, o \in Owners, i \in Imports :
         \/ run(p, "dry_run", o, i, None)
         \/ \E op \in Operations : run(p, "apply", o, i, op)
    \/ \E p \in Invocations :
         \/ load_reprocessing_inputs(p) \/ dry_run(p) \/ refuse(p) \/ unique_violation(p) \/ stop(p)
         \/ \E n \in Chunks : apply_chunk(p, n)
    \/ \E i \in Imports : reconcile(i)

Spec == Init /\ [][Next]_vars

-----------------------------------------------------------------------------
(* Properties *)

\* The rows have the columns of the schema.
TypeOK ==
    /\ reconciled \subseteq Imports
    /\ \A r \in RunKeys :
         /\ runs[r] = NoRun \/
              /\ runs[r].import \in Imports /\ runs[r].checkpoint \in 0..Max(Keys)
              /\ runs[r].state \in {"running", "completed", "completed_with_warnings"}
         /\ items[r] \subseteq Keys

\* Whatever invocations overlap, stop or change their chunk size, the
\* committed items of a run are a prefix of its plan that ends at the
\* checkpoint, and the run is finished exactly when the prefix is the plan:
\* a resumed apply neither repeats nor skips an item.
CommittedIsPrefix ==
    \A r \in RunKeys : runs[r] # NoRun =>
        /\ items[r] = {k \in DOMAIN runs[r].plan.items : k <= runs[r].checkpoint}
        /\ finished(runs[r].state) <=> items[r] = DOMAIN runs[r].plan.items

\* An operation identity belongs to one owner's import for ever: a run only
\* gains items of the plan it was started with, and a finished run is never
\* reopened or rewritten by a replay.
RunIsStable ==
    [][\A r \in RunKeys : runs[r] # NoRun =>
         /\ runs'[r].import = runs[r].import /\ runs'[r].plan = runs[r].plan
         /\ items[r] \subseteq items'[r]
         /\ finished(runs[r].state) => runs'[r] = runs[r] /\ items'[r] = items[r]]_vars

\* No run exists for an import of another owner or one that was not
\* reconciled: apply refuses both before it writes.
RunOfOwnImport ==
    \A r \in RunKeys : runs[r] # NoRun => OwnerOf[runs[r].import] = r[1] /\ runs[r].import \in reconciled
=============================================================================
