------------------------------ MODULE ImportRun ------------------------------
(***************************************************************************)
(* What a Data Export import promises of one run (schema.sql, tables       *)
(* import_runs and import_run_transitions): the run is received once, then *)
(* advances one stage at a time to "reconciled", or fails at a stage that  *)
(* may fail, and every transition it makes is recorded once with the next  *)
(* ordinal.  DataExport implements this with overlapping workers.          *)
(***************************************************************************)
EXTENDS Integers

CONSTANT Runs

VARIABLES
    state,      \* import_runs.state, "none" before the receipt
    history     \* import_run_transitions of each run

vars == <<state, history>>

States == {"none", "received", "inspected", "parsed", "reconciled", "failed"}

\* The transitions the table's check constraint admits and the code performs.
Follows(from, to) ==
    \/ from = "none" /\ to = "received"
    \/ from = "received" /\ to \in {"inspected", "failed"}
    \/ from = "inspected" /\ to \in {"parsed", "failed"}
    \/ from = "parsed" /\ to = "reconciled"

\* Completed stages before a run is in the state s.
Position(s) ==
    CASE s = "none" -> 0
      [] s = "received" -> 1
      [] s = "inspected" -> 2
      [] s = "parsed" -> 3
      [] OTHER -> 4

Init ==
    /\ state = [r \in Runs |-> "none"]
    /\ history = [r \in Runs |-> {}]

Transition(r, to) ==
    /\ Follows(state[r], to)
    /\ state' = [state EXCEPT ![r] = to]
    /\ history' = [history EXCEPT
         ![r] = @ \cup {[ordinal |-> Position(state[r]) + 1, from |-> state[r], to |-> to]}]

Next == \E r \in Runs, to \in States : Transition(r, to)

Spec == Init /\ [][Next]_vars
=============================================================================
