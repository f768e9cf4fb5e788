--------------------------- MODULE RemovalHandshake ---------------------------
(***************************************************************************)
(* What the service promises about a removal, without passes, copies or    *)
(* timers: it is offered to Knowledge, Knowledge answers, and the removal  *)
(* is settled once, with an answer Knowledge gave                          *)
(* (publishing/removal_ack.rs, deletion_acks.rs).                          *)
(***************************************************************************)

CONSTANT Removals

VARIABLES
    offered,    \* removals the broker has taken at least once
    answers,    \* what Knowledge has answered to each
    settled     \* the answer on record, or "no"

AckOutcome == {"applied", "refused"}

vars == <<offered, answers, settled>>

Init ==
    /\ offered = {}
    /\ answers = [e \in Removals |-> {}]
    /\ settled = [e \in Removals |-> "no"]

Offer(e) ==
    /\ offered' = offered \cup {e}
    /\ UNCHANGED <<answers, settled>>

Answer(e, o) ==
    /\ e \in offered
    /\ answers' = [answers EXCEPT ![e] = @ \cup {o}]
    /\ UNCHANGED <<offered, settled>>

Settle(e, o) ==
    /\ o \in answers[e] /\ settled[e] = "no"
    /\ settled' = [settled EXCEPT ![e] = o]
    /\ UNCHANGED <<offered, answers>>

Next == \E e \in Removals : Offer(e) \/ \E o \in AckOutcome : Answer(e, o) \/ Settle(e, o)

Spec == Init /\ [][Next]_vars
=============================================================================
