------------------------------ MODULE MCOutbox ------------------------------
(***************************************************************************)
(* Small instances of OutboxRelay.                                         *)
(***************************************************************************)
EXTENDS OutboxRelay

CONSTANTS rm, e1, p1, p2    \* a removal, another row, two poisoned rows

\* p1 before p2 before the others; the removal is the youngest.
MCRank == [e \in Events |-> CASE e = p1 -> 1 [] e = p2 -> 2 [] e = e1 -> 3
                             [] e = rm -> 4]
=============================================================================
