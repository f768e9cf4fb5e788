--------------------------- MODULE MCInspection ---------------------------
(* Archives for the instance of ArchiveInspection: every pair of entries   *)
(* whose sizes reach the limits from both sides, every single defect, an   *)
(* empty archive and one entry too many.                                   *)
EXTENDS Integers, Sequences

Entry(name, compressed, size, actual) ==
    [name |-> name, bytes |-> 1, depth |-> 1, clean |-> TRUE, header |-> "same",
     encrypted |-> FALSE, method |-> "deflated", regular |-> TRUE,
     compressed |-> compressed, size |-> size, actual |-> actual, intact |-> TRUE]

Sized == {Entry(n, c, s, a) : n \in {"n1", "n2"}, c \in {0, 1, 4}, s \in {0, 2, 5},
                              a \in {2, 5, 6}}
Small == Entry("n1", 1, 2, 2)
Defective ==
    {[Small EXCEPT !.bytes = 0], [Small EXCEPT !.bytes = 3], [Small EXCEPT !.depth = 3],
     [Small EXCEPT !.clean = FALSE], [Small EXCEPT !.encrypted = TRUE],
     [Small EXCEPT !.method = "other"], [Small EXCEPT !.regular = FALSE],
     [Small EXCEPT !.intact = FALSE]}
    \union {[Small EXCEPT !.header = h] : h \in {"unreadable", "flags", "method", "name", "data"}}

Uploaded(directory, entries) == [directory |-> directory, entries |-> entries]
Whole == Uploaded("whole", <<Small>>)
MCCandidates ==
    {Uploaded("whole", <<e, f>>) : e \in Sized \union Defective,
                                   f \in {g \in Sized : g.actual = g.size}}
    \union {Uploaded(d, <<Small>>) : d \in {"missing", "multi_disk", "zip64", "bounds", "size"}}
    \union {Whole, Uploaded("whole", <<>>), Uploaded("whole", [i \in 1..3 |-> Small])}
=============================================================================
