------------------------------ MODULE MCExport ------------------------------
(* Archives for the instances of DataExport. *)
EXTENDS DataExport

CONSTANTS o1, a1, a2, a3

\* The post 1 is named by two permalinks: /p/ and /reel/.
P1 == [post |-> 1, url |-> "p1", at |-> 1]
R1 == [post |-> 1, url |-> "r1", at |-> 1]
P2 == [post |-> 2, url |-> "p2", at |-> 1]

Archive(records) ==
    [size |-> 1, safe |-> TRUE, layout |-> TRUE, records |-> records, unknown |-> <<>>]
\* An archive over the body limit.
TooLarge == [Archive(<<P1>>) EXCEPT !.size = 2]

Exports(first, second) == (a1 :> first) @@ (a2 :> second) @@ (a3 :> TooLarge)

\* Two archives that overlap, the first in the reverse of the provider order.
Overlapping == Exports(Archive(<<P2, P1>>), Archive(<<P1, P2>>))
\* Two archives that name one post differently; the first has two equal items
\* and a third that the parser does not know.
Renamed == Exports([Archive(<<P1>>) EXCEPT !.unknown = <<8, 7, 8>>], Archive(<<R1>>))
\* An unsafe archive and one of another layout.
Refused == Exports([Archive(<<P1>>) EXCEPT !.layout = FALSE],
                   [Archive(<<P1>>) EXCEPT !.safe = FALSE])
\* An archive that repeats a record.
Repeated == Exports(Archive(<<P1, P1>>), TooLarge)
=============================================================================
