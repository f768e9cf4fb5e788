------------------------------ MODULE MCCapture ------------------------------
(* Instances of CaptureLifecycle.  c1 and c2 are two owners' captures of one
   permalink.  m1 and m3 carry the same operation (a re-issued command), m2 is
   a second operation on c1, m5 an operation on c2, m4 cannot be mapped. *)
EXTENDS CaptureLifecycle, TLC

MCPermalinkOf == [c \in Captures |-> "p"]

Requests == [m1 |-> <<"o1", "c1">>, m2 |-> <<"o2", "c1">>, m3 |-> <<"o1", "c1">>,
             m4 |-> <<"o3", NoCapture>>, m5 |-> <<"o5", "c2">>]

MCOperationOf == [m \in Commands |-> Requests[m][1]]
MCCaptureOf == [m \in Commands |-> Requests[m][2]]

\* Workers differ only in their names.
Interchangeable == Permutations(Workers)
=============================================================================
