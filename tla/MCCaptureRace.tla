--------------------------- MODULE MCCaptureRace ---------------------------
(***************************************************************************)
(* Two kinds of behaviour of one instance of CaptureLifecycle.             *)
(*                                                                         *)
(*   service  the deployed binary: two workers, all commands, faults       *)
(*   library  one command and no fault, with the library's own calls       *)
(*            between the steps of the workers                             *)
(***************************************************************************)
EXTENDS MCCapture

VARIABLE behaviour

RaceInit == Init /\ behaviour \in {"service", "library"}

RaceNext ==
    /\ \/ behaviour = "service" /\ ServiceStep
       \/ /\ behaviour = "library" /\ Next
          /\ \A m \in Commands \ {"m1"} : inbox'[m] = inbox[m]
          /\ faults' = faults
    /\ UNCHANGED behaviour

RaceSpec == RaceInit /\ [][RaceNext]_<<behaviour, vars>>
=============================================================================
