---------------------------- MODULE MCWholePage ----------------------------
(***************************************************************************)
(* Values of the constants of WholePage for TLC.                           *)
(***************************************************************************)
EXTENDS WholePage, TLC

\* Every load, and stores of every value but the initial one.
LoadsAndMarks ==
    {a \in Access : a.op = "load" /\ a.val = Zero}
        \cup {a \in Access : a.op = "store" /\ a.val # Zero}

Symmetry == Permutations(Regions) \cup Permutations(Pages) \cup Permutations(Words)
=============================================================================
