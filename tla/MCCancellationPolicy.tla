------------------------ MODULE MCCancellationPolicy ------------------------
(***************************************************************************)
(* Two policies at most, free of charge until 24 hours before, or always.  *)
(***************************************************************************)
EXTENDS CancellationPolicy, TLC

Symmetry == Permutations(PolicyIds) \cup Permutations(Names)
            \cup Permutations(Requests)
=============================================================================
