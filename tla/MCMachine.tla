----------------------------- MODULE MCMachine -----------------------------
(* Machine on a small host: model values are interchangeable. *)
EXTENDS Machine, TLC

Symmetry == Permutations(Machines) \cup Permutations(Pids)
=============================================================================
