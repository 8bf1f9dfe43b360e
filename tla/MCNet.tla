------------------------------- MODULE MCNet -------------------------------
(***************************************************************************)
(* Neighbours and their addresses are interchangeable.                     *)
(***************************************************************************)
EXTENDS Net, TLC

Symmetry == Permutations(Hosts) \cup Permutations(MACs)
=============================================================================
