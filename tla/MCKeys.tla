------------------------------- MODULE MCKeys -------------------------------
(* Instances of Keys for TLC: the runs of one command are interchangeable. *)
EXTENDS Keys, TLC

Runs == Permutations(Keygen) \cup Permutations(Sth)
=============================================================================
