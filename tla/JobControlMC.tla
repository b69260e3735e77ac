---------------------------- MODULE JobControlMC ----------------------------
(***************************************************************************)
(* JobControl for TLC: a value of MaxRetries and the symmetric sets.       *)
(***************************************************************************)
EXTENDS JobControl, TLC

TwoRetries == [j \in Jobs |-> 2]

Symmetric == Permutations(Runners) \union Permutations(Tasks)
=============================================================================
