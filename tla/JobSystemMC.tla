---------------------------- MODULE JobSystemMC ----------------------------
(***************************************************************************)
(* JobSystem for TLC: values of MaxRetries and the symmetric sets.         *)
(***************************************************************************)
EXTENDS JobSystem, TLC

\* max_retries; 0 is the default of publish().
Retries(n) == [j \in Jobs |-> n]
TwoRetries == Retries(2)
DelayedOnce == [j \in Jobs |-> IF j \in Delayed THEN 0 ELSE 2]

\* Jobs are told apart by Delayed and are left out.
Symmetric == Permutations(Runners) \union Permutations(Tasks)
=============================================================================
