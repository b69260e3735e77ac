---------------------------- MODULE JobLifecycle ----------------------------
(***************************************************************************)
(* What the jobs app promises of one Job row: the transitions of its       *)
(* status and the number of its attempts, without queues or processes.     *)
(***************************************************************************)
EXTENDS Integers

CONSTANTS Jobs, MaxRetries

VARIABLES status, attempt

Terminal == {"completed", "failed", "canceled", "expired"}

Init ==
    /\ status = [j \in Jobs |-> "absent"]
    /\ attempt = [j \in Jobs |-> 0]

Move(j, from, to) ==
    /\ status[j] = from
    /\ status' = [status EXCEPT ![j] = to]

\* max_retries counts claims, the first one included.
Retryable(j) == attempt[j] < MaxRetries[j]

Create(j) == Move(j, "absent", "pending") /\ UNCHANGED attempt

\* Only a claim counts an attempt.
Claim(j) ==
    /\ Move(j, "pending", "running")
    /\ attempt' = [attempt EXCEPT ![j] = @ + 1]

Complete(j) == Move(j, "running", "completed") /\ UNCHANGED attempt

\* A retry, after an exception or a lost runner, while attempts are left.
Retry(j) == Retryable(j) /\ Move(j, "running", "pending") /\ UNCHANGED attempt

\* No attempt is left, after an exception or a lost runner.
Fail(j) ==
    /\ ~Retryable(j)
    /\ Move(j, "running", "failed") \/ Move(j, "pending", "failed")
    /\ UNCHANGED attempt

\* The engine expires a pending row, the reaper a running one too.
Expire(j) ==
    /\ Move(j, "pending", "expired") \/ Move(j, "running", "expired")
    /\ UNCHANGED attempt

Next == \E j \in Jobs : \/ Create(j) \/ Claim(j) \/ Complete(j)
                        \/ Retry(j) \/ Fail(j) \/ Expire(j)

vars == <<status, attempt>>
Spec == Init /\ [][Next]_vars
=============================================================================
