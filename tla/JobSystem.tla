------------------------------ MODULE JobSystem ------------------------------
(***************************************************************************)
(* Publisher, scheduler and engines over one store.                        *)
(***************************************************************************)
EXTENDS JobEngine, JobScheduler, JobPublisher

vars == <<storeVars, engineVars, promo, pub>>

Init == StoreInit /\ EngineInit /\ SchedulerInit /\ PublisherInit

Engine == EngineNext /\ UNCHANGED <<promo, pub>>
Scheduler == SchedulerNext /\ UNCHANGED <<engineVars, pub>>
Publisher == PublisherNext /\ UNCHANGED <<engineVars, promo>>

\* The engine that schedules a retry removes its lease and ends its future
\* next, the backoff being seconds away: a run_at that passes before is a stall.
BackingOff(j) == \E t \in Tasks : JobOf(t) = j /\ task[t].pc \in {"scheduled", "done"}
RunAtPasses(j) ==
    /\ BecomeDue(j)
    /\ IF BackingOff(j) THEN Spend("stall") ELSE UNCHANGED used
    /\ UNCHANGED <<engineVars, promo, pub>>
ExpiryPasses(j) == BecomeOverdue(j) /\ UNCHANGED <<engineVars, promo, pub>>
Clock == \E j \in Jobs : RunAtPasses(j) \/ ExpiryPasses(j)

Next == Engine \/ Scheduler \/ Publisher \/ Clock

Spec == Init /\ [][Next]_vars

TypeOK == StoreTypeOK /\ EngineTypeOK /\ SchedulerTypeOK /\ PublisherTypeOK

-----------------------------------------------------------------------------
(* Safety.                                                                 *)

\* The futures that are past their claim and not yet through with the row.
Holds(t) == task[t].pc \in {"refresh", "run", "save"}

\* The claim is a fence: two futures that hold the same job, on one runner or
\* on two, have claimed different attempts of it, and none an attempt the row
\* has not reached.  The attempt a future reads back is its own or a later one.
\* True whatever crashes, stalls or is delivered twice.
ClaimFence ==
    /\ \A t \in Tasks : Holds(t) =>
          /\ task[t].att \in 1..rows[JobOf(t)].attempt
          /\ task[t].pc # "refresh" => task[t].ran \in task[t].att..rows[JobOf(t)].attempt
    /\ \A t, u \in Tasks :
          (t # u /\ Holds(t) /\ Holds(u) /\ JobOf(t) = JobOf(u))
             => task[t].att # task[u].att

\* The attempt a job is executed under is the one its claim counted, though it
\* is read back in a second call.  A lease that goes stale between the two lets
\* another claim in, and both executions then run under its attempt.
OwnAttempt ==
    \A t \in Tasks : task[t].pc \in {"run", "save"} => task[t].ran = task[t].att

\* One execution of a job at a time.
ExclusiveExecution ==
    \A t, u \in Tasks :
       (t # u /\ Holds(t) /\ Holds(u)) => JobOf(t) # JobOf(u)

\* Where the id of a job may be waiting for somebody to act on it.
InQueue(j) == \E i \in 1..Len(queue) : queue[i] = j
InTask(j) == \E t \in Tasks :
    JobOf(t) = j /\ task[t].pc \in {"queued", "expire", "claim", "fail", "retry", "sched", "scheduled"}
InReaper(j) == \E r \in Runners :
    reaper[r].job = j /\ reaper[r].pc \notin {"idle", "drop"}
InHand(j) == \E r \in Runners : hand[r] = j

Carried(j) ==
    \/ InQueue(j) \/ InTask(j) \/ InReaper(j) \/ InHand(j)
    \/ sched[j] # "none" \/ promo[j] # "none" \/ lease[j] # "none" \/ pub[j] > 0

\* A pending row is never forgotten: its id is in the queue, in a ZSET, or in
\* the hands of a live process.
PendingIsCarried ==
    \A j \in Jobs : rows[j].status = "pending" => Carried(j)

\* A running row is worked on by a live engine, or its lease is there for the
\* reaper to find, or a reaper has found it.
RunningIsRecoverable ==
    \A j \in Jobs : rows[j].status = "running" =>
       \/ lease[j] # "none"
       \/ InReaper(j)
       \/ \E t \in Tasks : JobOf(t) = j /\ task[t].pc \in {"refresh", "run", "save", "fail", "retry", "giveup"}

\* A running row names the engine whose future claimed its latest attempt.
OwnerRunsIt ==
    \A t \in Tasks :
       (/\ Holds(t)
        /\ rows[JobOf(t)].status = "running"
        /\ task[t].att = rows[JobOf(t)].attempt)
       => rows[JobOf(t)].runner = task[t].runner

\* "Don't claim more than we can execute - let other engines help": the ids
\* an engine has popped and not finished never exceed its workers.
NoOverclaim ==
    \A r \in Runners :
       Cardinality(TaskOf(r)) + (IF hand[r] # NoJob THEN 1 ELSE 0) <= MaxWorkers

\* A retry waits its backoff out: while its entry is not due, no copy of the
\* id is in the queue or claimed.
RetryWaits ==
    \A j \in Jobs : sched[j] = "waiting" =>
       /\ ~InQueue(j) /\ ~InHand(j)
       /\ \A t \in Tasks : JobOf(t) = j => task[t].pc \in {"scheduled", "done"}

\* A finished row stays finished.
FinishedStaysFinished ==
    [][\A j \in Jobs :
          rows[j].status \in Terminal => rows'[j].status = rows[j].status]_vars

-----------------------------------------------------------------------------
(* The rows alone implement the promise.                                   *)
Lifecycle1 == INSTANCE JobLifecycle WITH
    status <- [j \in Jobs |-> rows[j].status],
    attempt <- [j \in Jobs |-> rows[j].attempt]
Promise == Lifecycle1!Spec

-----------------------------------------------------------------------------
(* Liveness.                                                               *)

EngineOnly(A) == A /\ UNCHANGED <<promo, pub>>

\* Every thread of a live process keeps running, a process that is down is
\* started again, Redis locks and leases expire and run_at passes; no fault is
\* ever owed.  A job function is assumed to return or raise (Work); nobody has to publish.
Fairness ==
    /\ \A r \in Runners :
          /\ WF_vars(EngineOnly(MainLoop(r)))
          /\ WF_vars(EngineOnly(TouchActive(r)))
          /\ WF_vars(EngineOnly(ReapFetch(r)))
          /\ WF_vars(EngineOnly(Reap(r)))
          /\ WF_vars(EngineOnly(Exit(r)))
          /\ WF_vars(EngineOnly(Start(r)))
    /\ \A t \in Tasks : WF_vars(EngineOnly(Work(t)))
    /\ WF_vars(EngineOnly(ReapLockExpires) /\ UNCHANGED used)
    /\ \A j \in Jobs :
          /\ WF_vars(EngineOnly(LeaseAges(j)) /\ UNCHANGED used)
          /\ SF_vars(RunAtPasses(j) /\ UNCHANGED used)
          /\ WF_vars(Mirror(j) /\ UNCHANGED <<engineVars, promo>>)
          /\ WF_vars(Promote(j) /\ UNCHANGED <<engineVars, pub>>)
    /\ WF_vars((PopScheduled \/ AddBack) /\ UNCHANGED <<engineVars, pub>>)

FairSpec == Spec /\ Fairness

\* Every published job ends, and stays ended.
EveryJobEnds ==
    \A j \in Jobs :
       (rows[j].status = "pending") ~> [](rows[j].status \in Terminal)
=============================================================================
