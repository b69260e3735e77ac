------------------------------ MODULE JobStore ------------------------------
(***************************************************************************)
(* The state the parts of mojo/apps/jobs share: the Job rows in the        *)
(* database and, for one channel, the Redis keys named in keys.py.  The    *)
(* engine, the scheduler and the publisher meet only here.                 *)
(*                                                                         *)
(* Time is abstracted: a score in the in-flight ZSET is "fresh" until the  *)
(* visibility timeout has passed and "stale" after it, a score in the      *)
(* scheduled ZSET is "waiting" until run_at and "due" after it, and a job  *)
(* is in overdue once its expires_at has passed.                           *)
(***************************************************************************)
EXTENDS Integers, Sequences, FiniteSets

CONSTANTS
    Jobs,        (* job ids *)
    Runners,     (* runner ids: one JobEngine process each *)
    NoJob,
    NoRunner,
    MaxRetries,  (* Job.max_retries of each job *)
    Delayed,     (* the jobs published with a delay or a run_at *)
    JobsExpire,  (* whether expires_at may pass within a behaviour *)
    Faults,      (* the kinds of fault that may happen *)
    MaxFaults    (* how many faults a behaviour may contain *)

\* What may go wrong:
\*   crash        a process dies at any moment but those of the next two
\*   windowCrash  a process dies between two calls that move a job from one
\*                Redis key to another, or from the database to Redis
\*   retryCrash   an engine dies while a retry is in both ZSETs
\*   stop         an engine is asked to shut down
\*   windowStop   ... and drops an id its main loop or its reaper was moving
\*   stall        a live engine's heartbeat or reaper misses its deadline
\*   lateTouch    a heartbeat's ZADD lands after the ZREM of a finished job
\*   lateDelete   the scheduler's key expires between the GET and the DELETE
\*                of its release
\*   redis, db    one call to Redis, to the database, raises
\*   lostReply    one call to Redis is applied and raises all the same
\*   republish    a second publish with the same idempotency key
FaultKinds == {"crash", "windowCrash", "retryCrash", "stop", "windowStop",
               "stall", "lateTouch", "lateDelete", "redis", "lostReply", "db",
               "republish"}

ASSUME StoreAssumption ==
    /\ MaxRetries \in [Jobs -> Nat]
    /\ Faults \in SUBSET FaultKinds
    /\ MaxFaults \in Nat
    /\ Delayed \in SUBSET Jobs
    /\ JobsExpire \in BOOLEAN
    /\ NoJob \notin Jobs
    /\ NoRunner \notin Runners

VARIABLES
    rows,     (* the jobs_job table *)
    queue,    (* the List  jobs:queue of the channel *)
    lease,    (* the ZSET  jobs:processing: when each in-flight job was touched *)
    sched,    (* the ZSET  jobs:sched: when each delayed job is to run *)
    overdue,  (* the jobs whose expires_at has passed *)
    used      (* how many faults have happened *)

storeVars == <<rows, queue, lease, sched, overdue, used>>

Terminal == {"completed", "failed", "canceled", "expired"}
Status == {"absent", "pending", "running"} \union Terminal

\* unqueued: last_error starts with "Failed to queue:".
Row == [status : Status, attempt : Nat, runner : Runners \union {NoRunner},
        unqueued : BOOLEAN]

StoreTypeOK ==
    /\ rows \in [Jobs -> Row]
    /\ queue \in Seq(Jobs)
    /\ lease \in [Jobs -> {"none", "fresh", "stale"}]
    /\ sched \in [Jobs -> {"none", "waiting", "due"}]
    /\ overdue \in SUBSET Jobs
    /\ used \in 0..MaxFaults

StoreInit ==
    /\ rows = [j \in Jobs |-> [status |-> "absent", attempt |-> 0,
                               runner |-> NoRunner, unqueued |-> FALSE]]
    /\ queue = <<>>
    /\ lease = [j \in Jobs |-> "none"]
    /\ sched = [j \in Jobs |-> "none"]
    /\ overdue = {}
    /\ used = 0

Spend(f) ==
    /\ f \in Faults
    /\ used < MaxFaults
    /\ used' = used + 1

-----------------------------------------------------------------------------
(* Operations of the store.                                                *)

\* RPUSH; with BRPOP below both ends of the traffic are the tail.
Push(j) == queue' = Append(queue, j)

\* BRPOP takes from the tail.
Tail1 == queue[Len(queue)]
PopTail == queue' = SubSeq(queue, 1, Len(queue) - 1)

\* ZADD, ZREM and the scores the reaper fetches.
Touch(j) == lease' = [lease EXCEPT ![j] = "fresh"]
RemoveFromProcessing(j) == lease' = [lease EXCEPT ![j] = "none"]
StaleJobs == {j \in Jobs : lease[j] = "stale"}

\* job.save(update_fields=['status', ...]): no condition on the stored row.
SaveStatus(j, s) == rows' = [rows EXCEPT ![j].status = s]

\* The same save with last_error among the fields.
SaveError(j, s, u) ==
    rows' = [rows EXCEPT ![j].status = s, ![j].unqueued = u]

\* Mutant: one retry too many.
RetryableOnceMore(j) == rows[j].attempt <= MaxRetries[j]

\* attempt < max_retries, the test of the failure handler and of the reaper.
Retryable(j) == rows[j].attempt < MaxRetries[j]

-----------------------------------------------------------------------------
(* The passing of time.                                                    *)

\* run_at of a delayed job passes (JobSystem says what it costs).
BecomeDue(j) ==
    /\ sched[j] = "waiting"
    /\ sched' = [sched EXCEPT ![j] = "due"]
    /\ UNCHANGED <<rows, queue, lease, overdue>>

\* expires_at of a job passes.
BecomeOverdue(j) ==
    /\ JobsExpire
    /\ j \notin overdue
    /\ rows[j].status # "absent"
    /\ overdue' = overdue \union {j}
    /\ UNCHANGED <<rows, queue, lease, sched, used>>
=============================================================================
