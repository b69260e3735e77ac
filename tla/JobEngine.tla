------------------------------ MODULE JobEngine ------------------------------
(***************************************************************************)
(* mojo/apps/jobs/job_engine.py: the runner daemons.  Each runner is a     *)
(* main loop that claims job ids with BRPOP, a pool of worker threads that *)
(* execute them, a heartbeat thread that touches the in-flight ZSET, and a *)
(* reaper thread that requeues jobs whose lease went stale.                *)
(*                                                                         *)
(* A step is one call to Redis or to the database, so that every other     *)
(* thread and process may run between two of them.                         *)
(***************************************************************************)
EXTENDS JobStore

CONSTANTS
    Tasks,         (* the futures of all executors, a bound on those pending *)
    MaxWorkers     (* max_workers of every engine *)

ASSUME EngineAssumption == MaxWorkers \in Nat \ {0}

VARIABLES
    phase,     (* "up", "stopping" (stop() called) or "down" *)
    hand,      (* the id the main loop has popped and not yet submitted *)
    active,    (* active_jobs: a dict keyed by job id *)
    touching,  (* the heartbeat's snapshot of active_jobs still to touch *)
    task,      (* the futures: where execute_job stands in each *)
    reaper,    (* where the reaper stands in its current entry *)
    batch,     (* the stale ids the reaper has fetched and not yet handled *)
    reapLock   (* the holder of reaper_lock(channel) *)

engineVars == <<phase, hand, active, touching, task, reaper, batch, reapLock>>

TaskPC == {"free", "queued", "expire", "claim", "refresh", "run", "save",
           "release", "account", "fail", "retry", "sched", "scheduled",
           "giveup", "unlease", "done"}
ReaperPC == {"idle", "drop", "expire", "expireSave", "fail", "failSave",
             "reset", "requeue", "push"}

NoTask == [pc |-> "free", job |-> NoJob, runner |-> NoRunner, att |-> 0, ran |-> 0]
IdleReaper == [pc |-> "idle", job |-> NoJob]

\* att is the attempt its claim wrote to the row, which the code does not keep
\* (history); ran the attempt it read back and executes the function under.
Future == [pc : TaskPC, job : Jobs \union {NoJob},
           runner : Runners \union {NoRunner}, att : Nat, ran : Nat]

TaskTypeOK ==
    /\ task \in [Tasks -> Future]
    /\ \A t \in Tasks : task[t].pc # "free" =>
          task[t].job \in Jobs /\ task[t].runner \in Runners

ReaperTypeOK ==
    /\ reaper \in [Runners -> [pc : ReaperPC, job : Jobs \union {NoJob}]]
    /\ \A r \in Runners : reaper[r].pc # "idle" => reaper[r].job \in Jobs

EngineTypeOK ==
    /\ phase \in [Runners -> {"up", "stopping", "down"}]
    /\ hand \in [Runners -> Jobs \union {NoJob}]
    /\ active \in [Runners -> SUBSET Jobs]
    /\ touching \in [Runners -> SUBSET Jobs]
    /\ TaskTypeOK
    /\ ReaperTypeOK
    /\ batch \in [Runners -> SUBSET Jobs]
    /\ reapLock \in Runners \union {NoRunner}

EngineInit ==
    /\ phase = [r \in Runners |-> "up"]
    /\ hand = [r \in Runners |-> NoJob]
    /\ active = [r \in Runners |-> {}]
    /\ touching = [r \in Runners |-> {}]
    /\ task = [t \in Tasks |-> NoTask]
    /\ reaper = [r \in Runners |-> IdleReaper]
    /\ batch = [r \in Runners |-> {}]
    /\ reapLock = NoRunner

-----------------------------------------------------------------------------
(* The main loop.                                                          *)

\* Mutant: one more than max_claimed.
PopOneMore(r) ==
    /\ phase[r] = "up"
    /\ hand[r] = NoJob
    /\ Cardinality(active[r]) <= MaxWorkers
    /\ queue # <<>>
    /\ hand' = [hand EXCEPT ![r] = Tail1]
    /\ PopTail
    /\ UNCHANGED <<rows, lease, sched, overdue, used>>
    /\ UNCHANGED <<phase, active, touching, task, reaper, batch, reapLock>>

\* BRPOP, when fewer than max_claimed jobs are active.
Pop(r) ==
    /\ phase[r] = "up"
    /\ hand[r] = NoJob
    /\ Cardinality(active[r]) < MaxWorkers
    /\ queue # <<>>
    /\ hand' = [hand EXCEPT ![r] = Tail1]
    /\ PopTail
    /\ UNCHANGED <<rows, lease, sched, overdue, used>>
    /\ UNCHANGED <<phase, active, touching, task, reaper, batch, reapLock>>

\* The reply of BRPOP is lost, and the id with it.
PopLost(r) ==
    /\ phase[r] = "up"
    /\ hand[r] = NoJob
    /\ Cardinality(active[r]) < MaxWorkers
    /\ queue # <<>>
    /\ Spend("lostReply")
    /\ PopTail
    /\ UNCHANGED <<rows, lease, sched, overdue>> /\ UNCHANGED engineVars

\* Mutant: no lease is taken.
TakeNoLease(j) == UNCHANGED <<lease, used>>

\* ZADD to the in-flight ZSET, whose failure is only logged.
TakeLease(j) ==
    \/ Touch(j) /\ UNCHANGED used
    \/ UNCHANGED lease /\ Spend("redis")

\* Take the lease, submit execute_job and record the future under the job id.
\* stop() shuts the executor down some time after it cleared `running`, so a
\* submit during "stopping" may still be accepted.
Track(r) ==
    /\ phase[r] # "down"
    /\ hand[r] # NoJob
    /\ TakeLease(hand[r])
    /\ \E t \in Tasks :
          /\ task[t].pc = "free"
          /\ task' = [task EXCEPT ![t] = [pc |-> "queued", job |-> hand[r],
                                          runner |-> r, att |-> 0, ran |-> 0]]
    /\ active' = [active EXCEPT ![r] = @ \union {hand[r]}]
    /\ hand' = [hand EXCEPT ![r] = NoJob]
    /\ UNCHANGED <<rows, queue, sched, overdue>>
    /\ UNCHANGED <<phase, touching, reaper, batch, reapLock>>

\* The executor is shut down already: submit raises and the main loop drops
\* the id, whose lease stays behind.
SubmitRejected(r) ==
    /\ phase[r] = "stopping"
    /\ hand[r] # NoJob
    /\ TakeLease(hand[r])
    /\ hand' = [hand EXCEPT ![r] = NoJob]
    /\ UNCHANGED <<rows, queue, sched, overdue>>
    /\ UNCHANGED <<phase, active, touching, task, reaper, batch, reapLock>>

-----------------------------------------------------------------------------
(* execute_job, on a worker thread.                                        *)

Goto(t, pc) == task' = [task EXCEPT ![t].pc = pc]
\* The same when the claim is over: nothing later looks at its attempt.
Leave(t, pc) == task' = [task EXCEPT ![t].pc = pc, ![t].att = 0, ![t].ran = 0]
OnlyTask == UNCHANGED <<phase, hand, active, touching, reaper, batch, reapLock>>
At(t, pc) == task[t].pc = pc
JobOf(t) == task[t].job

\* The worker threads of a runner that are busy.
Busy(r) == {t \in Tasks : task[t].runner = r /\ task[t].pc # "queued"}

\* A worker takes the future and loads the row; what it does next depends on
\* this read alone.
Load(t) ==
    /\ At(t, "queued")
    /\ Cardinality(Busy(task[t].runner)) < MaxWorkers
    /\ Goto(t, IF rows[JobOf(t)].status # "pending" THEN "unlease"
               ELSE IF JobOf(t) \in overdue THEN "expire" ELSE "claim")
    /\ UNCHANGED storeVars /\ OnlyTask

\* The load raises: the lease is removed and the job given up.
LoadFails(t) ==
    /\ At(t, "queued")
    /\ Cardinality(Busy(task[t].runner)) < MaxWorkers
    /\ Spend("db")
    /\ RemoveFromProcessing(JobOf(t))
    /\ Goto(t, "done")
    /\ UNCHANGED <<rows, queue, sched, overdue>> /\ OnlyTask

MarkExpired(t) ==
    /\ At(t, "expire")
    /\ SaveStatus(JobOf(t), "expired")
    /\ Goto(t, "release")
    /\ UNCHANGED <<queue, lease, sched, overdue, used>> /\ OnlyTask

\* Mutant: the attempt is counted on the loaded object only.
ClaimUncounted(t) ==
    LET j == JobOf(t) IN
    /\ At(t, "claim")
    /\ rows[j].status = "pending"
    /\ rows' = [rows EXCEPT ![j].status = "running", ![j].runner = task[t].runner]
    /\ task' = [task EXCEPT ![t].pc = "refresh", ![t].att = rows[j].attempt + 1]
    /\ UNCHANGED <<queue, lease, sched, overdue, used>> /\ OnlyTask

\* Mutant: runner_id is set by the first claim only.
ClaimAnonymous(t) ==
    LET j == JobOf(t) IN
    /\ At(t, "claim")
    /\ rows[j].status = "pending"
    /\ rows' = [rows EXCEPT ![j].status = "running", ![j].attempt = @ + 1,
                            ![j].runner = IF @ = NoRunner THEN task[t].runner ELSE @]
    /\ task' = [task EXCEPT ![t].pc = "refresh", ![t].att = rows[j].attempt + 1]
    /\ UNCHANGED <<queue, lease, sched, overdue, used>> /\ OnlyTask

\* Mutant: the claim saves the loaded row, without asking for its status.
ClaimAnyway(t) ==
    LET j == JobOf(t) IN
    /\ At(t, "claim")
    /\ rows' = [rows EXCEPT ![j].status = "running", ![j].attempt = @ + 1,
                            ![j].runner = task[t].runner]
    /\ task' = [task EXCEPT ![t].pc = "refresh", ![t].att = rows[j].attempt + 1]
    /\ UNCHANGED <<queue, lease, sched, overdue, used>> /\ OnlyTask

\* UPDATE ... WHERE status = 'pending': the compare-and-set claim.  It returns
\* how many rows it changed and not what it wrote.
Claim(t) ==
    LET j == JobOf(t) IN
    /\ At(t, "claim")
    /\ rows[j].status = "pending"
    /\ rows' = [rows EXCEPT ![j].status = "running", ![j].attempt = @ + 1,
                            ![j].runner = task[t].runner]
    /\ task' = [task EXCEPT ![t].pc = "refresh", ![t].att = rows[j].attempt + 1]
    /\ UNCHANGED <<queue, lease, sched, overdue, used>> /\ OnlyTask

\* The update matched no row.
ClaimLost(t) ==
    /\ At(t, "claim")
    /\ rows[JobOf(t)].status # "pending"
    /\ Goto(t, "unlease")
    /\ UNCHANGED storeVars /\ OnlyTask

\* refresh_from_db, a call of its own: the execution takes its attempt from
\* whatever the row says by now.
Refresh(t) ==
    /\ At(t, "refresh")
    /\ task' = [task EXCEPT ![t].pc = "run", ![t].ran = rows[JobOf(t)].attempt]
    /\ UNCHANGED storeVars /\ OnlyTask

\* func(job) returns; nothing reads what.
HandlerReturns(t) ==
    /\ At(t, "run")
    /\ Goto(t, "save")
    /\ UNCHANGED storeVars /\ OnlyTask

HandlerRaises(t) ==
    /\ At(t, "run")
    /\ Leave(t, "fail")
    /\ UNCHANGED storeVars /\ OnlyTask

\* The completing save: whatever the row says by now.
SaveCompleted(t) ==
    /\ At(t, "save")
    /\ SaveStatus(JobOf(t), "completed")
    /\ Leave(t, "release")
    /\ UNCHANGED <<queue, lease, sched, overdue, used>> /\ OnlyTask

\* A save, the claim or the refresh raises: the failure handler takes over.
SaveRaises(t) ==
    /\ task[t].pc \in {"expire", "claim", "refresh", "save"}
    /\ Spend("db")
    /\ Leave(t, "fail")
    /\ UNCHANGED <<rows, queue, lease, sched, overdue>> /\ OnlyTask

\* ZREM with its retries; when all of them raise the entry stays.
Zrem(j) ==
    \/ RemoveFromProcessing(j) /\ UNCHANGED used
    \/ UNCHANGED lease /\ Spend("redis")

Release(t) ==
    /\ At(t, "release")
    /\ Zrem(JobOf(t))
    /\ Goto(t, "account")
    /\ UNCHANGED <<rows, queue, sched, overdue>> /\ OnlyTask

\* The metrics are recorded inside the try block.
Account(t) ==
    /\ At(t, "account")
    /\ Goto(t, "done")
    /\ UNCHANGED storeVars /\ OnlyTask

\* ... so when recording raises, a finished job enters the failure handler.
AccountFails(t) ==
    /\ At(t, "account")
    /\ Spend("redis")
    /\ Goto(t, "fail")
    /\ UNCHANGED <<rows, queue, lease, sched, overdue>> /\ OnlyTask

\* _handle_job_failure reads the row afresh and looks at attempt only.
ReadFailed(t) ==
    /\ At(t, "fail")
    /\ Goto(t, IF Retryable(JobOf(t)) THEN "retry" ELSE "giveup")
    /\ UNCHANGED storeVars /\ OnlyTask

SaveRetry(t) ==
    /\ At(t, "retry")
    /\ SaveError(JobOf(t), "pending", FALSE)
    /\ Goto(t, "sched")
    /\ UNCHANGED <<queue, lease, sched, overdue, used>> /\ OnlyTask

\* Mutant: the retry is saved and not scheduled.
ScheduleNothing(t) ==
    /\ At(t, "sched")
    /\ Goto(t, "scheduled")
    /\ UNCHANGED storeVars /\ OnlyTask

\* ZADD of the backoff time, then the metrics: a raise of the first leaves the
\* retry unscheduled, a raise of either skips the removal of the lease.
ScheduleRetry(t) ==
    /\ At(t, "sched")
    /\ \/ Goto(t, "scheduled") /\ UNCHANGED used
       \/ Goto(t, "done") /\ Spend("redis")
    /\ \/ sched' = [sched EXCEPT ![JobOf(t)] = "waiting"]
       \/ used' # used /\ UNCHANGED sched
    /\ UNCHANGED <<rows, queue, lease, overdue>> /\ OnlyTask

\* Save 'failed' and record the metrics, whose raise skips the removal.
SaveFailed(t) ==
    /\ At(t, "giveup")
    /\ SaveError(JobOf(t), "failed", FALSE)
    /\ \/ Goto(t, "unlease") /\ UNCHANGED used
       \/ Goto(t, "done") /\ Spend("redis")
    /\ UNCHANGED <<queue, lease, sched, overdue>> /\ OnlyTask

\* The failure handler itself raises: logged, and the lease stays.
HandlingRaises(t) ==
    /\ At(t, "fail") \/ At(t, "retry") \/ At(t, "giveup")
    /\ Spend("db")
    /\ Goto(t, "done")
    /\ UNCHANGED <<rows, queue, lease, sched, overdue>> /\ OnlyTask

\* Mutant: the lease of a retry is left behind.
UnleaseNothing(t) ==
    /\ At(t, "unlease") \/ At(t, "scheduled")
    /\ Goto(t, "done")
    /\ UNCHANGED storeVars /\ OnlyTask

\* _remove_from_processing, the last step of every path but a completion.
Unlease(t) ==
    /\ At(t, "unlease") \/ At(t, "scheduled")
    /\ Zrem(JobOf(t))
    /\ Goto(t, "done")
    /\ UNCHANGED <<rows, queue, sched, overdue>> /\ OnlyTask

\* _job_completed: the dict entry goes, whichever future put it there.
Completed(t) ==
    LET r == task[t].runner IN
    /\ At(t, "done")
    /\ active' = [active EXCEPT ![r] = @ \ {JobOf(t)}]
    /\ task' = [task EXCEPT ![t] = NoTask]
    /\ UNCHANGED storeVars
    /\ UNCHANGED <<phase, hand, touching, reaper, batch, reapLock>>

-----------------------------------------------------------------------------
(* The heartbeat, and the leases it keeps fresh.                           *)

SnapshotActive(r) ==
    /\ phase[r] = "up"
    /\ touching[r] = {}
    /\ active[r] # {}
    /\ touching' = [touching EXCEPT ![r] = active[r]]
    /\ UNCHANGED storeVars
    /\ UNCHANGED <<phase, hand, active, task, reaper, batch, reapLock>>

\* The runner has removed the lease of the job since the snapshot.
Released(r, j) ==
    \A t \in Tasks : (task[t].runner = r /\ JobOf(t) = j)
                        => task[t].pc \in {"account", "done"}

\* The ZADD carries no XX: it restores an entry removed since the snapshot.
TouchActive(r) ==
    /\ \E j \in touching[r] :
          /\ Touch(j)
          /\ touching' = [touching EXCEPT ![r] = @ \ {j}]
          /\ IF Released(r, j) THEN Spend("lateTouch") ELSE UNCHANGED used
    /\ UNCHANGED <<rows, queue, sched, overdue>>
    /\ UNCHANGED <<phase, hand, active, task, reaper, batch, reapLock>>

\* The pass ends: what is left of it found nothing to touch, or raised.
EndPass(r) ==
    /\ touching[r] # {}
    /\ \A j \in touching[r] : Released(r, j)
    /\ touching' = [touching EXCEPT ![r] = {}]
    /\ UNCHANGED storeVars
    /\ UNCHANGED <<phase, hand, active, task, reaper, batch, reapLock>>

\* Mutant: the heartbeat touches nothing.
KeptFreshNever(j) == FALSE

\* A live engine that has not been told to stop touches what it tracks in
\* time, unless it stalls.
KeptFresh(j) == \E r \in Runners : phase[r] = "up" /\ j \in active[r]

LeaseAges(j) ==
    /\ lease[j] = "fresh"
    /\ lease' = [lease EXCEPT ![j] = "stale"]
    /\ IF KeptFresh(j) THEN Spend("stall") ELSE UNCHANGED used
    /\ UNCHANGED <<rows, queue, sched, overdue>>
    /\ UNCHANGED engineVars

-----------------------------------------------------------------------------
(* The reaper.                                                             *)

Reaping(r) == reaper[r].pc # "idle" \/ batch[r] # {}
ReapAt(r, pc) == reaper[r].pc = pc
ReapGoto(r, pc) == reaper' = [reaper EXCEPT ![r].pc = pc]
ReapNext(r) == reaper' = [reaper EXCEPT ![r] = IdleReaper]

\* The entry is handled, unless recording its JobEvent raises: the outer
\* except answers with one more removal, "to prevent infinite retries".
ReapRecord(r) ==
    \/ ReapNext(r) /\ UNCHANGED used
    \/ ReapGoto(r, "drop") /\ Spend("db")

OnlyReaper == UNCHANGED <<phase, hand, active, touching, task, batch, reapLock>>

\* SET reaper_lock NX PX 2000, then fetch the entries older than the cutoff.
\* The lock is never deleted: it expires.
ReapFetch(r) ==
    /\ phase[r] = "up"
    /\ ~Reaping(r)
    /\ reapLock = NoRunner
    /\ StaleJobs # {}
    /\ reapLock' = r
    /\ batch' = [batch EXCEPT ![r] = StaleJobs]
    /\ UNCHANGED storeVars
    /\ UNCHANGED <<phase, hand, active, touching, task, reaper>>

\* The 2 s pass; within a pass that takes that long they pass under it.
ReapLockExpires ==
    /\ reapLock # NoRunner
    /\ reapLock' = NoRunner
    /\ IF Reaping(reapLock) THEN Spend("stall") ELSE UNCHANGED used
    /\ UNCHANGED <<rows, queue, lease, sched, overdue>>
    /\ UNCHANGED <<phase, hand, active, touching, task, reaper, batch>>

\* What the reaper decides on the row it has just read.
Verdict(j) ==
    IF rows[j].status \in Terminal \union {"absent"} THEN "drop"
    ELSE IF j \in overdue THEN "expire"
    ELSE IF ~Retryable(j) THEN "fail"
    ELSE IF rows[j].status = "running" THEN "reset" ELSE "requeue"

\* Take the next stale id and read its row.
ReapRead(r) ==
    /\ ReapAt(r, "idle")
    /\ \E j \in batch[r] :
          /\ batch' = [batch EXCEPT ![r] = @ \ {j}]
          /\ reaper' = [reaper EXCEPT ![r] = [pc |-> Verdict(j), job |-> j]]
    /\ UNCHANGED storeVars
    /\ UNCHANGED <<phase, hand, active, touching, task, reapLock>>

\* The row is finished or gone: only the entry goes.
ReapDrop(r) ==
    /\ ReapAt(r, "drop")
    /\ Zrem(reaper[r].job)
    /\ ReapNext(r)
    /\ UNCHANGED <<rows, queue, sched, overdue>> /\ OnlyReaper

\* The entry goes first, the row is saved next: two steps.
ReapRemove(r, from, to) ==
    /\ ReapAt(r, from)
    /\ Zrem(reaper[r].job)
    /\ ReapGoto(r, to)
    /\ UNCHANGED <<rows, queue, sched, overdue>> /\ OnlyReaper

ReapExpireRemove(r) == ReapRemove(r, "expire", "expireSave")

ReapExpireSave(r) ==
    /\ ReapAt(r, "expireSave")
    /\ SaveStatus(reaper[r].job, "expired")
    /\ ReapRecord(r)
    /\ UNCHANGED <<queue, lease, sched, overdue>> /\ OnlyReaper

ReapFailRemove(r) == ReapRemove(r, "fail", "failSave")

ReapFailSave(r) ==
    /\ ReapAt(r, "failSave")
    /\ SaveError(reaper[r].job, "failed", FALSE)
    /\ ReapRecord(r)
    /\ UNCHANGED <<queue, lease, sched, overdue>> /\ OnlyReaper

\* UPDATE ... SET status = 'pending' WHERE status = 'running'.
ReapReset(r) ==
    LET j == reaper[r].job IN
    /\ ReapAt(r, "reset")
    /\ rows[j].status = "running"
    /\ rows' = [rows EXCEPT ![j].status = "pending", ![j].runner = NoRunner]
    /\ ReapGoto(r, "requeue")
    /\ UNCHANGED <<queue, lease, sched, overdue, used>> /\ OnlyReaper

ReapResetLost(r) ==
    /\ ReapAt(r, "reset")
    /\ rows[reaper[r].job].status # "running"
    /\ ReapGoto(r, "drop")
    /\ UNCHANGED storeVars /\ OnlyReaper

ReapRequeueRemove(r) == ReapRemove(r, "requeue", "push")

\* RPUSH back on the queue.
ReapPush(r) ==
    /\ ReapAt(r, "push")
    /\ Push(reaper[r].job)
    /\ ReapRecord(r)
    /\ UNCHANGED <<rows, lease, sched, overdue>> /\ OnlyReaper

\* The push raises, applied or not: the outer except removes the entry again.
ReapPushFails(r) ==
    /\ ReapAt(r, "push")
    /\ \/ Spend("redis") /\ UNCHANGED queue
       \/ Spend("lostReply") /\ Push(reaper[r].job)
    /\ ReapGoto(r, "drop")
    /\ UNCHANGED <<rows, lease, sched, overdue>> /\ OnlyReaper

\* Reading or saving the row raises: the entry is removed all the same.
ReapReadFails(r) ==
    /\ ReapAt(r, "idle")
    /\ Spend("db")
    /\ \E j \in batch[r] :
          /\ batch' = [batch EXCEPT ![r] = @ \ {j}]
          /\ reaper' = [reaper EXCEPT ![r] = [pc |-> "drop", job |-> j]]
    /\ UNCHANGED <<rows, queue, lease, sched, overdue>>
    /\ UNCHANGED <<phase, hand, active, touching, task, reapLock>>

ReapSaveFails(r) ==
    /\ reaper[r].pc \in {"expireSave", "failSave", "reset"}
    /\ Spend("db")
    /\ ReapGoto(r, "drop")
    /\ UNCHANGED <<rows, queue, lease, sched, overdue>> /\ OnlyReaper

-----------------------------------------------------------------------------
(* Process lifecycle.                                                      *)

TaskOf(r) == {t \in Tasks : task[t].runner = r}

\* A reaper between two calls that move a job: out of the in-flight ZSET and
\* not yet saved or pushed.
ReaperMoves(r) == reaper[r].pc \in {"push", "expireSave", "failSave"}

\* A runner between two such calls: its reaper's, or popped and not yet leased.
InWindow(r) == hand[r] # NoJob \/ ReaperMoves(r)

\* A runner between the ZADD and the ZREM of a retry: nothing is lost there, but
\* the reaper will push the id before its time and the scheduler once more.
InBoth(r) == \E t \in TaskOf(r) : At(t, "scheduled")

\* The process is gone, with every thread it ran.
Halt(r) ==
    /\ phase' = [phase EXCEPT ![r] = "down"]
    /\ hand' = [hand EXCEPT ![r] = NoJob]
    /\ active' = [active EXCEPT ![r] = {}]
    /\ touching' = [touching EXCEPT ![r] = {}]
    /\ task' = [t \in Tasks |-> IF t \in TaskOf(r) THEN NoTask ELSE task[t]]
    /\ reaper' = [reaper EXCEPT ![r] = IdleReaper]
    /\ batch' = [batch EXCEPT ![r] = {}]
    /\ UNCHANGED <<rows, queue, lease, sched, overdue, reapLock>>

Crash(r) ==
    /\ phase[r] # "down"
    /\ Spend(IF InWindow(r) THEN "windowCrash"
             ELSE IF InBoth(r) THEN "retryCrash" ELSE "crash")
    /\ Halt(r)

\* stop(): running = False and the stop event end the main loop, and with it
\* the heartbeat and the reaper after their current pass.  The control thread
\* calls it, on the command "shutdown", and the main loop goes on to the end of
\* its pass; so does the signal handler, which the main loop does not survive.
\* An outstanding BRPOP, of 1 s at most, is taken to have ended before.
Stop(r) ==
    /\ phase[r] = "up"
    /\ Spend("stop")
    /\ phase' = [phase EXCEPT ![r] = "stopping"]
    /\ UNCHANGED <<rows, queue, lease, sched, overdue>>
    /\ UNCHANGED <<hand, active, touching, task, reaper, batch, reapLock>>

\* SIGTERM or SIGINT with an id popped: the handler runs stop() and sys.exit on
\* the main thread, which never comes back to the id.  After its ZADD the lease
\* is there for a reaper; before it the id is gone.
Terminate(r) ==
    /\ phase[r] # "down"
    /\ hand[r] # NoJob
    /\ \/ Spend("stop") /\ Touch(hand[r])
       \/ Spend("windowStop") /\ UNCHANGED lease
    /\ phase' = [phase EXCEPT ![r] = "stopping"]
    /\ hand' = [hand EXCEPT ![r] = NoJob]
    /\ UNCHANGED <<rows, queue, sched, overdue>>
    /\ UNCHANGED <<active, touching, task, reaper, batch, reapLock>>

\* executor.shutdown(wait=True) has returned, the main loop has ended, and the
\* process exits.  The reaper is a daemon thread that stop() does not join.
Exit(r) ==
    /\ phase[r] = "stopping"
    /\ hand[r] = NoJob
    /\ TaskOf(r) = {}
    /\ IF ReaperMoves(r) THEN Spend("windowStop") ELSE UNCHANGED used
    /\ Halt(r)

\* A new process with the same runner id (jobman start, every minute).
Start(r) ==
    /\ phase[r] = "down"
    /\ phase' = [phase EXCEPT ![r] = "up"]
    /\ UNCHANGED storeVars
    /\ UNCHANGED <<hand, active, touching, task, reaper, batch, reapLock>>

-----------------------------------------------------------------------------
MainLoop(r) == Pop(r) \/ Track(r) \/ SubmitRejected(r)

\* The steps of a worker thread that need nothing to go wrong.
Work(t) ==
    \/ Load(t) \/ MarkExpired(t) \/ Claim(t) \/ ClaimLost(t) \/ Refresh(t)
    \/ HandlerReturns(t) \/ HandlerRaises(t)
    \/ SaveCompleted(t) \/ Release(t) \/ Account(t)
    \/ ReadFailed(t) \/ SaveRetry(t) \/ ScheduleRetry(t) \/ SaveFailed(t)
    \/ Unlease(t) \/ Completed(t)

WorkFails(t) ==
    LoadFails(t) \/ SaveRaises(t) \/ AccountFails(t) \/ HandlingRaises(t)

Heartbeat(r) == SnapshotActive(r) \/ TouchActive(r) \/ EndPass(r)

Reap(r) ==
    \/ ReapFetch(r) \/ ReapRead(r) \/ ReapDrop(r)
    \/ ReapExpireRemove(r) \/ ReapExpireSave(r)
    \/ ReapFailRemove(r) \/ ReapFailSave(r)
    \/ ReapReset(r) \/ ReapResetLost(r) \/ ReapRequeueRemove(r) \/ ReapPush(r)

ReapFails(r) ==
    ReapPushFails(r) \/ ReapReadFails(r) \/ ReapSaveFails(r)

Lifecycle(r) == Crash(r) \/ Stop(r) \/ Terminate(r) \/ Exit(r) \/ Start(r)

EngineNext ==
    \/ \E r \in Runners : MainLoop(r) \/ PopLost(r) \/ Heartbeat(r)
                          \/ Reap(r) \/ ReapFails(r) \/ Lifecycle(r)
    \/ \E t \in Tasks : Work(t) \/ WorkFails(t)
    \/ \E j \in Jobs : LeaseAges(j)
    \/ ReapLockExpires
=============================================================================
