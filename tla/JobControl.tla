----------------------------- MODULE JobControl -----------------------------
(***************************************************************************)
(* services/job_actions.py and the recovery operations of manager.py: what *)
(* an operator does to the rows and the Redis keys of a running JobSystem. *)
(* One request at a time, in the steps its code takes.                     *)
(***************************************************************************)
EXTENDS JobSystem

CONSTANTS
    Operations,   (* the operations the operator uses *)
    MaxOps        (* how many requests, not counting what resumes a pause *)

OperationKinds == {"cancel", "pause", "resume", "retry", "clear", "recover", "clearChannel"}

ASSUME ControlAssumption ==
    Operations \subseteq OperationKinds /\ MaxOps \in Nat

VARIABLES
    desk,      (* where the request stands *)
    ops,       (* how many requests there were *)
    paused,    (* the jobs whose metadata say paused *)
    touched    (* history: the operations each job has seen, and "removed" for a
                  ZREM that found an entry of a row pending again *)

deskVars == <<desk, ops, paused, touched>>
cvars == <<vars, deskVars>>

\* timed: the loaded row had a run_at, or it is not asked about.
Desk == [op : OperationKinds \union {"none"}, job : Jobs \union {NoJob},
         pc : {"none", "save", "zrem", "push", "sched", "queue", "processing", "rows"},
         timed : BOOLEAN]
NoDesk == [op |-> "none", job |-> NoJob, pc |-> "none", timed |-> FALSE]

ControlTypeOK ==
    /\ TypeOK
    /\ desk \in Desk /\ ops \in 0..MaxOps
    /\ paused \subseteq Jobs /\ touched \in [Jobs -> SUBSET (OperationKinds \union {"removed"})]

ControlInit ==
    /\ Init
    /\ desk = NoDesk /\ ops = 0 /\ paused = {}
    /\ touched = [j \in Jobs |-> {}]

DeskGoto(pc) == desk' = [desk EXCEPT !.pc = pc]
Mark(js) == touched' = [j \in Jobs |-> IF j \in js THEN touched[j] \union {desk'.op}
                                       ELSE touched[j]]

\* The request loads the row, and decides on what it has loaded.
Open(op, j, pc, timed) ==
    /\ op \in Operations
    /\ desk = NoDesk
    /\ ops' = IF op = "resume" THEN ops ELSE ops + 1
    /\ ops' <= MaxOps
    /\ desk' = [op |-> op, job |-> j, pc |-> pc, timed |-> timed]
    /\ Mark(IF j = NoJob THEN Jobs ELSE {j})
    /\ UNCHANGED <<storeVars, engineVars, promo, pub, paused>>

-----------------------------------------------------------------------------
(* services/job_actions.py.                                                *)

\* The heartbeat key of the runner is gone.  One that is there makes the cancel a
\* cooperative one: a flag that only the job function reads.
CancelRunning(j) ==
    /\ rows[j].status = "running"
    /\ rows[j].runner = NoRunner \/ phase[rows[j].runner] # "up"
    /\ Open("cancel", j, "save", FALSE)

CancelPending(j) ==
    /\ rows[j].status = "pending"
    /\ Open("cancel", j, "save", TRUE)

PauseOpen(j) ==
    /\ rows[j].status = "pending"
    /\ Open("pause", j, "save", j \in Delayed \/ rows[j].attempt > 0)

ResumeOpen(j) ==
    /\ rows[j].status = "canceled" /\ j \in paused
    /\ Open("resume", j, "save", FALSE)

RetryOpen(j) ==
    /\ rows[j].status \in {"failed", "canceled", "expired"}
    /\ Open("retry", j, "save", FALSE)

\* Mutant: pausing invents a status.
SavedPaused(row) ==
    [row EXCEPT !.status = IF desk.op = "pause" THEN "paused" ELSE "canceled"]

\* The save of each, unconditional.  Retry saves every column; retry and resume
\* publish a new job next, which is Publish of another row.
Saved(row) ==
    CASE desk.op = "cancel" -> [row EXCEPT !.status = "canceled", !.runner = NoRunner]
      [] desk.op = "pause" -> [row EXCEPT !.status = "canceled"]
      [] desk.op = "resume" -> [row EXCEPT !.status = "pending"]
      [] desk.op = "retry" -> [status |-> "pending", attempt |-> 0, runner |-> NoRunner,
                               unqueued |-> FALSE]
      [] desk.op = "recover" -> [row EXCEPT !.status = "pending", !.runner = NoRunner]

SaveRow ==
    /\ desk.pc = "save"
    /\ rows' = [rows EXCEPT ![desk.job] = Saved(@)]
    /\ paused' = CASE desk.op = "pause" -> paused \union {desk.job}
                   [] desk.op = "resume" -> paused \ {desk.job}
                   [] OTHER -> paused
    /\ desk' = IF desk.timed THEN [desk EXCEPT !.pc = "sched"] ELSE NoDesk
    /\ UNCHANGED <<queue, lease, sched, overdue, used, engineVars, promo, pub, ops, touched>>

\* ZREM from the scheduled ZSET; the List is left as it is.
RemoveScheduled ==
    /\ desk.pc = "sched" /\ desk.job # NoJob
    /\ sched' = [sched EXCEPT ![desk.job] = "none"]
    /\ desk' = NoDesk
    /\ touched' = [touched EXCEPT ![desk.job] =
                     IF rows[desk.job].status = "pending" /\ sched[desk.job] # "none"
                     THEN @ \union {"removed"} ELSE @]
    /\ UNCHANGED <<rows, queue, lease, overdue, used, engineVars, promo, pub, ops, paused>>

-----------------------------------------------------------------------------
(* manager.py.                                                             *)

\* clear_stuck_jobs, of one of the entries it has fetched; the REST endpoint
\* also asks for all of them.
ClearOpen(j) ==
    /\ lease[j] # "none"
    /\ Open("clear", j, "zrem", FALSE)

ClearRemove ==
    /\ desk.pc = "zrem"
    /\ RemoveFromProcessing(desk.job)
    /\ DeskGoto("push")
    /\ UNCHANGED <<rows, queue, sched, overdue, used, engineVars, promo, pub, ops, paused,
                   touched>>

ClearPush ==
    /\ desk.pc = "push"
    /\ Push(desk.job)
    /\ desk' = NoDesk
    /\ UNCHANGED <<rows, lease, sched, overdue, used, engineVars, promo, pub, ops, paused,
                   touched>>

\* recover_stale_running, for a channel with nothing in flight; what it pushes
\* goes to a stream that no engine reads.
RecoverOpen(j) ==
    /\ \A i \in Jobs : lease[i] = "none"
    /\ rows[j].status = "running"
    /\ Open("recover", j, "save", FALSE)

\* clear_channel deletes the keys one after the other, then cancels the rows.
ClearChannel == Open("clearChannel", NoJob, "sched", FALSE)

DeleteKey ==
    /\ desk.op = "clearChannel"
    /\ \/ /\ desk.pc = "sched" /\ DeskGoto("queue")
          /\ sched' = [j \in Jobs |-> "none"]
          /\ UNCHANGED <<queue, lease>>
       \/ /\ desk.pc = "queue" /\ DeskGoto("processing")
          /\ queue' = <<>>
          /\ UNCHANGED <<sched, lease>>
       \/ /\ desk.pc = "processing" /\ DeskGoto("rows")
          /\ lease' = [j \in Jobs |-> "none"]
          /\ UNCHANGED <<sched, queue>>
    /\ UNCHANGED <<rows, overdue, used, engineVars, promo, pub, ops, paused, touched>>

CancelRows ==
    /\ desk.pc = "rows"
    /\ rows' = [j \in Jobs |-> IF rows[j].status = "pending"
                               THEN [rows[j] EXCEPT !.status = "canceled"] ELSE rows[j]]
    /\ desk' = NoDesk
    /\ UNCHANGED <<queue, lease, sched, overdue, used, engineVars, promo, pub, ops, paused,
                   touched>>

Operator ==
    \/ \E j \in Jobs :
          \/ CancelRunning(j) \/ CancelPending(j) \/ PauseOpen(j) \/ ResumeOpen(j)
          \/ RetryOpen(j) \/ ClearOpen(j) \/ RecoverOpen(j)
    \/ SaveRow \/ RemoveScheduled \/ ClearRemove \/ ClearPush
    \/ ClearChannel \/ DeleteKey \/ CancelRows

ControlNext == (Next /\ UNCHANGED deskVars) \/ Operator

ControlSpec == ControlInit /\ [][ControlNext]_cvars

-----------------------------------------------------------------------------
(* What the operator cannot disturb.                                       *)

Untouched(j, kinds) == touched[j] \intersect kinds = {}

\* Cancelling, pausing, clearing and recovering leave the claim a fence: two
\* futures have claimed different attempts of a job, and a running row names the
\* engine whose future claimed the latest.  Retry is excepted, since it counts
\* from 0 again.
FenceUnlessRetried ==
    \A t \in Tasks : (Holds(t) /\ Untouched(JobOf(t), {"retry"})) =>
       /\ task[t].att \in 1..rows[JobOf(t)].attempt
       /\ \A u \in Tasks \ {t} : (Holds(u) /\ JobOf(u) = JobOf(t)) => task[u].att # task[t].att
       /\ (rows[JobOf(t)].status = "running" /\ task[t].att = rows[JobOf(t)].attempt)
             => rows[JobOf(t)].runner = task[t].runner

\* A job that is canceled or paused before an engine has claimed it does not
\* start, though its id stays in the List and workers may have loaded its row
\* before: only the operator brings it back.
Worked(j) ==
    \E t \in Tasks : JobOf(t) = j /\ task[t].pc \in {"refresh", "run", "save", "fail", "retry", "giveup"}
CanceledIsNotStarted ==
    [][\A j \in Jobs : (rows[j].status = "canceled" /\ ~Worked(j) /\ desk.job # j)
          => rows'[j].status \notin {"pending", "running"}]_cvars

\* A pending row is never forgotten because of a cancel or a pause that saw it, but
\* for their ZREM when it comes after a retry was scheduled.  The operations that
\* make a row pending again, and those that take keys away, are excepted.
CarriedThroughCancel ==
    \A j \in Jobs :
       (rows[j].status = "pending" /\ touched[j] \subseteq {"cancel", "pause"})
          => Carried(j) \/ desk.job = j

\* A running row can be recovered after all but clear_stuck_jobs and
\* clear_channel.
RecoverableUnlessCleared ==
    \A j \in Jobs :
       (rows[j].status = "running" /\ Untouched(j, {"clear", "clearChannel"}))
          => lease[j] # "none" \/ InReaper(j) \/ Worked(j)
=============================================================================
