---------------------------- MODULE JobSlipProofs ----------------------------
(***************************************************************************)
(* What holds of JobSystem while no process dies and no call raises, for   *)
(* every number of jobs, runners and futures, however often a heartbeat, a *)
(* reaper or the expiry of its lock slips and a key is published twice:    *)
(* every pending and every running row has somebody who acts on it.        *)
(***************************************************************************)
EXTENDS JobSystemProofs

USE StoreAssumption, EngineAssumption

-----------------------------------------------------------------------------
(* The inductive invariant.  A lease is not enough to rely on, since any   *)
(* future of the job may remove it: what counts is who will act next.      *)

\* No process is lost and no call fails.
NobodyDies ==
    Faults \intersect {"crash", "windowCrash", "retryCrash", "stop", "windowStop",
                       "redis", "lostReply", "db"} = {}

\* The places of execute_job that claim a pending row, expire it or schedule
\* it, and those that end a running one.
Taking == {"queued", "expire", "claim", "sched"}
Running == {"refresh", "run", "save", "fail", "retry", "giveup"}

\* The places of the reaper that push a job or finish it.
Recovering == {"expire", "expireSave", "fail", "failSave", "requeue", "push"}

TaskTakes(j) == \E t \in Tasks : task[t].job = j /\ task[t].pc \in Taking
TaskRuns(j) == \E t \in Tasks : task[t].job = j /\ task[t].pc \in Running
ReaperTakes(j) == \E r \in Runners : reaper[r].job = j /\ reaper[r].pc \in Recovering

\* In the scheduled ZSET or the memory of the scheduler.
InSchedule(j) == sched[j] # "none" \/ promo[j] # "none"

\* Somebody will act on a pending row.
Taken(j) ==
    InQueue(j) \/ InHand(j) \/ TaskTakes(j) \/ ReaperTakes(j) \/ InSchedule(j) \/ pub[j] > 0

Awaited(j) == rows[j].status = "pending" => Taken(j)

\* A running row is a future's, past its claim.
Attended(j) == rows[j].status = "running" => TaskRuns(j)

Up == \A r \in Runners : phase[r] = "up"

IInv == TypeOK /\ Up /\ \A j \in Jobs : Awaited(j) /\ Attended(j)

\* What a step keeps, whatever it finds of the two.
Keeps(j) == (Awaited(j) => Awaited(j)') /\ (Attended(j) => Attended(j)')

\* The faults that do not happen.
LEMMA NoFault ==
    ASSUME NobodyDies, NEW f, Spend(f)
    PROVE  f \notin {"crash", "windowCrash", "retryCrash", "stop", "windowStop",
                     "redis", "lostReply", "db"}
BY DEF NobodyDies, Spend

-----------------------------------------------------------------------------
(* Frames.                                                                 *)

\* A job that keeps its status and those who act on it.
LEMMA KeepsIt ==
    ASSUME NEW i \in Jobs, rows'[i].status = rows[i].status,
           Taken(i) => Taken(i)', TaskRuns(i) => TaskRuns(i)'
    PROVE  Keeps(i)
BY DEF Keeps, Awaited, Attended

\* Whoever will act on a job carries its id.
LEMMA TakenIsCarried ==
    ASSUME NEW j \in Jobs, Taken(j)
    PROVE  Carried(j)
<1>1. (TaskTakes(j) => InTask(j)) /\ (ReaperTakes(j) => InReaper(j))
  BY DEF TaskTakes, InTask, JobOf, Taking, ReaperTakes, InReaper, Recovering
<1> QED
  BY <1>1 DEF Taken, Carried, InSchedule

\* A step of the future that has the job j.
LEMMA TaskMoves ==
    ASSUME NEW t \in Tasks, NEW j \in Jobs, task[t].job = j,
           UNCHANGED <<queue, hand, reaper, promo, pub>>,
           \A u \in Tasks : u # t => task'[u] = task[u],
           \A i \in Jobs : sched[i] # "none" => sched'[i] # "none",
           \A i \in Jobs : i # j => rows'[i].status = rows[i].status,
           task'[t].pc # "free" => task'[t].job = j,
           \/ rows'[j].status \notin {"pending", "running"}
           \/ /\ rows'[j].status = "pending"
              /\ \/ task'[t].pc \in Taking
                 \/ sched'[j] # "none"
                 \/ rows[j].status = "pending" /\ task[t].pc \notin Taking
           \/ /\ rows'[j].status = "running"
              /\ \/ task'[t].pc \in Running
                 \/ rows[j].status = "running" /\ task[t].pc \notin Running
    PROVE  \A i \in Jobs : Keeps(i)
<1>1. "free" \notin Taking /\ "free" \notin Running
  BY DEF Taking, Running
<1>2. \A i \in Jobs : /\ InQueue(i) => InQueue(i)'
                      /\ InHand(i) => InHand(i)'
                      /\ ReaperTakes(i) => ReaperTakes(i)'
                      /\ InSchedule(i) => InSchedule(i)'
                      /\ pub[i] > 0 => pub'[i] > 0
  BY DEF InQueue, InHand, ReaperTakes, InSchedule
<1>3. ASSUME NEW i \in Jobs, i # j
      PROVE  (TaskTakes(i) => TaskTakes(i)') /\ (TaskRuns(i) => TaskRuns(i)')
  BY <1>3 DEF TaskTakes, TaskRuns
<1>4. task[t].pc \notin Taking => (TaskTakes(j) => TaskTakes(j)')
  BY DEF TaskTakes
<1>5. task[t].pc \notin Running => (TaskRuns(j) => TaskRuns(j)')
  BY DEF TaskRuns
<1>6. /\ task'[t].pc \in Taking => TaskTakes(j)'
      /\ task'[t].pc \in Running => TaskRuns(j)'
  BY <1>1 DEF TaskTakes, TaskRuns
<1>7. Keeps(j)
  BY <1>2, <1>4, <1>5, <1>6 DEF Keeps, Awaited, Attended, Taken, InSchedule
<1>8. ASSUME NEW i \in Jobs, i # j PROVE Keeps(i)
  <2>1. Taken(i) => Taken(i)'
    BY <1>2, <1>3, <1>8 DEF Taken
  <2> QED
    BY <1>3, <1>8, <2>1, KeepsIt
<1> QED
  BY <1>7, <1>8

\* A step of a reaper that has the job j or takes it.
LEMMA ReaperSteps ==
    ASSUME NEW r \in Runners, NEW j \in Jobs,
           reaper[r].pc = "idle" \/ reaper[r].job = j,
           UNCHANGED <<hand, task, sched, promo, pub>>,
           \A s \in Runners : s # r => reaper'[s] = reaper[s],
           \A i \in Jobs : InQueue(i) => InQueue(i)',
           \A i \in Jobs : i # j => rows'[i].status = rows[i].status,
           reaper'[r].pc # "idle" => reaper'[r].job = j,
           \/ rows'[j].status \notin {"pending", "running"}
           \/ /\ rows'[j].status = "pending"
              /\ \/ reaper'[r].pc \in Recovering
                 \/ InQueue(j)'
                 \/ rows[j].status = "pending" /\ reaper[r].pc \notin Recovering
           \/ rows'[j].status = "running" /\ rows[j].status = "running"
    PROVE  \A i \in Jobs : Keeps(i)
<1>1. "idle" \notin Recovering
  BY DEF Recovering
<1>2. \A i \in Jobs : /\ InHand(i) => InHand(i)'
                      /\ TaskTakes(i) => TaskTakes(i)'
                      /\ TaskRuns(i) => TaskRuns(i)'
                      /\ InSchedule(i) => InSchedule(i)'
                      /\ pub[i] > 0 => pub'[i] > 0
  BY DEF InHand, TaskTakes, TaskRuns, InSchedule
<1>3. ASSUME NEW i \in Jobs, i # j
      PROVE  ReaperTakes(i) => ReaperTakes(i)'
  BY <1>1, <1>3 DEF ReaperTakes
<1>4. reaper[r].pc \notin Recovering => (ReaperTakes(j) => ReaperTakes(j)')
  BY DEF ReaperTakes
<1>5. reaper'[r].pc \in Recovering => ReaperTakes(j)'
  BY <1>1 DEF ReaperTakes
<1>6. Keeps(j)
  BY <1>2, <1>4, <1>5 DEF Keeps, Awaited, Attended, Taken
<1>7. ASSUME NEW i \in Jobs, i # j PROVE Keeps(i)
  <2>1. Taken(i) => Taken(i)'
    BY <1>2, <1>3, <1>7 DEF Taken
  <2> QED
    BY <1>2, <1>7, <2>1, KeepsIt
<1> QED
  BY <1>6, <1>7

\* RPUSH adds a job to the List ...
LEMMA PushAdds ==
    ASSUME queue \in Seq(Jobs), NEW j \in Jobs, Push(j)
    PROVE  InQueue(j)' /\ \A i \in Jobs : InQueue(i) => InQueue(i)'
<1>1. /\ Len(queue) \in Nat /\ Len(queue') = Len(queue) + 1 /\ queue'[Len(queue) + 1] = j
      /\ \A k \in 1..Len(queue) : queue'[k] = queue[k]
  BY DEF Push
<1>2. Len(queue) + 1 \in 1..Len(queue') /\ \A k \in 1..Len(queue) : k \in 1..Len(queue')
  BY <1>1
<1> QED
  BY <1>1, <1>2 DEF InQueue

\* ... and BRPOP takes the last one away.
LEMMA PopTakes ==
    ASSUME queue \in Seq(Jobs), queue # <<>>, PopTail
    PROVE  \A i \in Jobs : i # Tail1 => (InQueue(i) => InQueue(i)')
<1> DEFINE n == Len(queue)
<1>1. n \in Nat \ {0}
  OBVIOUS
<1>2. Len(queue') = n - 1 /\ \A k \in 1..(n - 1) : queue'[k] = queue[k]
  <2>1. n - 1 \in 0..n /\ (n - 1) - 1 + 1 = n - 1 /\ 1 \in 1..(n + 1)
    BY <1>1
  <2>2. 1 <= (n - 1) + 1 /\ \A k \in 1..(n - 1) : k \in 1..n
    BY <1>1
  <2> QED
    BY <1>1, <2>1, <2>2, SubSeqProperties DEF PopTail
<1>3. \A k \in 1..n : k # n => k \in 1..(n - 1)
  BY <1>1
<1> QED
  BY <1>2, <1>3 DEF InQueue, Tail1

\* A save writes the status of one row.
LEMMA SaveWrites ==
    ASSUME rows \in [Jobs -> Row], NEW j \in Jobs, NEW s, NEW u,
           SaveStatus(j, s) \/ SaveError(j, s, u)
    PROVE  rows'[j].status = s /\ \A i \in Jobs : i # j => rows'[i].status = rows[i].status
BY DEF SaveStatus, SaveError, Row
-----------------------------------------------------------------------------
(* The engines.                                                            *)

\* A future that goes on keeps its job.
LEMMA GotoMoves ==
    ASSUME TaskTypeOK, NEW t \in Tasks, NEW pc, Goto(t, pc) \/ Leave(t, pc)
    PROVE  /\ task'[t].pc = pc /\ task'[t].job = task[t].job
           /\ \A u \in Tasks : u # t => task'[u] = task[u]
<1> DEFINE moved == [task[t] EXCEPT !.pc = pc]
           left == [task[t] EXCEPT !.pc = pc, !.att = 0, !.ran = 0]
<1>1. /\ task \in [Tasks -> Future] /\ task[t] \in Future
      /\ \/ task' = [task EXCEPT ![t] = moved]
         \/ task' = [task EXCEPT ![t] = left]
  BY DEF TaskTypeOK, Goto, Leave
<1>2. /\ moved.pc = pc /\ moved.job = task[t].job
      /\ left.pc = pc /\ left.job = task[t].job
  BY <1>1 DEF Future
<1> HIDE DEF moved, left
<1> QED
  BY <1>1, <1>2

\* A worker thread.
LEMMA WorkerKeeps ==
    ASSUME NobodyDies, TypeOK, Up, NEW t \in Tasks, Work(t) \/ WorkFails(t),
           UNCHANGED <<promo, pub>>
    PROVE  Up' /\ \A i \in Jobs : Keeps(i)
<1>1. /\ TaskTypeOK /\ task \in [Tasks -> Future]
      /\ task[t].pc # "free" => task[t].job \in Jobs
      /\ rows \in [Jobs -> Row] /\ sched \in [Jobs -> {"none", "waiting", "due"}]
  BY DEF TypeOK, StoreTypeOK, EngineTypeOK, TaskTypeOK
<1>2. task[t].pc # "free"
  BY DEF Work, WorkFails, Load, LoadFails, MarkExpired, Claim, ClaimLost, Refresh,
     HandlerReturns, HandlerRaises, SaveCompleted, SaveRaises, Release, Account, AccountFails, ReadFailed,
     SaveRetry, ScheduleRetry, SaveFailed, HandlingRaises, Unlease, Completed, At
<1>3. PICK j \in Jobs : j = task[t].job /\ j = JobOf(t)
  BY <1>1, <1>2 DEF JobOf
<1>4. ~WorkFails(t)
  BY NoFault DEF WorkFails, LoadFails, SaveRaises, AccountFails, HandlingRaises
<1>5. UNCHANGED <<phase, queue, hand, reaper, promo, pub>>
  BY <1>4 DEF Work, Load, MarkExpired, Claim, ClaimLost, Refresh, HandlerReturns,
     HandlerRaises, SaveCompleted, Release, Account, ReadFailed, SaveRetry, ScheduleRetry, SaveFailed,
     Unlease, Completed, OnlyTask, storeVars
<1>6. Up'
  BY <1>5 DEF Up
<1> SUFFICES \A i \in Jobs : Keeps(i)
  BY <1>6
<1>7. ASSUME NEW pc, Goto(t, pc) \/ Leave(t, pc), UNCHANGED <<rows, sched>>,
             task[t].pc \in Running => pc \in Running,
             task[t].pc \in Taking => pc \in Taking \/ rows[j].status # "pending"
      PROVE  \A i \in Jobs : Keeps(i)
  <2>1. /\ task'[t].pc = pc /\ task'[t].job = j
        /\ \A u \in Tasks : u # t => task'[u] = task[u]
    BY <1>1, <1>3, <1>7, GotoMoves
  <2>2. \/ rows'[j].status \notin {"pending", "running"}
        \/ /\ rows'[j].status = "pending"
           /\ \/ task'[t].pc \in Taking
              \/ rows[j].status = "pending" /\ task[t].pc \notin Taking
        \/ /\ rows'[j].status = "running"
           /\ \/ task'[t].pc \in Running
              \/ rows[j].status = "running" /\ task[t].pc \notin Running
    BY <1>7, <2>1
  <2> QED
    BY <1>3, <1>5, <1>7, <2>1, <2>2, TaskMoves
<1>8. ASSUME NEW pc, NEW s, Goto(t, pc) \/ Leave(t, pc), UNCHANGED sched, rows'[j].status = s,
             \A i \in Jobs : i # j => rows'[i].status = rows[i].status,
             s \notin {"pending", "running"} \/ (s = "pending" /\ pc \in Taking)
      PROVE  \A i \in Jobs : Keeps(i)
  <2>1. /\ task'[t].pc = pc /\ task'[t].job = j
        /\ \A u \in Tasks : u # t => task'[u] = task[u]
    BY <1>1, <1>3, <1>8, GotoMoves
  <2> QED
    BY <1>3, <1>5, <1>8, <2>1, TaskMoves
<1>9. CASE Load(t)
  <2> DEFINE pc == IF rows[JobOf(t)].status # "pending" THEN "unlease"
                   ELSE IF JobOf(t) \in overdue THEN "expire" ELSE "claim"
  <2>1. /\ task[t].pc = "queued" /\ Goto(t, pc) /\ UNCHANGED <<rows, sched>>
        /\ (rows[j].status = "pending" => pc \in {"expire", "claim"})
    BY <1>3, <1>9 DEF Load, storeVars, At
  <2> HIDE DEF pc
  <2>2. task[t].pc \notin Running /\ (pc \in Taking \/ rows[j].status # "pending")
    BY <2>1 DEF Taking, Running
  <2> QED
    BY <1>7, <2>1, <2>2
<1>10. CASE ClaimLost(t)
  <2>1. /\ task[t].pc = "claim" /\ Goto(t, "unlease") /\ UNCHANGED <<rows, sched>>
        /\ rows[j].status # "pending"
    BY <1>3, <1>10 DEF ClaimLost, storeVars, At
  <2>2. task[t].pc \notin Running
    BY <2>1 DEF Running
  <2> QED
    BY <1>7, <2>1, <2>2
<1>11. CASE HandlerReturns(t) \/ HandlerRaises(t)
  <2>1. PICK pc \in {"save", "fail"} :
           /\ task[t].pc = "run"
           /\ Goto(t, pc) \/ Leave(t, pc)
           /\ UNCHANGED <<rows, sched>>
    BY <1>11 DEF HandlerReturns, HandlerRaises, storeVars, At
  <2>2. task[t].pc \notin Taking /\ pc \in Running
    BY <2>1 DEF Taking, Running
  <2> QED
    BY <1>7, <2>1, <2>2
<1>13. CASE ReadFailed(t)
  <2> DEFINE pc == IF Retryable(JobOf(t)) THEN "retry" ELSE "giveup"
  <2>1. /\ task[t].pc = "fail" /\ Goto(t, pc) /\ UNCHANGED <<rows, sched>>
        /\ pc \in {"retry", "giveup"}
    BY <1>13 DEF ReadFailed, storeVars, At
  <2> HIDE DEF pc
  <2>2. task[t].pc \notin Taking /\ pc \in Running
    BY <2>1 DEF Taking, Running
  <2> QED
    BY <1>7, <2>1, <2>2
<1>14. CASE Release(t) \/ Account(t) \/ Unlease(t)
  <2>1. PICK pc \in {"account", "done"} :
           /\ task[t].pc \in {"release", "account", "unlease", "scheduled"} /\ Goto(t, pc)
           /\ UNCHANGED <<rows, sched>>
    BY <1>14 DEF Release, Account, Unlease, storeVars, At
  <2>2. task[t].pc \notin Taking /\ task[t].pc \notin Running
    BY <2>1 DEF Taking, Running
  <2> QED
    BY <1>7, <2>1, <2>2
<1>17. CASE Completed(t)
  <2>1. task[t].pc = "done" /\ task'[t] = NoTask /\ UNCHANGED <<rows, sched>>
    BY <1>1, <1>17 DEF Completed, At, storeVars
  <2>2. \A u \in Tasks : u # t => task'[u] = task[u]
    BY <1>1, <1>17 DEF Completed
  <2>3. task'[t].pc = "free" /\ task[t].pc \notin Taking /\ task[t].pc \notin Running
    BY <2>1 DEF NoTask, Taking, Running
  <2>4. \/ rows'[j].status \notin {"pending", "running"}
        \/ /\ rows'[j].status = "pending"
           /\ \/ task'[t].pc \in Taking
              \/ rows[j].status = "pending" /\ task[t].pc \notin Taking
        \/ /\ rows'[j].status = "running"
           /\ \/ task'[t].pc \in Running
              \/ rows[j].status = "running" /\ task[t].pc \notin Running
    BY <2>1, <2>3
  <2> QED
    BY <1>3, <1>5, <2>1, <2>2, <2>3, <2>4, TaskMoves
<1>18. CASE MarkExpired(t)
  <2>1. /\ task[t].pc = "expire" /\ Goto(t, "release") /\ UNCHANGED sched
        /\ SaveStatus(j, "expired")
    BY <1>3, <1>18 DEF MarkExpired, At
  <2>2. /\ rows'[j].status = "expired"
        /\ \A i \in Jobs : i # j => rows'[i].status = rows[i].status
    BY <1>1, <2>1, SaveWrites
  <2> QED
    BY <1>8, <2>1, <2>2
<1>19. CASE SaveCompleted(t)
  <2>1. /\ task[t].pc = "save" /\ Leave(t, "release") /\ UNCHANGED sched
        /\ SaveStatus(j, "completed")
    BY <1>3, <1>19 DEF SaveCompleted, At
  <2>2. /\ rows'[j].status = "completed"
        /\ \A i \in Jobs : i # j => rows'[i].status = rows[i].status
    BY <1>1, <2>1, SaveWrites
  <2> QED
    BY <1>8, <2>1, <2>2
<1>20. CASE SaveFailed(t)
  <2>1. PICK pc \in {"unlease", "done"} :
           /\ task[t].pc = "giveup" /\ Goto(t, pc) /\ UNCHANGED sched
           /\ SaveError(j, "failed", FALSE)
    BY <1>3, <1>20 DEF SaveFailed, At
  <2>2. /\ rows'[j].status = "failed"
        /\ \A i \in Jobs : i # j => rows'[i].status = rows[i].status
    BY <1>1, <2>1, SaveWrites
  <2> QED
    BY <1>8, <2>1, <2>2
<1>21. CASE SaveRetry(t)
  <2>1. /\ task[t].pc = "retry" /\ Goto(t, "sched") /\ UNCHANGED sched
        /\ SaveError(j, "pending", FALSE)
    BY <1>3, <1>21 DEF SaveRetry, At
  <2>2. /\ rows'[j].status = "pending" /\ "sched" \in Taking
        /\ \A i \in Jobs : i # j => rows'[i].status = rows[i].status
    BY <1>1, <2>1, SaveWrites DEF Taking
  <2> QED
    BY <1>8, <2>1, <2>2
<1>22. CASE Claim(t)
  <2>1. /\ rows'[j].status = "running" /\ UNCHANGED sched
        /\ \A i \in Jobs : i # j => rows'[i].status = rows[i].status
    BY <1>1, <1>3, <1>22 DEF Claim, Row
  <2> DEFINE claimed == [task[t] EXCEPT !.pc = "refresh", !.att = rows[j].attempt + 1]
  <2>2. task' = [task EXCEPT ![t] = claimed] /\ task[t] \in Future
    BY <1>1, <1>3, <1>22 DEF Claim
  <2>3. claimed.pc = "refresh" /\ claimed.job = j /\ "refresh" \in Running
    BY <1>3, <2>2 DEF Future, Running
  <2> HIDE DEF claimed
  <2>4. /\ task'[t].pc \in Running /\ task'[t].job = j
        /\ \A u \in Tasks : u # t => task'[u] = task[u]
    BY <1>1, <2>2, <2>3
  <2> QED
    BY <1>3, <1>5, <2>1, <2>4, TaskMoves
<1>24. CASE Refresh(t)
  <2> DEFINE told == [task[t] EXCEPT !.pc = "run", !.ran = rows[j].attempt]
  <2>1. /\ task' = [task EXCEPT ![t] = told] /\ task[t] \in Future
        /\ task[t].pc = "refresh" /\ UNCHANGED <<rows, sched>>
    BY <1>1, <1>3, <1>24 DEF Refresh, At, storeVars
  <2>2. /\ told.pc = "run" /\ told.job = j /\ "run" \in Running
        /\ task[t].pc \notin Taking
    BY <1>3, <2>1 DEF Future, Running, Taking
  <2> HIDE DEF told
  <2>3. /\ task'[t].pc \in Running /\ task'[t].job = j
        /\ \A u \in Tasks : u # t => task'[u] = task[u]
    BY <1>1, <2>1, <2>2
  <2>4. \/ rows'[j].status \notin {"pending", "running"}
        \/ rows'[j].status = "pending" /\ rows[j].status = "pending"
        \/ rows'[j].status = "running" /\ task'[t].pc \in Running
    BY <2>1, <2>3
  <2> QED
    BY <1>3, <1>5, <2>1, <2>2, <2>3, <2>4, TaskMoves
<1>23. CASE ScheduleRetry(t)
  <2>1. PICK pc \in {"scheduled", "done"} : Goto(t, pc)
    BY <1>23 DEF ScheduleRetry
  <2>2. /\ task[t].pc = "sched" /\ UNCHANGED <<rows, used>>
        /\ sched' = [sched EXCEPT ![j] = "waiting"] /\ task[t].pc \notin Running
    BY <1>3, <1>23, NoFault DEF ScheduleRetry, At, Running
  <2>3. /\ sched'[j] = "waiting"
        /\ \A i \in Jobs : sched[i] # "none" => sched'[i] # "none"
    BY <1>1, <2>2
  <2>4. /\ task'[t].pc = pc /\ task'[t].job = j
        /\ \A u \in Tasks : u # t => task'[u] = task[u]
    BY <1>1, <1>3, <2>1, GotoMoves
  <2>5. \/ rows'[j].status \notin {"pending", "running"}
        \/ rows'[j].status = "pending" /\ sched'[j] # "none"
        \/ rows'[j].status = "running" /\ rows[j].status = "running"
    BY <2>2, <2>3
  <2> QED
    BY <1>3, <1>5, <2>2, <2>3, <2>4, <2>5, TaskMoves
<1> QED
  BY <1>4, <1>9, <1>10, <1>11, <1>13, <1>14, <1>17, <1>18, <1>19,
     <1>20, <1>21, <1>22, <1>23, <1>24 DEF Work

\* The main loop.
LEMMA MainLoopKeeps ==
    ASSUME NobodyDies, TypeOK, Up, NEW r \in Runners, MainLoop(r) \/ PopLost(r),
           UNCHANGED <<promo, pub>>
    PROVE  Up' /\ \A i \in Jobs : Keeps(i)
<1>1. ~PopLost(r) /\ ~SubmitRejected(r)
  BY NoFault DEF PopLost, SubmitRejected, Up
<1>2. UNCHANGED <<rows, sched, phase, reaper, promo, pub>> /\ Up'
  BY <1>1 DEF MainLoop, Pop, Track, Up
<1>3. ASSUME NEW i \in Jobs
      PROVE  /\ ReaperTakes(i) => ReaperTakes(i)'
             /\ InSchedule(i) => InSchedule(i)'
             /\ pub'[i] = pub[i]
  BY <1>2 DEF ReaperTakes, InSchedule
<1>4. ASSUME NEW i \in Jobs,
             InQueue(i) => InQueue(i)' \/ InHand(i)',
             InHand(i) => InHand(i)' \/ TaskTakes(i)',
             TaskTakes(i) => TaskTakes(i)', TaskRuns(i) => TaskRuns(i)'
      PROVE  Keeps(i)
  <2>1. Taken(i) => Taken(i)'
    BY <1>3, <1>4 DEF Taken
  <2>2. rows'[i].status = rows[i].status
    BY <1>2
  <2> QED
    BY <1>4, <2>1, <2>2, KeepsIt
<1>5. CASE Pop(r)
  <2>1. Tail1 \in Jobs /\ \A i \in Jobs : i # Tail1 => (InQueue(i) => InQueue(i)')
    BY <1>5, PopTakes, PopType DEF Pop, Up, TypeOK, StoreTypeOK
  <2>2. /\ hand[r] = NoJob /\ hand'[r] = Tail1
        /\ \A s \in Runners : s # r => hand'[s] = hand[s]
        /\ UNCHANGED task
    BY <1>5 DEF Pop, Up, TypeOK, EngineTypeOK
  <2>3. ASSUME NEW i \in Jobs
        PROVE  /\ InHand(i) => InHand(i)'
               /\ TaskTakes(i) => TaskTakes(i)'
               /\ TaskRuns(i) => TaskRuns(i)'
               /\ i = Tail1 => InHand(i)'
    BY <2>2, StoreAssumption DEF InHand, TaskTakes, TaskRuns
  <2>4. ASSUME NEW i \in Jobs PROVE Keeps(i)
    BY <1>4, <2>1, <2>3
  <2> QED
    BY <1>2, <2>4
<1>6. CASE Track(r)
  <2>1. PICK t \in Tasks :
           /\ task[t].pc = "free"
           /\ task' = [task EXCEPT ![t] = [pc |-> "queued", job |-> hand[r],
                                           runner |-> r, att |-> 0, ran |-> 0]]
    BY <1>6 DEF Track
  <2>2. /\ task'[t].pc = "queued" /\ task'[t].job = hand[r]
        /\ \A u \in Tasks : u # t => task'[u] = task[u]
    BY <2>1 DEF TypeOK, EngineTypeOK, TaskTypeOK
  <2>3. /\ \A s \in Runners : s # r => hand'[s] = hand[s]
        /\ UNCHANGED queue
    BY <1>6 DEF Track, Up, TypeOK, EngineTypeOK
  <2>4. "free" \notin Taking /\ "free" \notin Running /\ "queued" \in Taking
    BY DEF Taking, Running
  <2>5. ASSUME NEW i \in Jobs
        PROVE  /\ InQueue(i) => InQueue(i)'
               /\ InHand(i) => InHand(i)' \/ TaskTakes(i)'
               /\ TaskTakes(i) => TaskTakes(i)'
               /\ TaskRuns(i) => TaskRuns(i)'
    BY <2>1, <2>2, <2>3, <2>4 DEF InQueue, InHand, TaskTakes, TaskRuns
  <2>6. ASSUME NEW i \in Jobs PROVE Keeps(i)
    BY <1>4, <2>5
  <2> QED
    BY <1>2, <2>6
<1> QED
  BY <1>1, <1>5, <1>6 DEF MainLoop

\* The reaper.
LEMMA ReapKeeps ==
    ASSUME NobodyDies, TypeOK, Up, NEW r \in Runners, Reap(r) \/ ReapFails(r),
           UNCHANGED <<promo, pub>>
    PROVE  Up' /\ \A i \in Jobs : Keeps(i)
<1>1. /\ reaper \in [Runners -> [pc : ReaperPC, job : Jobs \union {NoJob}]]
      /\ reaper[r].pc # "idle" => reaper[r].job \in Jobs
      /\ rows \in [Jobs -> Row] /\ queue \in Seq(Jobs)
  BY DEF TypeOK, StoreTypeOK, EngineTypeOK, ReaperTypeOK
<1>2. ~ReapFails(r)
  BY NoFault DEF ReapFails, ReapPushFails, ReapReadFails, ReapSaveFails
<1>3. UNCHANGED <<phase, hand, task, sched, promo, pub>>
  BY <1>2 DEF Reap, ReapFetch, ReapRead, ReapDrop, ReapExpireRemove, ReapFailRemove,
     ReapRequeueRemove, ReapRemove, ReapExpireSave, ReapFailSave, ReapReset, ReapResetLost,
     ReapPush, OnlyReaper, storeVars
<1>4. Up'
  BY <1>3 DEF Up
<1>5. ASSUME NEW pc, ReapGoto(r, pc)
      PROVE  /\ reaper'[r].pc = pc /\ reaper'[r].job = reaper[r].job
             /\ \A s \in Runners : s # r => reaper'[s] = reaper[s]
  BY <1>1, <1>5 DEF ReapGoto
<1>6. ASSUME ReapNext(r)
      PROVE  /\ reaper'[r].pc = "idle"
             /\ \A s \in Runners : s # r => reaper'[s] = reaper[s]
  BY <1>1, <1>6 DEF ReapNext, IdleReaper
<1>7. ASSUME UNCHANGED queue PROVE \A i \in Jobs : InQueue(i) => InQueue(i)'
  BY <1>7 DEF InQueue
<1>8. ASSUME NEW j \in Jobs, UNCHANGED rows,
             reaper[r].pc \notin Recovering \/ reaper'[r].pc \in Recovering
      PROVE  \/ rows'[j].status \notin {"pending", "running"}
             \/ /\ rows'[j].status = "pending"
                /\ \/ reaper'[r].pc \in Recovering
                   \/ rows[j].status = "pending" /\ reaper[r].pc \notin Recovering
             \/ rows'[j].status = "running" /\ rows[j].status = "running"
  BY <1>8
<1>9. CASE ReapFetch(r)
  <2>1. UNCHANGED <<rows, queue, reaper>>
    BY <1>9 DEF ReapFetch, storeVars
  <2>2. ASSUME NEW i \in Jobs PROVE Keeps(i)
    BY <1>3, <2>1 DEF Keeps, Awaited, Attended, Taken, InQueue, InHand, TaskTakes,
       TaskRuns, ReaperTakes, InSchedule
  <2> QED
    BY <1>4, <2>2
<1>10. CASE ReapRead(r)
  <2>1. PICK j \in batch[r] : reaper' = [reaper EXCEPT ![r] = [pc |-> Verdict(j), job |-> j]]
    BY <1>10 DEF ReapRead
  <2>2. /\ j \in Jobs /\ reaper'[r].job = j /\ reaper[r].pc = "idle"
        /\ \A s \in Runners : s # r => reaper'[s] = reaper[s]
        /\ UNCHANGED <<rows, queue>>
    BY <1>1, <1>10, <2>1 DEF ReapRead, ReapAt, storeVars, Up, TypeOK, EngineTypeOK
  <2>3. "idle" \notin Recovering
    BY DEF Recovering
  <2> QED
    BY <1>3, <1>4, <1>7, <1>8, <2>2, <2>3, ReaperSteps
<1>11. CASE ReapDrop(r)
  <2>1. /\ reaper[r].pc = "drop" /\ "drop" \notin Recovering
        /\ ReapNext(r) /\ UNCHANGED <<rows, queue>>
    BY <1>11 DEF ReapDrop, ReapAt, Recovering
  <2>2. PICK j \in Jobs : j = reaper[r].job
    BY <1>1, <2>1
  <2> QED
    BY <1>3, <1>4, <1>6, <1>7, <1>8, <2>1, <2>2, ReaperSteps
<1>12. CASE ReapExpireRemove(r) \/ ReapFailRemove(r) \/ ReapRequeueRemove(r)
  <2>1. PICK pc : /\ ReapGoto(r, pc) /\ reaper[r].pc # "idle" /\ pc \in Recovering
                  /\ UNCHANGED <<rows, queue>>
    BY <1>12 DEF ReapExpireRemove, ReapFailRemove, ReapRequeueRemove, ReapRemove, ReapAt,
       Recovering
  <2>2. PICK j \in Jobs : j = reaper[r].job
    BY <1>1, <2>1
  <2> QED
    BY <1>3, <1>4, <1>5, <1>7, <1>8, <2>1, <2>2, ReaperSteps
<1>13. CASE ReapExpireSave(r) \/ ReapFailSave(r)
  <2>1. ReapNext(r) /\ reaper[r].pc # "idle" /\ UNCHANGED queue
    BY <1>13, NoFault DEF ReapExpireSave, ReapFailSave, ReapRecord, ReapAt
  <2>2. PICK j \in Jobs : j = reaper[r].job
    BY <1>1, <2>1
  <2>3. /\ rows'[j].status \notin {"pending", "running"}
        /\ \A i \in Jobs : i # j => rows'[i].status = rows[i].status
    <3>1. SaveStatus(j, "expired") \/ SaveError(j, "failed", FALSE)
      BY <1>13, <2>2 DEF ReapExpireSave, ReapFailSave
    <3>2. PICK x \in {"expired", "failed"}, u \in {FALSE} :
             SaveStatus(j, x) \/ SaveError(j, x, u)
      BY <3>1
    <3>3. /\ rows'[j].status = x
          /\ \A i \in Jobs : i # j => rows'[i].status = rows[i].status
      BY <1>1, <3>2, SaveWrites
    <3> QED
      BY <3>3
  <2> QED
    BY <1>3, <1>4, <1>6, <1>7, <2>1, <2>2, <2>3, ReaperSteps
<1>14. CASE ReapReset(r)
  <2>1. ReapGoto(r, "requeue") /\ reaper[r].pc # "idle" /\ UNCHANGED queue
    BY <1>14 DEF ReapReset, ReapAt
  <2>2. PICK j \in Jobs : j = reaper[r].job
    BY <1>1, <2>1
  <2>3. /\ rows'[j].status = "pending" /\ "requeue" \in Recovering
        /\ \A i \in Jobs : i # j => rows'[i].status = rows[i].status
    BY <1>1, <1>14, <2>2 DEF ReapReset, Row, Recovering
  <2> QED
    BY <1>3, <1>4, <1>5, <1>7, <2>1, <2>2, <2>3, ReaperSteps
<1>15. CASE ReapResetLost(r)
  <2>1. /\ ReapGoto(r, "drop") /\ reaper[r].pc = "reset" /\ UNCHANGED <<rows, queue>>
        /\ "reset" \notin Recovering
    BY <1>15 DEF ReapResetLost, ReapAt, storeVars, Recovering
  <2>2. PICK j \in Jobs : j = reaper[r].job
    BY <1>1, <2>1
  <2> QED
    BY <1>3, <1>4, <1>5, <1>7, <1>8, <2>1, <2>2, ReaperSteps
<1>16. CASE ReapPush(r)
  <2>1. ReapNext(r) /\ reaper[r].pc # "idle" /\ Push(reaper[r].job) /\ UNCHANGED rows
    BY <1>16, NoFault DEF ReapPush, ReapRecord, ReapAt
  <2>2. PICK j \in Jobs : j = reaper[r].job
    BY <1>1, <2>1
  <2>3. InQueue(j)' /\ \A i \in Jobs : InQueue(i) => InQueue(i)'
    BY <1>1, <2>1, <2>2, PushAdds
  <2>4. \/ rows'[j].status \notin {"pending", "running"}
        \/ rows'[j].status = "pending" /\ InQueue(j)'
        \/ rows'[j].status = "running" /\ rows[j].status = "running"
    BY <2>1, <2>3
  <2> QED
    BY <1>3, <1>4, <1>6, <2>1, <2>2, <2>3, <2>4, ReaperSteps
<1> QED
  BY <1>2, <1>9, <1>10, <1>11, <1>12, <1>13, <1>14, <1>15, <1>16 DEF Reap

-----------------------------------------------------------------------------
(* The others, and time.                                                   *)

\* A step that moves no id, but for a run_at that passes.
LEMMA NothingMoves ==
    ASSUME Up, UNCHANGED <<rows, queue, phase, hand, task, reaper, promo, pub>>,
           \A i \in Jobs : sched[i] # "none" => sched'[i] # "none"
    PROVE  Up' /\ \A i \in Jobs : Keeps(i)
<1>1. Up'
  BY DEF Up
<1>2. ASSUME NEW i \in Jobs PROVE Keeps(i)
  <2>1. (InQueue(i) => InQueue(i)') /\ (InHand(i) => InHand(i)')
    BY DEF InQueue, InHand
  <2>2. /\ TaskTakes(i) => TaskTakes(i)'
        /\ TaskRuns(i) => TaskRuns(i)'
        /\ ReaperTakes(i) => ReaperTakes(i)'
    BY DEF TaskTakes, TaskRuns, ReaperTakes
  <2>3. (InSchedule(i) => InSchedule(i)') /\ (pub[i] > 0 => pub'[i] > 0)
    BY DEF InSchedule
  <2> QED
    BY <2>1, <2>2, <2>3 DEF Keeps, Awaited, Attended, Taken
<1> QED
  BY <1>1, <1>2

\* No process goes down and none is started.
LEMMA NobodyGoes ==
    ASSUME NobodyDies, TypeOK, Up, NEW r \in Runners
    PROVE  ~Lifecycle(r)
<1>1. ~Crash(r)
  <2>1. SUFFICES ASSUME Crash(r) PROVE FALSE
    OBVIOUS
  <2>2. Spend("windowCrash") \/ Spend("retryCrash") \/ Spend("crash")
    BY <2>1 DEF Crash
  <2> QED
    BY <2>2, NoFault
<1>2. ~Stop(r) /\ ~Terminate(r) /\ ~Exit(r) /\ ~Start(r)
  BY NoFault DEF Stop, Terminate, Exit, Start, Up
<1> QED
  BY <1>1, <1>2 DEF Lifecycle

\* The scheduler.
LEMMA SchedulerKeeps ==
    ASSUME NobodyDies, TypeOK, Up, Scheduler
    PROVE  Up' /\ \A i \in Jobs : Keeps(i)
<1>1. /\ promo \in [Jobs -> {"none", "waiting", "due", "readd"}]
      /\ sched \in [Jobs -> {"none", "waiting", "due"}] /\ queue \in Seq(Jobs)
  BY DEF TypeOK, StoreTypeOK, SchedulerTypeOK
<1>2. /\ ~PopScheduledLost /\ ~AddBackFails /\ ~SchedulerCrash
      /\ \A j \in Jobs : ~PromoteFails(j)
  BY NoFault DEF PopScheduledLost, AddBackFails, SchedulerCrash, PromoteFails
<1>3. UNCHANGED <<rows, phase, hand, task, reaper, pub>>
  BY <1>2 DEF Scheduler, SchedulerNext, PopScheduled, AddBack, Promote, engineVars
<1>4. ASSUME NEW i \in Jobs,
             InQueue(i) => InQueue(i)', InSchedule(i) => InSchedule(i)' \/ InQueue(i)'
      PROVE  Keeps(i)
  <2>1. /\ InHand(i) => InHand(i)'
        /\ TaskTakes(i) => TaskTakes(i)'
        /\ TaskRuns(i) => TaskRuns(i)'
        /\ ReaperTakes(i) => ReaperTakes(i)'
        /\ pub'[i] = pub[i]
    BY <1>3 DEF InHand, TaskTakes, TaskRuns, ReaperTakes
  <2>2. Taken(i) => Taken(i)'
    BY <1>4, <2>1 DEF Taken
  <2>3. rows'[i].status = rows[i].status
    BY <1>3
  <2> QED
    BY <2>1, <2>2, <2>3, KeepsIt
<1>5. CASE PopScheduled
  <2>1. ASSUME NEW i \in Jobs
        PROVE  (InQueue(i) => InQueue(i)') /\ (InSchedule(i) => InSchedule(i)')
    BY <1>5 DEF PopScheduled, Holding, InQueue, InSchedule
  <2> QED
    BY <1>3, <1>4, <2>1 DEF Up
<1>6. CASE AddBack
  <2>1. ASSUME NEW i \in Jobs
        PROVE  (InQueue(i) => InQueue(i)') /\ (InSchedule(i) => InSchedule(i)')
    BY <1>1, <1>6 DEF AddBack, InQueue, InSchedule
  <2> QED
    BY <1>3, <1>4, <2>1 DEF Up
<1>7. ASSUME NEW j \in Jobs, Promote(j) PROVE Up' /\ \A i \in Jobs : Keeps(i)
  <2>1. InQueue(j)' /\ \A i \in Jobs : InQueue(i) => InQueue(i)'
    BY <1>1, <1>7, PushAdds DEF Promote
  <2>2. ASSUME NEW i \in Jobs, i # j PROVE InSchedule(i) => InSchedule(i)'
    BY <1>1, <1>7, <2>2 DEF Promote, InSchedule
  <2> QED
    BY <1>3, <1>4, <2>1, <2>2 DEF Up
<1> QED
  BY <1>2, <1>5, <1>6, <1>7 DEF Scheduler, SchedulerNext

\* A publisher.
LEMMA PublisherKeeps ==
    ASSUME NobodyDies, TypeOK, Up, Publisher
    PROVE  Up' /\ \A i \in Jobs : Keeps(i)
<1>1. /\ rows \in [Jobs -> Row] /\ pub \in [Jobs -> Nat]
      /\ sched \in [Jobs -> {"none", "waiting", "due"}] /\ queue \in Seq(Jobs)
  BY DEF TypeOK, StoreTypeOK, PublisherTypeOK
<1>2. PICK j \in Jobs : Publish(j) \/ Republish(j) \/ Mirror(j)
  BY NoFault DEF Publisher, PublisherNext, MirrorFails, PublisherCrash
<1>3. UNCHANGED <<phase, hand, task, reaper, promo>> /\ Up'
  BY DEF Publisher, engineVars, Up
<1>4. ASSUME NEW i \in Jobs, rows'[i].status = rows[i].status,
             InQueue(i) => InQueue(i)', InSchedule(i) => InSchedule(i)',
             \/ pub[i] > 0 => pub'[i] > 0
             \/ InQueue(i)' \/ InSchedule(i)'
      PROVE  Keeps(i)
  <2>1. /\ InHand(i) => InHand(i)'
        /\ TaskTakes(i) => TaskTakes(i)'
        /\ TaskRuns(i) => TaskRuns(i)'
        /\ ReaperTakes(i) => ReaperTakes(i)'
    BY <1>3 DEF InHand, TaskTakes, TaskRuns, ReaperTakes
  <2>2. Taken(i) => Taken(i)'
    BY <1>4, <2>1 DEF Taken
  <2> QED
    BY <1>4, <2>1, <2>2, KeepsIt
<1>5. CASE Publish(j) \/ Republish(j)
  <2>1. PICK u : SaveStatus(j, "pending") \/ SaveError(j, "pending", u)
    BY <1>5 DEF Publish, Republish
  <2>2. /\ rows'[j].status = "pending"
        /\ \A i \in Jobs : i # j => rows'[i].status = rows[i].status
    BY <1>1, <2>1, SaveWrites
  <2>3. pub'[j] > 0 /\ \A i \in Jobs : i # j => pub'[i] = pub[i]
    <3>1. pub' = [pub EXCEPT ![j] = pub[j] + 1] /\ pub[j] \in Nat
      BY <1>1, <1>5 DEF Publish, Republish
    <3> QED
      BY <1>1, <3>1
  <2>4. Keeps(j)
    BY <2>2, <2>3 DEF Keeps, Awaited, Attended, Taken
  <2>5. ASSUME NEW i \in Jobs, i # j PROVE Keeps(i)
    <3>1. (InQueue(i) => InQueue(i)') /\ (InSchedule(i) => InSchedule(i)')
      BY <1>3, <1>5 DEF Publish, Republish, InQueue, InSchedule
    <3> QED
      BY <1>4, <2>2, <2>3, <2>5, <3>1
  <2> QED
    BY <1>3, <2>4, <2>5
<1>6. CASE Mirror(j)
  <2>1. /\ UNCHANGED rows
        /\ \A i \in Jobs : i # j => pub'[i] = pub[i]
    BY <1>1, <1>6 DEF Mirror
  <2>2. /\ \A i \in Jobs : InQueue(i) => InQueue(i)'
        /\ \A i \in Jobs : InSchedule(i) => InSchedule(i)'
        /\ InQueue(j)' \/ InSchedule(j)'
    <3>1. CASE Push(j) /\ UNCHANGED sched
      BY <1>1, <1>3, <3>1, PushAdds DEF InSchedule
    <3>2. CASE sched' = [sched EXCEPT ![j] = "waiting"] /\ UNCHANGED queue
      BY <1>1, <1>3, <3>2 DEF InSchedule, InQueue
    <3> QED
      BY <1>6, <3>1, <3>2 DEF Mirror, Write
  <2>3. ASSUME NEW i \in Jobs PROVE Keeps(i)
    BY <1>4, <2>1, <2>2
  <2> QED
    BY <1>3, <2>3
<1> QED
  BY <1>2, <1>5, <1>6

-----------------------------------------------------------------------------
(* The invariant.                                                          *)

\* Nothing is pending at first, and every process is up.
LEMMA InitKept == Init => Up /\ \A i \in Jobs : Awaited(i) /\ Attended(i)
BY DEF Init, StoreInit, EngineInit, Up, Awaited, Attended

\* Every step keeps the id of a job with somebody.
LEMMA StepKept ==
    ASSUME NobodyDies, TypeOK, Up, [Next]_vars
    PROVE  Up' /\ \A i \in Jobs : Keeps(i)
<1>1. sched \in [Jobs -> {"none", "waiting", "due"}]
  BY DEF TypeOK, StoreTypeOK
<1>2. CASE Engine
  <2>1. UNCHANGED <<promo, pub>>
    BY <1>2 DEF Engine
  <2>2. ASSUME NEW r \in Runners, Heartbeat(r) PROVE Up' /\ \A i \in Jobs : Keeps(i)
    <3>1. UNCHANGED <<rows, queue, phase, hand, task, reaper, sched>>
      BY <2>2 DEF Heartbeat, SnapshotActive, TouchActive, EndPass, storeVars
    <3> QED
      BY <2>1, <3>1, NothingMoves
  <2>3. ASSUME NEW j \in Jobs, LeaseAges(j) PROVE Up' /\ \A i \in Jobs : Keeps(i)
    <3>1. UNCHANGED <<rows, queue, phase, hand, task, reaper, sched>>
      BY <2>3 DEF LeaseAges, engineVars
    <3> QED
      BY <2>1, <3>1, NothingMoves
  <2>4. ASSUME ReapLockExpires PROVE Up' /\ \A i \in Jobs : Keeps(i)
    <3>1. UNCHANGED <<rows, queue, phase, hand, task, reaper, sched>>
      BY <2>4 DEF ReapLockExpires
    <3> QED
      BY <2>1, <3>1, NothingMoves
  <2> QED
    BY <1>2, <2>1, <2>2, <2>3, <2>4, WorkerKeeps, MainLoopKeeps, ReapKeeps, NobodyGoes
       DEF Engine, EngineNext
<1>3. CASE Clock
  <2>1. PICK j \in Jobs : RunAtPasses(j) \/ ExpiryPasses(j)
    BY <1>3 DEF Clock
  <2>2. UNCHANGED <<rows, queue, phase, hand, task, reaper, promo, pub>>
    BY <2>1 DEF RunAtPasses, ExpiryPasses, BecomeDue, BecomeOverdue, engineVars
  <2>3. \A i \in Jobs : sched[i] # "none" => sched'[i] # "none"
    BY <1>1, <2>1 DEF RunAtPasses, ExpiryPasses, BecomeDue, BecomeOverdue
  <2> QED
    BY <2>2, <2>3, NothingMoves
<1>4. CASE UNCHANGED vars
  BY <1>4, NothingMoves DEF vars, storeVars, engineVars
<1> QED
  BY <1>2, <1>3, <1>4, SchedulerKeeps, PublisherKeeps DEF Next

\* The inductive invariant of a fleet that loses no process and no call.
THEOREM Invariant == ASSUME NobodyDies PROVE Spec => []IInv
<1>1. Init => IInv
  BY InitType, InitKept DEF IInv
<1>2. IInv /\ [Next]_vars => IInv'
  <2>1. SUFFICES ASSUME IInv, [Next]_vars PROVE IInv'
    OBVIOUS
  <2> QED
    BY <2>1, NextType, StepKept DEF IInv, Keeps
<1> QED
  BY <1>1, <1>2, PTL DEF Spec

\* No pending row is forgotten, however often a heartbeat, a reaper or the
\* expiry of its lock slips and a key is published twice: execute_job and the
\* reaper hand the id on before they let go of it.
THEOREM PendingHolds == ASSUME NobodyDies PROVE Spec => []PendingIsCarried
<1>1. IInv => PendingIsCarried
  <2>1. SUFFICES ASSUME IInv, NEW j \in Jobs, rows[j].status = "pending" PROVE Carried(j)
    BY DEF PendingIsCarried
  <2>2. Taken(j)
    BY <2>1 DEF IInv, Awaited
  <2> QED
    BY <2>2, TakenIsCarried
<1> QED
  BY <1>1, Invariant, PTL

\* A running row is always in the hands of a live engine, whose save, retry or
\* failure handling is still to come: its lease is not even needed.
THEOREM RunningHolds == ASSUME NobodyDies PROVE Spec => []RunningIsRecoverable
<1>1. IInv => RunningIsRecoverable
  BY DEF IInv, Attended, TaskRuns, Running, RunningIsRecoverable, JobOf
<1> QED
  BY <1>1, Invariant, PTL
=============================================================================
