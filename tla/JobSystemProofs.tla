--------------------------- MODULE JobSystemProofs ---------------------------
(***************************************************************************)
(* What holds of JobSystem for every number of jobs, runners and futures   *)
(* and for every bound on the faults: its types, and the claim fence.      *)
(***************************************************************************)
EXTENDS JobSystem, SequenceTheorems, TLAPS

USE StoreAssumption, EngineAssumption

-----------------------------------------------------------------------------
(* Type correctness.                                                       *)

\* BRPOP yields a job id and leaves a queue of job ids.
LEMMA PopType ==
    ASSUME queue \in Seq(Jobs), queue # <<>>
    PROVE  /\ Tail1 \in Jobs
           /\ SubSeq(queue, 1, Len(queue) - 1) \in Seq(Jobs)
<1>1. Len(queue) \in Nat /\ Len(queue) > 0
  OBVIOUS
<1>2. \A i \in 1..(Len(queue) - 1) : queue[i] \in Jobs
  BY <1>1
<1>3. SubSeq(queue, 1, Len(queue) - 1) \in Seq(Jobs)
  BY <1>1, <1>2, SubSeqProperties
<1> QED
  BY <1>1, <1>3 DEF Tail1

\* The saves keep the table a table.
LEMMA SaveStatusType ==
    ASSUME rows \in [Jobs -> Row], NEW j \in Jobs, NEW s \in Status, SaveStatus(j, s)
    PROVE  rows' \in [Jobs -> Row]
<1> DEFINE saved == [rows[j] EXCEPT !.status = s]
<1>1. rows[j] \in Row
  OBVIOUS
<1>2. saved \in Row
  BY <1>1 DEF Row
<1>3. rows' = [rows EXCEPT ![j] = saved]
  BY DEF SaveStatus
<1> QED
  BY <1>2, <1>3

\* A save with last_error keeps the rows typed.
LEMMA SaveErrorType ==
    ASSUME rows \in [Jobs -> Row], NEW j \in Jobs, NEW s \in Status, NEW u \in BOOLEAN,
           SaveError(j, s, u)
    PROVE  rows' \in [Jobs -> Row]
<1> DEFINE saved == [rows[j] EXCEPT !.status = s, !.unqueued = u]
<1>1. rows[j] \in Row
  OBVIOUS
<1>2. saved \in Row
  BY <1>1 DEF Row
<1>3. rows' = [rows EXCEPT ![j] = saved]
  BY DEF SaveError
<1> QED
  BY <1>2, <1>3

\* The initial state has the types.
LEMMA InitType == Init => TypeOK
<1> SUFFICES ASSUME Init PROVE TypeOK
  OBVIOUS
<1> USE DEF Init
<1>1. StoreTypeOK
  BY DEF StoreInit, StoreTypeOK, Row, Status, StoreAssumption
<1>2. TaskTypeOK
  BY DEF EngineInit, TaskTypeOK, Future, TaskPC, NoTask
<1>3. ReaperTypeOK
  BY DEF EngineInit, ReaperTypeOK, ReaperPC, IdleReaper
<1>4. EngineTypeOK
  BY <1>2, <1>3 DEF EngineInit, EngineTypeOK
<1> QED
  BY <1>1, <1>4 DEF SchedulerInit, PublisherInit, TypeOK, SchedulerTypeOK, PublisherTypeOK

\* RPUSH keeps the queue a queue, and a fault stays within its bound.
LEMMA PushType ==
    ASSUME queue \in Seq(Jobs), NEW j \in Jobs, Push(j)
    PROVE  queue' \in Seq(Jobs)
BY DEF Push

\* A fault leaves the budget in its bounds.
LEMMA SpendType ==
    ASSUME used \in 0..MaxFaults, NEW f, Spend(f)
    PROVE  used' \in 0..MaxFaults
BY DEF Spend, StoreAssumption

\* A publisher's step keeps the types.
LEMMA PublisherType == TypeOK /\ Publisher => TypeOK'
<1> SUFFICES ASSUME TypeOK, NEW j \in Jobs, Publisher,
                    Publish(j) \/ Republish(j) \/ Mirror(j) \/ MirrorFails(j)
                       \/ PublisherCrash(j)
             PROVE  TypeOK'
  BY DEF Publisher, PublisherNext
<1> USE DEF TypeOK, StoreTypeOK, PublisherTypeOK
<1>1. EngineTypeOK' /\ SchedulerTypeOK'
  BY DEF Publisher, engineVars, EngineTypeOK, TaskTypeOK, ReaperTypeOK, SchedulerTypeOK
<1>2. rows' \in [Jobs -> Row]
  <2>1. {"pending", "failed"} \subseteq Status /\ rows[j].unqueued \in BOOLEAN
    BY DEF Status, Terminal, Row
  <2>2. ASSUME Republish(j)
        PROVE  \E u \in BOOLEAN : SaveError(j, "pending", u)
    <3>1. CASE CanResume(j)
      BY <2>2, <3>1 DEF Republish
    <3>2. CASE ~CanResume(j)
      BY <2>1, <2>2, <3>2 DEF Republish
    <3> QED
      BY <3>1, <3>2
  <2>3. CASE Publish(j)
    BY <2>1, <2>3, SaveStatusType DEF Publish
  <2>4. CASE Republish(j)
    BY <2>1, <2>2, <2>4, SaveErrorType
  <2>5. CASE MirrorFails(j)
    BY <2>1, <2>5, SaveErrorType DEF MirrorFails
  <2> QED
    BY <2>3, <2>4, <2>5 DEF Mirror, PublisherCrash
<1>3. queue' \in Seq(Jobs)
  BY PushType DEF Publish, Republish, Mirror, MirrorFails, PublisherCrash, Write
<1>4. used' \in 0..MaxFaults
  BY SpendType DEF Publish, Republish, Mirror, MirrorFails, PublisherCrash
<1>5. pub' \in [Jobs -> Nat]
  <2>1. pub[j] \in Nat
    OBVIOUS
  <2>2. pub[j] + 1 \in Nat /\ (pub[j] > 0 => pub[j] - 1 \in Nat)
    BY <2>1
  <2> QED
    BY <2>2 DEF Publish, Republish, Mirror, MirrorFails, PublisherCrash
<1>6. /\ lease' \in [Jobs -> {"none", "fresh", "stale"}]
      /\ sched' \in [Jobs -> {"none", "waiting", "due"}]
      /\ overdue' \in SUBSET Jobs
  BY DEF Publish, Republish, Mirror, MirrorFails, PublisherCrash, Write
<1> QED
  BY <1>1, <1>2, <1>3, <1>4, <1>5, <1>6

\* A scheduler's step keeps the types.
LEMMA SchedulerType == TypeOK /\ Scheduler => TypeOK'
<1> SUFFICES ASSUME TypeOK, Scheduler PROVE TypeOK'
  OBVIOUS
<1> USE DEF TypeOK, StoreTypeOK, SchedulerTypeOK, Spend
<1>1. EngineTypeOK' /\ PublisherTypeOK'
  BY DEF Scheduler, engineVars, EngineTypeOK, TaskTypeOK, ReaperTypeOK, PublisherTypeOK
<1>2. CASE PopScheduled
  BY <1>1, <1>2 DEF PopScheduled
<1>3. CASE AddBack
  BY <1>1, <1>3 DEF AddBack
<1>4. CASE AddBackFails
  BY <1>1, <1>4 DEF AddBackFails
<1>5. CASE SchedulerCrash
  BY <1>1, <1>5 DEF SchedulerCrash
<1>6. ASSUME NEW j \in Jobs, Promote(j) PROVE TypeOK'
  BY <1>1, <1>6 DEF Promote, Push
<1>7. ASSUME NEW j \in Jobs, PromoteFails(j) PROVE TypeOK'
  <2>1. queue' \in Seq(Jobs) /\ used' \in 0..MaxFaults
    BY <1>7, PushType, SpendType DEF PromoteFails
  <2>2. promo' \in [Jobs -> {"none", "waiting", "due", "readd"}]
    BY <1>7 DEF PromoteFails
  <2> QED
    BY <1>1, <1>7, <2>1, <2>2 DEF PromoteFails
<1>8. CASE PopScheduledLost
  BY <1>1, <1>8, SpendType DEF PopScheduledLost
<1> QED
  BY <1>2, <1>3, <1>4, <1>5, <1>6, <1>7, <1>8 DEF Scheduler, SchedulerNext

\* A future that moves on stays a future.
LEMMA GotoType ==
    ASSUME TaskTypeOK, NEW t \in Tasks, task[t].pc # "free", NEW pc \in TaskPC, Goto(t, pc)
    PROVE  TaskTypeOK'
<1> DEFINE moved == [task[t] EXCEPT !.pc = pc]
<1>1. task[t] \in Future /\ task' = [task EXCEPT ![t] = moved]
  BY DEF TaskTypeOK, Goto
<1>2. moved \in Future /\ moved.job = task[t].job /\ moved.runner = task[t].runner
  BY <1>1 DEF Future
<1>3. task' \in [Tasks -> Future]
  BY <1>1, <1>2 DEF TaskTypeOK
<1>4. \A u \in Tasks : task'[u].pc # "free" => task'[u].job \in Jobs /\ task'[u].runner \in Runners
  BY <1>1, <1>2 DEF TaskTypeOK
<1> QED
  BY <1>3, <1>4 DEF TaskTypeOK

\* So does one whose claim is over.
LEMMA LeaveType ==
    ASSUME TaskTypeOK, NEW t \in Tasks, task[t].pc # "free", NEW pc \in TaskPC, Leave(t, pc)
    PROVE  TaskTypeOK'
<1> DEFINE moved == [task[t] EXCEPT !.pc = pc, !.att = 0, !.ran = 0]
<1>1. task[t] \in Future /\ task' = [task EXCEPT ![t] = moved]
  BY DEF TaskTypeOK, Leave
<1>2. moved \in Future /\ moved.job = task[t].job /\ moved.runner = task[t].runner
  BY <1>1 DEF Future
<1>3. task' \in [Tasks -> Future]
  BY <1>1, <1>2 DEF TaskTypeOK
<1>4. \A u \in Tasks : task'[u].pc # "free" => task'[u].job \in Jobs /\ task'[u].runner \in Runners
  BY <1>1, <1>2 DEF TaskTypeOK
<1> QED
  BY <1>3, <1>4 DEF TaskTypeOK

\* Taking and removing a lease, failing calls included.
LEMMA LeaseType ==
    ASSUME StoreTypeOK, NEW j \in Jobs,
           Zrem(j) \/ TakeLease(j)
    PROVE  /\ lease' \in [Jobs -> {"none", "fresh", "stale"}]
           /\ used' \in 0..MaxFaults
BY SpendType DEF StoreTypeOK, Zrem, TakeLease, RemoveFromProcessing, Touch

\* A worker thread's step keeps the types.
LEMMA WorkType ==
    ASSUME TypeOK, NEW t \in Tasks, Work(t) \/ WorkFails(t), UNCHANGED <<promo, pub>>
    PROVE  TypeOK'
<1> USE DEF TypeOK, StoreTypeOK, EngineTypeOK, storeVars, OnlyTask, At
<1>1. /\ SchedulerTypeOK' /\ PublisherTypeOK'
      /\ UNCHANGED reaper => ReaperTypeOK'
  BY DEF SchedulerTypeOK, PublisherTypeOK, ReaperTypeOK
<1>2. /\ {"completed", "expired", "pending", "failed"} \subseteq Status
      /\ {"queued", "expire", "claim", "refresh", "run", "save", "release", "account",
          "fail", "retry", "sched", "scheduled", "giveup", "unlease", "done"} \subseteq TaskPC
  BY DEF TaskPC, Status, Terminal
<1>3. task[t].pc # "free" => JobOf(t) \in Jobs
  BY DEF TaskTypeOK, JobOf
<1>4. CASE Load(t)
  BY <1>1, <1>2, <1>4, GotoType DEF Load
<1>5. CASE LoadFails(t)
  BY <1>1, <1>2, <1>3, <1>5, GotoType, SpendType DEF LoadFails, RemoveFromProcessing
<1>6. CASE MarkExpired(t)
  BY <1>1, <1>2, <1>3, <1>6, GotoType, SaveStatusType DEF MarkExpired
<1>7. CASE ClaimLost(t)
  BY <1>1, <1>2, <1>7, GotoType DEF ClaimLost
<1>8. CASE HandlerRaises(t)
  BY <1>1, <1>2, <1>8, LeaveType DEF HandlerRaises
<1>9. CASE Claim(t)
  <2> DEFINE j == JobOf(t)
             claimed == [rows[j] EXCEPT !.status = "running", !.attempt = rows[j].attempt + 1,
                                 !.runner = task[t].runner]
             held == [task[t] EXCEPT !.pc = "refresh", !.att = rows[j].attempt + 1]
  <2>1. task[t] \in Future /\ rows[j] \in Row /\ j \in Jobs /\ task[t].runner \in Runners
    BY <1>3, <1>9 DEF Claim, TaskTypeOK
  <2>2. claimed \in Row /\ held \in Future
    <3>1. rows[j].attempt + 1 \in Nat
      BY <2>1 DEF Row
    <3>2. claimed \in Row
      BY <2>1, <3>1 DEF Row, Status
    <3> QED
      BY <2>1, <3>1, <3>2 DEF Future, TaskPC
  <2>3. rows' = [rows EXCEPT ![j] = claimed] /\ task' = [task EXCEPT ![t] = held]
    BY <1>9, <2>1 DEF Claim, Row, Future
  <2>4. rows' \in [Jobs -> Row] /\ task' \in [Tasks -> Future]
    BY <2>2, <2>3 DEF TaskTypeOK
  <2>5. TaskTypeOK'
    BY <2>1, <2>3, <2>4 DEF TaskTypeOK, JobOf
  <2> QED
    BY <1>1, <1>9, <2>4, <2>5 DEF Claim
<1>10. CASE HandlerReturns(t)
  BY <1>1, <1>2, <1>10, GotoType DEF HandlerReturns
<1>11. CASE SaveCompleted(t)
  BY <1>1, <1>2, <1>3, <1>11, LeaveType, SaveStatusType DEF SaveCompleted
<1>12. CASE SaveRaises(t)
  BY <1>1, <1>2, <1>12, LeaveType, SpendType DEF SaveRaises
<1>13. CASE Release(t)
  BY <1>1, <1>2, <1>3, <1>13, GotoType, LeaseType DEF Release
<1>14. CASE Account(t)
  BY <1>1, <1>2, <1>14, GotoType DEF Account
<1>15. CASE AccountFails(t)
  BY <1>1, <1>2, <1>15, GotoType, SpendType DEF AccountFails
<1>16. CASE ReadFailed(t)
  BY <1>1, <1>2, <1>16, GotoType DEF ReadFailed
<1>17. CASE SaveRetry(t)
  BY <1>1, <1>2, <1>3, <1>17, GotoType, SaveErrorType DEF SaveRetry
<1>18. CASE ScheduleRetry(t)
  <2>1. TaskTypeOK'
    BY <1>2, <1>18, GotoType DEF ScheduleRetry
  <2>2. sched' \in [Jobs -> {"none", "waiting", "due"}]
    BY <1>3, <1>18 DEF ScheduleRetry
  <2>3. used' \in 0..MaxFaults
    BY <1>18, SpendType DEF ScheduleRetry
  <2> QED
    BY <1>1, <1>18, <2>1, <2>2, <2>3 DEF ScheduleRetry
<1>19. CASE SaveFailed(t)
  BY <1>1, <1>2, <1>3, <1>19, GotoType, SaveErrorType, SpendType DEF SaveFailed
<1>20. CASE HandlingRaises(t)
  BY <1>1, <1>2, <1>20, GotoType, SpendType DEF HandlingRaises
<1>21. CASE Unlease(t)
  BY <1>1, <1>2, <1>3, <1>21, GotoType, LeaseType DEF Unlease
<1>22. CASE Completed(t)
  <2>1. task' = [task EXCEPT ![t] = NoTask] /\ NoTask \in Future /\ NoTask.pc = "free"
    BY <1>22 DEF Completed, NoTask, Future, TaskPC
  <2>2. TaskTypeOK'
    BY <2>1 DEF TaskTypeOK
  <2>3. active' \in [Runners -> SUBSET Jobs]
    BY <1>22 DEF Completed
  <2> QED
    BY <1>1, <1>22, <2>2, <2>3 DEF Completed
<1>23. CASE Refresh(t)
  <2> DEFINE read == [task[t] EXCEPT !.pc = "run", !.ran = rows[JobOf(t)].attempt]
  <2>1. task[t] \in Future /\ JobOf(t) \in Jobs /\ task' = [task EXCEPT ![t] = read]
    BY <1>3, <1>23 DEF Refresh, TaskTypeOK
  <2>2. rows[JobOf(t)].attempt \in Nat
    BY <2>1 DEF Row
  <2>3. read \in Future /\ read.job = task[t].job /\ read.runner = task[t].runner
    BY <2>1, <2>2 DEF Future, TaskPC
  <2>4. task' \in [Tasks -> Future]
    BY <2>1, <2>3 DEF TaskTypeOK
  <2>5. TaskTypeOK'
    BY <1>23, <2>1, <2>3, <2>4 DEF TaskTypeOK, Refresh
  <2> QED
    BY <1>1, <1>23, <2>5 DEF Refresh
<1> QED
  BY <1>4, <1>5, <1>6, <1>7, <1>8, <1>9, <1>10, <1>11, <1>12, <1>13, <1>14, <1>15,
     <1>16, <1>17, <1>18, <1>19, <1>20, <1>21, <1>22, <1>23 DEF Work, WorkFails

\* A step of the main loop keeps the types.
LEMMA MainLoopType ==
    ASSUME TypeOK, NEW r \in Runners, MainLoop(r) \/ PopLost(r),
           UNCHANGED <<promo, pub>>
    PROVE  TypeOK'
<1> USE DEF TypeOK, StoreTypeOK, EngineTypeOK
<1>1. /\ SchedulerTypeOK' /\ PublisherTypeOK'
      /\ UNCHANGED reaper => ReaperTypeOK'
      /\ UNCHANGED task => TaskTypeOK'
  BY DEF SchedulerTypeOK, PublisherTypeOK, ReaperTypeOK, TaskTypeOK
<1>2. CASE Pop(r)
  <2>1. hand' \in [Runners -> Jobs \union {NoJob}] /\ queue' \in Seq(Jobs)
    BY <1>2, PopType DEF Pop, PopTail
  <2> QED
    BY <1>1, <1>2, <2>1 DEF Pop
<1>3. CASE Track(r)
  <2>1. hand[r] \in Jobs
    BY <1>3 DEF Track
  <2>2. TaskTypeOK'
    <3>1. PICK t \in Tasks :
             task' = [task EXCEPT ![t] = [pc |-> "queued", job |-> hand[r], runner |-> r,
                                          att |-> 0, ran |-> 0]]
      BY <1>3 DEF Track
    <3>2. [pc |-> "queued", job |-> hand[r], runner |-> r, att |-> 0, ran |-> 0] \in Future
      BY <2>1 DEF Future, TaskPC
    <3> QED
      BY <2>1, <3>1, <3>2 DEF TaskTypeOK
  <2>3. active' \in [Runners -> SUBSET Jobs] /\ hand' \in [Runners -> Jobs \union {NoJob}]
    BY <1>3, <2>1 DEF Track
  <2>4. lease' \in [Jobs -> {"none", "fresh", "stale"}] /\ used' \in 0..MaxFaults
    BY <1>3, <2>1, LeaseType DEF Track
  <2> QED
    BY <1>1, <1>3, <2>2, <2>3, <2>4 DEF Track
<1>4. CASE SubmitRejected(r)
  <2>1. hand[r] \in Jobs
    BY <1>4 DEF SubmitRejected
  <2>2. lease' \in [Jobs -> {"none", "fresh", "stale"}] /\ used' \in 0..MaxFaults
    BY <1>4, <2>1, LeaseType DEF SubmitRejected
  <2> QED
    BY <1>1, <1>4, <2>2 DEF SubmitRejected
<1>5. CASE PopLost(r)
  <2>1. queue' \in Seq(Jobs) /\ used' \in 0..MaxFaults
    BY <1>5, PopType, SpendType DEF PopLost, PopTail
  <2> QED
    BY <1>1, <1>5, <2>1 DEF PopLost, engineVars
<1> QED
  BY <1>2, <1>3, <1>4, <1>5 DEF MainLoop

\* A heartbeat's step keeps the types.
LEMMA HeartbeatType ==
    ASSUME TypeOK, NEW r \in Runners, Heartbeat(r), UNCHANGED <<promo, pub>>
    PROVE  TypeOK'
<1> USE DEF TypeOK, StoreTypeOK, EngineTypeOK
<1>1. /\ SchedulerTypeOK' /\ PublisherTypeOK'
      /\ UNCHANGED reaper => ReaperTypeOK'
      /\ UNCHANGED task => TaskTypeOK'
  BY DEF SchedulerTypeOK, PublisherTypeOK, ReaperTypeOK, TaskTypeOK
<1>2. CASE SnapshotActive(r)
  BY <1>1, <1>2 DEF SnapshotActive, storeVars
<1>3. CASE TouchActive(r)
  <2>1. PICK j \in touching[r] :
           /\ Touch(j)
           /\ touching' = [touching EXCEPT ![r] = @ \ {j}]
           /\ IF Released(r, j) THEN Spend("lateTouch") ELSE UNCHANGED used
    BY <1>3 DEF TouchActive
  <2>2. lease' \in [Jobs -> {"none", "fresh", "stale"}]
    BY <2>1 DEF Touch
  <2>3. touching' \in [Runners -> SUBSET Jobs]
    BY <2>1
  <2>4. used' \in 0..MaxFaults
    BY <2>1, SpendType
  <2> QED
    BY <1>1, <1>3, <2>2, <2>3, <2>4 DEF TouchActive
<1>4. CASE EndPass(r)
  BY <1>1, <1>4 DEF EndPass, storeVars
<1> QED
  BY <1>2, <1>3, <1>4 DEF Heartbeat

\* A reaper that moves on stays a reaper.
LEMMA ReapGotoType ==
    ASSUME ReaperTypeOK, NEW r \in Runners, NEW pc \in ReaperPC,
           ReapNext(r) \/ (reaper[r].pc # "idle" /\ ReapGoto(r, pc))
    PROVE  ReaperTypeOK'
<1> DEFINE Stand == [pc : ReaperPC, job : Jobs \union {NoJob}]
           moved == [reaper[r] EXCEPT !.pc = pc]
<1>1. CASE ReapNext(r)
  <2>1. IdleReaper \in Stand /\ IdleReaper.pc = "idle"
    BY DEF IdleReaper, ReaperPC
  <2> QED
    BY <1>1, <2>1 DEF ReapNext, ReaperTypeOK
<1>2. CASE reaper[r].pc # "idle" /\ ReapGoto(r, pc)
  <2>1. reaper[r] \in Stand /\ reaper' = [reaper EXCEPT ![r] = moved]
    BY <1>2 DEF ReapGoto, ReaperTypeOK
  <2>2. moved \in Stand /\ moved.job = reaper[r].job
    BY <2>1
  <2> QED
    BY <1>2, <2>1, <2>2 DEF ReaperTypeOK
<1> QED
  BY <1>1, <1>2

\* A reaper's step keeps the types.
LEMMA ReapType ==
    ASSUME TypeOK, NEW r \in Runners, Reap(r) \/ ReapFails(r), UNCHANGED <<promo, pub>>
    PROVE  TypeOK'
<1> USE DEF TypeOK, StoreTypeOK, EngineTypeOK, OnlyReaper, ReapAt
<1>1. /\ SchedulerTypeOK' /\ PublisherTypeOK'
      /\ UNCHANGED reaper => ReaperTypeOK'
      /\ UNCHANGED task => TaskTypeOK'
  BY DEF SchedulerTypeOK, PublisherTypeOK, ReaperTypeOK, TaskTypeOK
<1>2. /\ {"expired", "failed"} \subseteq Status
      /\ {"drop", "expire", "expireSave", "fail", "failSave", "reset", "requeue", "push"}
            \subseteq ReaperPC
  BY DEF Status, Terminal, ReaperPC
<1>3. reaper[r].pc # "idle" => reaper[r].job \in Jobs
  BY DEF ReaperTypeOK
<1>4. CASE ReapFetch(r)
  BY <1>1, <1>4 DEF ReapFetch, StaleJobs, storeVars
<1>5. ASSUME NEW j \in batch[r], NEW pc \in ReaperPC,
             batch' = [batch EXCEPT ![r] = @ \ {j}],
             reaper' = [reaper EXCEPT ![r] = [pc |-> pc, job |-> j]]
      PROVE  ReaperTypeOK' /\ batch' \in [Runners -> SUBSET Jobs]
  <2>1. j \in Jobs
    OBVIOUS
  <2>2. [pc |-> pc, job |-> j] \in [pc : ReaperPC, job : Jobs \union {NoJob}]
    BY <2>1
  <2>3. ReaperTypeOK'
    BY <1>5, <2>1, <2>2 DEF ReaperTypeOK
  <2> QED
    BY <1>5, <2>3
<1>6. CASE ReapRead(r)
  <2>1. \A j \in Jobs : Verdict(j) \in ReaperPC
    BY DEF Verdict, ReaperPC
  <2> QED
    BY <1>1, <1>5, <1>6, <2>1 DEF ReapRead, storeVars
<1>7. CASE ReapDrop(r)
  BY <1>1, <1>2, <1>3, <1>7, LeaseType, ReapGotoType DEF ReapDrop
<1>8. ASSUME NEW from \in ReaperPC \ {"idle"}, NEW to \in ReaperPC, ReapRemove(r, from, to)
      PROVE  TypeOK'
  BY <1>1, <1>3, <1>8, LeaseType, ReapGotoType DEF ReapRemove
<1>9. CASE ReapExpireRemove(r) \/ ReapFailRemove(r) \/ ReapRequeueRemove(r)
  BY <1>2, <1>8, <1>9 DEF ReapExpireRemove, ReapFailRemove, ReapRequeueRemove
<1>10. ASSUME ReapRecord(r), reaper[r].pc # "idle"
       PROVE  ReaperTypeOK' /\ used' \in 0..MaxFaults
  BY <1>2, <1>10, SpendType, ReapGotoType DEF ReapRecord
<1>11. CASE ReapExpireSave(r)
  BY <1>1, <1>2, <1>3, <1>10, <1>11, SaveStatusType DEF ReapExpireSave
<1>12. CASE ReapFailSave(r)
  BY <1>1, <1>2, <1>3, <1>10, <1>12, SaveErrorType DEF ReapFailSave
<1>13. CASE ReapReset(r)
  <2> DEFINE j == reaper[r].job
             freed == [rows[j] EXCEPT !.status = "pending", !.runner = NoRunner]
  <2>1. j \in Jobs /\ rows[j] \in Row
    BY <1>3, <1>13 DEF ReapReset
  <2>2. freed \in Row /\ rows' = [rows EXCEPT ![j] = freed]
    BY <1>13, <2>1 DEF ReapReset, Row, Status
  <2>3. rows' \in [Jobs -> Row]
    BY <2>2
  <2> QED
    BY <1>1, <1>2, <1>13, <2>3, ReapGotoType DEF ReapReset
<1>14. CASE ReapResetLost(r)
  BY <1>1, <1>2, <1>14, ReapGotoType DEF ReapResetLost, storeVars
<1>15. CASE ReapPush(r)
  BY <1>1, <1>3, <1>10, <1>15, PushType DEF ReapPush
<1>16. CASE ReapPushFails(r)
  BY <1>1, <1>2, <1>3, <1>16, PushType, SpendType, ReapGotoType DEF ReapPushFails
<1>17. CASE ReapReadFails(r)
  BY <1>1, <1>2, <1>5, <1>17, SpendType DEF ReapReadFails
<1>18. CASE ReapSaveFails(r)
  BY <1>1, <1>2, <1>18, SpendType, ReapGotoType DEF ReapSaveFails
<1> QED
  BY <1>4, <1>6, <1>7, <1>9, <1>11, <1>12, <1>13, <1>14, <1>15, <1>16, <1>17, <1>18
     DEF Reap, ReapFails

\* Crashes, stops and restarts keep the types.
LEMMA LifecycleType ==
    ASSUME TypeOK, NEW r \in Runners, Lifecycle(r), UNCHANGED <<promo, pub>>
    PROVE  TypeOK'
<1> USE DEF TypeOK, StoreTypeOK, EngineTypeOK
<1>1. /\ SchedulerTypeOK' /\ PublisherTypeOK'
      /\ UNCHANGED reaper => ReaperTypeOK'
      /\ UNCHANGED task => TaskTypeOK'
  BY DEF SchedulerTypeOK, PublisherTypeOK, ReaperTypeOK, TaskTypeOK
<1>2. ASSUME Halt(r), used' \in 0..MaxFaults PROVE TypeOK'
  <2>1. TaskTypeOK'
    <3>1. NoTask \in Future /\ NoTask.pc = "free"
      BY DEF NoTask, Future, TaskPC
    <3> QED
      BY <1>2, <3>1 DEF Halt, TaskTypeOK
  <2>2. ReaperTypeOK'
    <3>1. IdleReaper \in [pc : ReaperPC, job : Jobs \union {NoJob}] /\ IdleReaper.pc = "idle"
      BY DEF IdleReaper, ReaperPC
    <3> QED
      BY <1>2, <3>1 DEF Halt, ReaperTypeOK
  <2> QED
    BY <1>1, <1>2, <2>1, <2>2 DEF Halt
<1>3. CASE Crash(r)
  <2>1. used' \in 0..MaxFaults
    BY <1>3, SpendType DEF Crash
  <2> QED
    BY <1>2, <1>3, <2>1 DEF Crash
<1>4. CASE Stop(r)
  <2>1. used' \in 0..MaxFaults
    BY <1>4, SpendType DEF Stop
  <2> QED
    BY <1>1, <1>4, <2>1 DEF Stop
<1>5. CASE Exit(r)
  <2>1. used' \in 0..MaxFaults
    BY <1>5, SpendType DEF Exit
  <2> QED
    BY <1>2, <1>5, <2>1 DEF Exit
<1>6. CASE Start(r)
  BY <1>1, <1>6 DEF Start, storeVars
<1>7. CASE Terminate(r)
  <2>1. used' \in 0..MaxFaults
    BY <1>7, SpendType DEF Terminate
  <2>2. lease' \in [Jobs -> {"none", "fresh", "stale"}]
    BY <1>7 DEF Terminate, Touch
  <2>3. /\ hand' \in [Runners -> Jobs \union {NoJob}]
        /\ phase' \in [Runners -> {"up", "stopping", "down"}]
    BY <1>7 DEF Terminate
  <2> QED
    BY <1>1, <1>7, <2>1, <2>2, <2>3 DEF Terminate
<1> QED
  BY <1>3, <1>4, <1>5, <1>6, <1>7 DEF Lifecycle

\* The passing of time keeps the types.
LEMMA TimeType ==
    ASSUME TypeOK,
           \/ /\ (\E j \in Jobs : LeaseAges(j)) \/ ReapLockExpires
              /\ UNCHANGED <<promo, pub>>
           \/ Clock
    PROVE  TypeOK'
<1> USE DEF TypeOK, StoreTypeOK, EngineTypeOK, engineVars
<1>1. /\ UNCHANGED <<promo, pub>> => SchedulerTypeOK' /\ PublisherTypeOK'
      /\ UNCHANGED reaper => ReaperTypeOK'
      /\ UNCHANGED task => TaskTypeOK'
  BY DEF SchedulerTypeOK, PublisherTypeOK, ReaperTypeOK, TaskTypeOK
<1>2. ASSUME NEW j \in Jobs, LeaseAges(j), UNCHANGED <<promo, pub>> PROVE TypeOK'
  <2>1. used' \in 0..MaxFaults
    BY <1>2, SpendType DEF LeaseAges
  <2> QED
    BY <1>1, <1>2, <2>1 DEF LeaseAges
<1>3. ASSUME ReapLockExpires, UNCHANGED <<promo, pub>> PROVE TypeOK'
  <2>1. used' \in 0..MaxFaults
    BY <1>3, SpendType DEF ReapLockExpires
  <2> QED
    BY <1>1, <1>3, <2>1 DEF ReapLockExpires
<1>4. ASSUME NEW j \in Jobs, RunAtPasses(j) PROVE TypeOK'
  <2>1. used' \in 0..MaxFaults
    BY <1>4, SpendType DEF RunAtPasses
  <2> QED
    BY <1>1, <1>4, <2>1 DEF RunAtPasses, BecomeDue
<1>5. ASSUME NEW j \in Jobs, ExpiryPasses(j) PROVE TypeOK'
  BY <1>1, <1>5 DEF ExpiryPasses, BecomeOverdue
<1> QED
  BY <1>2, <1>3, <1>4, <1>5 DEF Clock

\* A step that changes nothing keeps the types.
LEMMA StutterType == TypeOK /\ UNCHANGED vars => TypeOK'
BY DEF vars, storeVars, engineVars, TypeOK, StoreTypeOK, EngineTypeOK, TaskTypeOK,
       ReaperTypeOK, SchedulerTypeOK, PublisherTypeOK

\* Every step of the job system keeps the types.
LEMMA NextType == TypeOK /\ [Next]_vars => TypeOK'
<1> SUFFICES ASSUME TypeOK, [Next]_vars PROVE TypeOK'
  OBVIOUS
<1>1. CASE Engine
  BY <1>1, MainLoopType, HeartbeatType, ReapType, LifecycleType, WorkType, TimeType
     DEF Engine, EngineNext
<1>2. CASE Scheduler
  BY <1>2, SchedulerType
<1>3. CASE Publisher
  BY <1>3, PublisherType
<1>4. CASE Clock
  BY <1>4, TimeType
<1>5. CASE UNCHANGED vars
  BY <1>5, StutterType
<1> QED
  BY <1>1, <1>2, <1>3, <1>4, <1>5 DEF Next

\* Every reachable state has the types, whatever the constants.
THEOREM TypeCorrect == Spec => []TypeOK
<1>1. Init => TypeOK
  BY InitType
<1>2. TypeOK /\ [Next]_vars => TypeOK'
  BY NextType
<1> QED
  BY <1>1, <1>2, PTL DEF Spec

-----------------------------------------------------------------------------
(* The claim fence.  Only a claim makes a future hold a job, makes a row    *)
(* running or counts an attempt; every other step leaves both sides of the  *)
(* two invariants as they are, or takes a holder or a running row away.     *)

\* No future starts to hold a job; those that go on hold what they claimed, and
\* the attempt they execute is the one they knew or the row's at this step.
KeepsHolders ==
    \A t \in Tasks : Holds(t)' =>
        /\ Holds(t)
        /\ task'[t].job = task[t].job
        /\ task'[t].runner = task[t].runner
        /\ task'[t].att = task[t].att
        /\ task'[t].pc # "refresh" =>
              \/ task[t].pc # "refresh" /\ task'[t].ran = task[t].ran
              \/ task'[t].ran = rows[task[t].job].attempt

\* No attempt is counted and no row starts to run, and those that go on have
\* the same owner.
KeepsOwners ==
    \A j \in Jobs :
        /\ rows'[j].attempt = rows[j].attempt
        /\ rows'[j].status = "running" =>
              rows[j].status = "running" /\ rows'[j].runner = rows[j].runner

\* A step of that kind keeps the fence.
LEMMA FenceKept ==
    ASSUME TypeOK, ClaimFence, OwnerRunsIt, KeepsHolders, KeepsOwners
    PROVE  ClaimFence' /\ OwnerRunsIt'
<1>1. \A t \in Tasks : Holds(t) => task[t].job \in Jobs
  BY DEF TypeOK, EngineTypeOK, TaskTypeOK, Holds
<1>2. ClaimFence'
  <2>1. ASSUME NEW t \in Tasks, Holds(t)'
        PROVE  /\ task'[t].att \in 1..rows'[task'[t].job].attempt
               /\ task'[t].pc # "refresh" =>
                     task'[t].ran \in task'[t].att..rows'[task'[t].job].attempt
    <3> DEFINE n == rows[task[t].job].attempt
    <3>1. /\ Holds(t) /\ task[t].job \in Jobs
          /\ task'[t].job = task[t].job /\ task'[t].att = task[t].att
          /\ rows'[task[t].job].attempt = n
      BY <1>1, <2>1 DEF KeepsHolders, KeepsOwners
    <3>2. n \in Nat
      BY <3>1 DEF TypeOK, StoreTypeOK, Row
    <3>3. task[t].att \in 1..n /\ (task[t].pc # "refresh" => task[t].ran \in task[t].att..n)
      BY <3>1 DEF ClaimFence, JobOf
    <3>4. task'[t].pc # "refresh" => task'[t].ran \in task[t].att..n
      BY <2>1, <3>2, <3>3 DEF KeepsHolders
    <3> QED
      BY <3>1, <3>3, <3>4
  <2>2. ASSUME NEW t \in Tasks, NEW u \in Tasks, t # u, Holds(t)', Holds(u)',
               task'[t].job = task'[u].job
        PROVE  task'[t].att # task'[u].att
    BY <2>2 DEF ClaimFence, KeepsHolders, JobOf
  <2> QED
    BY <2>1, <2>2 DEF ClaimFence, JobOf
<1>3. OwnerRunsIt'
  BY <1>1 DEF OwnerRunsIt, KeepsHolders, KeepsOwners, JobOf
<1> QED
  BY <1>2, <1>3

\* The claim itself: the attempt it counts is above those already held.
LEMMA FenceClaimed ==
    ASSUME TypeOK, ClaimFence, OwnerRunsIt, NEW t \in Tasks, Claim(t)
    PROVE  ClaimFence' /\ OwnerRunsIt'
<1> DEFINE j == task[t].job
           n == rows[j].attempt + 1
<1>1. /\ j \in Jobs /\ rows[j] \in Row /\ task[t] \in Future
      /\ \A u \in Tasks : task[u] \in Future
      /\ \A u \in Tasks : Holds(u) => task[u].job \in Jobs
  BY DEF Claim, At, TypeOK, StoreTypeOK, EngineTypeOK, TaskTypeOK, Holds
<1>2. /\ rows[j].attempt \in Nat
      /\ \A u \in Tasks : task[u].att \in Nat
  BY <1>1 DEF Row, Future
<1>3. /\ rows'[j].attempt = n /\ rows'[j].runner = task[t].runner
      /\ \A i \in Jobs : i # j => rows'[i] = rows[i]
  BY <1>1 DEF Claim, TypeOK, StoreTypeOK, Row, JobOf
<1>4. /\ task'[t].job = j /\ task'[t].att = n /\ task'[t].runner = task[t].runner
      /\ task'[t].pc = "refresh"
      /\ \A u \in Tasks : u # t => task'[u] = task[u]
  BY <1>1 DEF Claim, TypeOK, EngineTypeOK, TaskTypeOK, Future, JobOf
<1>5. \A u \in Tasks : (u # t /\ Holds(u)') =>
         /\ Holds(u)
         /\ task'[u].att \in 1..rows[task[u].job].attempt
         /\ task'[u].pc # "refresh" =>
               task'[u].ran \in task'[u].att..rows[task[u].job].attempt
         /\ task'[u].job = task[u].job /\ task[u].job \in Jobs
  BY <1>1, <1>4 DEF Holds, ClaimFence, JobOf
<1>6. ClaimFence'
  <2>1. ASSUME NEW u \in Tasks, Holds(u)'
        PROVE  /\ task'[u].att \in 1..rows'[task'[u].job].attempt
               /\ task'[u].pc # "refresh" =>
                     task'[u].ran \in task'[u].att..rows'[task'[u].job].attempt
    <3>1. CASE u = t
      BY <1>2, <1>3, <1>4, <3>1
    <3>2. CASE u # t /\ task[u].job = j
      BY <1>2, <1>3, <1>4, <1>5, <2>1, <3>2
    <3>3. CASE u # t /\ task[u].job # j
      BY <1>3, <1>5, <2>1, <3>3
    <3> QED
      BY <3>1, <3>2, <3>3
  <2>2. ASSUME NEW u \in Tasks, NEW w \in Tasks, u # w, Holds(u)', Holds(w)',
               task'[u].job = task'[w].job
        PROVE  task'[u].att # task'[w].att
    <3>1. CASE u # t /\ w # t
      BY <1>4, <1>5, <2>2, <3>1 DEF ClaimFence, JobOf
    <3>2. CASE u = t \/ w = t
      BY <1>2, <1>4, <1>5, <2>2, <3>2
    <3> QED
      BY <3>1, <3>2
  <2> QED
    BY <2>1, <2>2 DEF ClaimFence, JobOf
<1>7. OwnerRunsIt'
  <2>1. ASSUME NEW u \in Tasks, Holds(u)', rows'[task'[u].job].status = "running",
               task'[u].att = rows'[task'[u].job].attempt
        PROVE  rows'[task'[u].job].runner = task'[u].runner
    <3>1. CASE u = t
      BY <1>3, <1>4, <3>1
    <3>2. CASE u # t /\ task[u].job = j
      BY <1>2, <1>3, <1>4, <1>5, <2>1, <3>2
    <3>3. CASE u # t /\ task[u].job # j
      BY <1>3, <1>4, <1>5, <2>1, <3>3 DEF OwnerRunsIt, JobOf
    <3> QED
      BY <3>1, <3>2, <3>3
  <2> QED
    BY <2>1 DEF OwnerRunsIt, JobOf
<1> QED
  BY <1>6, <1>7

\* What the saves and the moves of a future keep.
LEMMA SaveKeepsOwners ==
    ASSUME StoreTypeOK, NEW j \in Jobs, NEW s, NEW u, s # "running",
           SaveStatus(j, s) \/ SaveError(j, s, u)
    PROVE  KeepsOwners
<1>1. rows \in [Jobs -> Row]
  BY DEF StoreTypeOK
<1>2. rows'[j].attempt = rows[j].attempt /\ rows'[j].status = s
  BY <1>1 DEF SaveStatus, SaveError, Row
<1>3. \A i \in Jobs : i # j => rows'[i] = rows[i]
  BY <1>1 DEF SaveStatus, SaveError
<1> QED
  BY <1>2, <1>3 DEF KeepsOwners

\* A future that goes on to a place where it holds nothing.
LEMMA GotoKeepsHolders ==
    ASSUME TaskTypeOK, NEW t \in Tasks, NEW pc, pc \notin {"refresh", "run", "save"},
           Goto(t, pc) \/ Leave(t, pc)
    PROVE  KeepsHolders
<1>1. task \in [Tasks -> Future]
  BY DEF TaskTypeOK
<1>2. task'[t].pc = pc
  BY <1>1 DEF Goto, Leave, Future
<1>3. \A u \in Tasks : u # t => task'[u] = task[u]
  BY <1>1 DEF Goto, Leave
<1> QED
  BY <1>2, <1>3 DEF KeepsHolders, Holds

\* Steps that leave the rows, or the futures, alone.
LEMMA SameKeeps ==
    /\ UNCHANGED rows => KeepsOwners
    /\ UNCHANGED task => KeepsHolders
BY DEF KeepsOwners, KeepsHolders, Holds

\* A worker thread's step is a claim or keeps holders and owners.
LEMMA WorkKeeps ==
    ASSUME TypeOK, NEW t \in Tasks, Work(t) \/ WorkFails(t)
    PROVE  Claim(t) \/ (KeepsHolders /\ KeepsOwners)
<1>1. StoreTypeOK /\ TaskTypeOK
  BY DEF TypeOK, EngineTypeOK
<1>2. task[t].pc # "free" => JobOf(t) \in Jobs
  BY <1>1 DEF TaskTypeOK, JobOf
<1> USE <1>1, <1>2 DEF storeVars, At
<1>3. CASE Load(t)
  BY <1>3, SameKeeps, GotoKeepsHolders DEF Load
<1>4. CASE LoadFails(t)
  BY <1>4, SameKeeps, GotoKeepsHolders DEF LoadFails
<1>5. CASE MarkExpired(t)
  BY <1>5, SaveKeepsOwners, GotoKeepsHolders DEF MarkExpired
<1>6. CASE ClaimLost(t)
  BY <1>6, SameKeeps, GotoKeepsHolders DEF ClaimLost
<1>7. CASE HandlerReturns(t)
  <2>1. task \in [Tasks -> Future]
    BY DEF TaskTypeOK
  <2>2. /\ Holds(t)
        /\ task'[t].job = task[t].job
        /\ task'[t].runner = task[t].runner
        /\ task'[t].att = task[t].att
        /\ task'[t].ran = task[t].ran
        /\ task[t].pc # "refresh"
    BY <1>7, <2>1 DEF HandlerReturns, Holds, Goto, At, Future
  <2>3. \A u \in Tasks : u # t => task'[u] = task[u]
    BY <1>7, <2>1 DEF HandlerReturns, Goto
  <2> QED
    BY <1>7, <2>2, <2>3, SameKeeps DEF KeepsHolders, Holds, HandlerReturns
<1>8. CASE HandlerRaises(t)
  BY <1>8, SameKeeps, GotoKeepsHolders DEF HandlerRaises
<1>9. CASE SaveCompleted(t)
  BY <1>9, SaveKeepsOwners, GotoKeepsHolders DEF SaveCompleted
<1>10. CASE SaveRaises(t)
  BY <1>10, SameKeeps, GotoKeepsHolders DEF SaveRaises
<1>11. CASE Release(t)
  BY <1>11, SameKeeps, GotoKeepsHolders DEF Release
<1>12. CASE Account(t) \/ AccountFails(t)
  BY <1>12, SameKeeps, GotoKeepsHolders DEF Account, AccountFails
<1>13. CASE ReadFailed(t)
  BY <1>13, SameKeeps, GotoKeepsHolders DEF ReadFailed
<1>14. CASE SaveRetry(t)
  BY <1>14, SaveKeepsOwners, GotoKeepsHolders DEF SaveRetry
<1>15. CASE ScheduleRetry(t)
  BY <1>15, SameKeeps, GotoKeepsHolders DEF ScheduleRetry
<1>16. CASE SaveFailed(t)
  BY <1>16, SaveKeepsOwners, GotoKeepsHolders DEF SaveFailed
<1>17. CASE HandlingRaises(t)
  BY <1>17, SameKeeps, GotoKeepsHolders DEF HandlingRaises
<1>18. CASE Unlease(t)
  BY <1>18, SameKeeps, GotoKeepsHolders DEF Unlease
<1>19. CASE Completed(t)
  <2>1. task'[t].pc = "free" /\ \A u \in Tasks : u # t => task'[u] = task[u]
    BY <1>19 DEF Completed, TaskTypeOK, NoTask
  <2> QED
    BY <1>19, <2>1, SameKeeps DEF Completed, KeepsHolders, Holds
<1>20. CASE Refresh(t)
  <2>1. task \in [Tasks -> Future]
    BY DEF TaskTypeOK
  <2>2. /\ Holds(t)
        /\ task'[t].job = task[t].job
        /\ task'[t].runner = task[t].runner
        /\ task'[t].att = task[t].att
        /\ task'[t].ran = rows[task[t].job].attempt
    BY <1>20, <2>1 DEF Refresh, Holds, Future, JobOf
  <2>3. \A u \in Tasks : u # t => task'[u] = task[u]
    BY <1>20, <2>1 DEF Refresh
  <2> QED
    BY <1>20, <2>2, <2>3, SameKeeps DEF KeepsHolders, Holds, Refresh
<1> QED
  BY <1>3, <1>4, <1>5, <1>6, <1>7, <1>8, <1>9, <1>10, <1>11, <1>12, <1>13, <1>14,
     <1>15, <1>16, <1>17, <1>18, <1>19, <1>20 DEF Work, WorkFails

\* So does a step of the threads of a runner that do not work on a job ...
LEMMA RunnerKeeps ==
    ASSUME TypeOK, NEW r \in Runners,
           \/ MainLoop(r) \/ PopLost(r) \/ Heartbeat(r)
           \/ Reap(r) \/ ReapFails(r) \/ Lifecycle(r)
    PROVE  KeepsHolders /\ KeepsOwners
<1>1. StoreTypeOK /\ TaskTypeOK
  BY DEF TypeOK, EngineTypeOK
<1>2. reaper[r].pc # "idle" => reaper[r].job \in Jobs
  BY DEF TypeOK, EngineTypeOK, ReaperTypeOK
<1> USE <1>1, <1>2 DEF storeVars, ReapAt, OnlyReaper
<1>3. CASE Track(r)
  <2>1. PICK t \in Tasks :
           task' = [task EXCEPT ![t] = [pc |-> "queued", job |-> hand[r], runner |-> r,
                                        att |-> 0, ran |-> 0]]
    BY <1>3 DEF Track
  <2>2. task'[t].pc = "queued" /\ \A u \in Tasks : u # t => task'[u] = task[u]
    BY <2>1 DEF TaskTypeOK
  <2> QED
    BY <1>3, <2>2, SameKeeps DEF Track, KeepsHolders, Holds
<1>4. CASE PopLost(r) \/ (MainLoop(r) /\ ~Track(r))
  BY <1>4, SameKeeps DEF MainLoop, Pop, PopLost, SubmitRejected, engineVars
<1>5. CASE Heartbeat(r)
  BY <1>5, SameKeeps DEF Heartbeat, SnapshotActive, TouchActive, EndPass
<1>6. CASE ReapExpireSave(r)
  BY <1>6, SaveKeepsOwners, SameKeeps DEF ReapExpireSave
<1>7. CASE ReapFailSave(r)
  BY <1>7, SaveKeepsOwners, SameKeeps DEF ReapFailSave
<1>8. CASE ReapReset(r)
  <2> DEFINE j == reaper[r].job
  <2>1. /\ rows'[j].attempt = rows[j].attempt /\ rows'[j].status = "pending"
        /\ \A i \in Jobs : i # j => rows'[i] = rows[i]
    BY <1>8 DEF ReapReset, StoreTypeOK, Row
  <2> QED
    BY <1>8, <2>1, SameKeeps DEF ReapReset, KeepsOwners
<1>9. CASE \/ ReapFetch(r) \/ ReapRead(r) \/ ReapDrop(r) \/ ReapExpireRemove(r)
           \/ ReapFailRemove(r) \/ ReapResetLost(r) \/ ReapRequeueRemove(r)
           \/ ReapPush(r) \/ ReapFails(r)
  BY <1>9, SameKeeps
     DEF ReapFetch, ReapRead, ReapDrop, ReapExpireRemove, ReapFailRemove, ReapResetLost,
         ReapRequeueRemove, ReapPush, ReapFails, ReapPushFails, ReapReadFails,
         ReapSaveFails, ReapRemove
<1>10. ASSUME Halt(r) PROVE KeepsHolders /\ KeepsOwners
  <2>1. \A t \in Tasks : task'[t].pc = "free" \/ task'[t] = task[t]
    BY <1>10 DEF Halt, NoTask
  <2> QED
    BY <1>10, <2>1, SameKeeps DEF Halt, KeepsHolders, Holds
<1>11. CASE Lifecycle(r)
  BY <1>10, <1>11, SameKeeps DEF Lifecycle, Crash, Stop, Terminate, Exit, Start
<1> QED
  BY <1>3, <1>4, <1>5, <1>6, <1>7, <1>8, <1>9, <1>11 DEF Reap

\* ... and every step of the rest of the system.
LEMMA OthersKeep ==
    ASSUME TypeOK,
           \/ (\E j \in Jobs : LeaseAges(j)) \/ ReapLockExpires
           \/ Scheduler \/ Publisher \/ Clock \/ UNCHANGED vars
    PROVE  KeepsHolders /\ KeepsOwners
<1>1. StoreTypeOK
  BY DEF TypeOK
<1>2. CASE Publisher
  <2>1. UNCHANGED task
    BY <1>2 DEF Publisher, engineVars
  <2>2. PICK j \in Jobs : Publish(j) \/ Republish(j) \/ Mirror(j) \/ MirrorFails(j)
                              \/ PublisherCrash(j)
    BY <1>2 DEF Publisher, PublisherNext
  <2>3. CASE Publish(j)
    BY <1>1, <2>1, <2>3, SaveKeepsOwners, SameKeeps DEF Publish
  <2>4. CASE Republish(j)
    <3>1. \E u : SaveError(j, "pending", u)
      BY <2>4 DEF Republish
    <3> QED
      BY <1>1, <2>1, <3>1, SaveKeepsOwners, SameKeeps
  <2>5. CASE MirrorFails(j)
    BY <1>1, <2>1, <2>5, SaveKeepsOwners, SameKeeps DEF MirrorFails
  <2>6. CASE Mirror(j) \/ PublisherCrash(j)
    BY <2>1, <2>6, SameKeeps DEF Mirror, PublisherCrash
  <2> QED
    BY <2>1, <2>2, <2>3, <2>4, <2>5, <2>6, SameKeeps
<1>3. CASE Scheduler
  BY <1>3, SameKeeps
     DEF Scheduler, SchedulerNext, engineVars, PopScheduled, PopScheduledLost, AddBack, AddBackFails,
         SchedulerCrash, Promote, PromoteFails
<1>4. CASE Clock
  BY <1>4, SameKeeps DEF Clock, RunAtPasses, ExpiryPasses, BecomeDue, BecomeOverdue, engineVars
<1>5. CASE UNCHANGED vars
  BY <1>5, SameKeeps DEF vars, storeVars, engineVars
<1>6. CASE (\E j \in Jobs : LeaseAges(j)) \/ ReapLockExpires
  BY <1>6, SameKeeps DEF LeaseAges, ReapLockExpires, engineVars
<1> QED
  BY <1>2, <1>3, <1>4, <1>5, <1>6

\* The inductive invariant, and what it gives for every number of jobs,
\* runners and futures and every number of faults of every kind.
FenceInv == TypeOK /\ ClaimFence /\ OwnerRunsIt

\* Every step keeps the fence; only a claim needs an argument of its own.
LEMMA FenceStep == FenceInv /\ [Next]_vars => FenceInv'
<1> SUFFICES ASSUME FenceInv, [Next]_vars PROVE FenceInv'
  OBVIOUS
<1>1. TypeOK /\ ClaimFence /\ OwnerRunsIt
  BY DEF FenceInv
<1>2. TypeOK'
  BY <1>1, NextType
<1>3. (\E t \in Tasks : Claim(t)) \/ (KeepsHolders /\ KeepsOwners)
  BY <1>1, WorkKeeps, RunnerKeeps, OthersKeep DEF Next, Engine, EngineNext
<1>4. ClaimFence' /\ OwnerRunsIt'
  BY <1>1, <1>3, FenceClaimed, FenceKept
<1> QED
  BY <1>2, <1>4 DEF FenceInv

\* The fence is an invariant: at first no future holds a job.
LEMMA FenceInvariant == Spec => []FenceInv
<1>1. Init => FenceInv
  <2>1. Init => \A t \in Tasks : ~Holds(t)
    BY DEF Init, EngineInit, Holds, NoTask
  <2> QED
    BY <2>1, InitType DEF FenceInv, ClaimFence, OwnerRunsIt
<1> QED
  BY <1>1, FenceStep, PTL DEF Spec

\* Two futures that hold a job, on one runner or on two, have claimed different
\* attempts of it, and each executes its own attempt or a later one that the row
\* has counted.
THEOREM FenceHolds == Spec => []ClaimFence
<1>1. FenceInv => ClaimFence
  BY DEF FenceInv
<1> QED
  BY <1>1, FenceInvariant, PTL

\* The runner named on a running row is the one whose future claimed its latest
\* attempt.
THEOREM OwnerHolds == Spec => []OwnerRunsIt
<1>1. FenceInv => OwnerRunsIt
  BY DEF FenceInv
<1> QED
  BY <1>1, FenceInvariant, PTL
=============================================================================
