-------------------------- MODULE JobControlProofs --------------------------
(***************************************************************************)
(* What the operator cannot disturb, for every number of jobs, runners,    *)
(* futures and requests, in any order and between any two steps of the     *)
(* running system.                                                         *)
(***************************************************************************)
EXTENDS JobControl, JobSlipProofs

USE ControlAssumption

-----------------------------------------------------------------------------
(* Types.                                                                  *)

\* What the desk says of the request it holds: an operation that goes to a
\* place has the data it needs there, and its jobs are marked.
DeskFits ==
    /\ desk.pc = "save" => desk.op \in {"cancel", "pause", "resume", "retry", "recover"}
    /\ desk.pc \in {"save", "zrem", "push"} => desk.job \in Jobs
    /\ desk.timed => desk.job \in Jobs
    /\ desk.job \in Jobs => desk.op \in touched[desk.job]
    /\ desk.op = "clearChannel" => \A j \in Jobs : "clearChannel" \in touched[j]

DeskInv == ControlTypeOK /\ DeskFits

\* The desk is empty.
LEMMA EmptyDesk ==
    /\ NoDesk \in Desk /\ NoDesk.op = "none" /\ NoDesk.job = NoJob
    /\ NoDesk.pc = "none" /\ NoDesk.timed = FALSE
BY DEF NoDesk, Desk

\* A request that is opened fits.
LEMMA OpenFits ==
    ASSUME DeskInv, NEW op \in OperationKinds, NEW j \in Jobs \union {NoJob},
           NEW pc \in {"save", "zrem", "sched"}, NEW timed \in BOOLEAN,
           Open(op, j, pc, timed),
           pc = "save" => op \in {"cancel", "pause", "resume", "retry", "recover"},
           j = NoJob => pc = "sched" /\ timed = FALSE,
           op = "clearChannel" => j = NoJob
    PROVE  DeskInv'
<1>1. /\ desk' = [op |-> op, job |-> j, pc |-> pc, timed |-> timed]
      /\ UNCHANGED <<storeVars, engineVars, promo, pub, paused>>
  BY DEF Open
<1>2. desk' \in Desk
  BY <1>1 DEF Desk
<1>3. /\ desk'.op = op /\ desk'.job = j /\ desk'.pc = pc /\ desk'.timed = timed
  BY <1>1
<1>4. TypeOK'
  <2>1. TypeOK /\ UNCHANGED vars
    BY <1>1 DEF vars, DeskInv, ControlTypeOK
  <2> QED
    BY <2>1, StutterType
<1>5. /\ ops' \in 0..MaxOps
  BY DEF Open, DeskInv, ControlTypeOK
<1>6. /\ touched \in [Jobs -> SUBSET (OperationKinds \union {"removed"})]
      /\ touched' = [i \in Jobs |-> IF i \in (IF j = NoJob THEN Jobs ELSE {j})
                                    THEN touched[i] \union {op} ELSE touched[i]]
  BY <1>3 DEF Open, Mark, DeskInv, ControlTypeOK
<1>7. touched' \in [Jobs -> SUBSET (OperationKinds \union {"removed"})]
  BY <1>6
<1>8. ControlTypeOK'
  BY <1>1, <1>2, <1>4, <1>5, <1>7 DEF ControlTypeOK, DeskInv
<1>9. DeskFits'
  <2>1. j \in Jobs => op \in touched'[j]
    BY <1>6, StoreAssumption
  <2>2. j = NoJob => \A i \in Jobs : op \in touched'[i]
    BY <1>6
  <2> QED
    BY <1>3, <2>1, <2>2, StoreAssumption DEF DeskFits
<1> QED
  BY <1>8, <1>9 DEF DeskInv

\* A request that goes on or is through fits, when it marks no less.
LEMMA MoveFits ==
    ASSUME DeskInv, TypeOK', UNCHANGED ops,
           paused' \subseteq Jobs,
           touched' \in [Jobs -> SUBSET (OperationKinds \union {"removed"})],
           \A j \in Jobs : touched[j] \subseteq touched'[j],
           \/ desk' = NoDesk
           \/ \E pc \in {"sched", "push", "queue", "processing", "rows"} :
                 /\ desk' = [desk EXCEPT !.pc = pc]
                 /\ pc = "push" => desk.job \in Jobs
    PROVE  DeskInv'
<1>1. desk \in Desk /\ ops \in 0..MaxOps
  BY DEF DeskInv, ControlTypeOK
<1>2. CASE desk' = NoDesk
  BY <1>1, <1>2, EmptyDesk, StoreAssumption DEF DeskInv, ControlTypeOK, DeskFits
<1>3. ASSUME NEW pc \in {"sched", "push", "queue", "processing", "rows"},
             desk' = [desk EXCEPT !.pc = pc], pc = "push" => desk.job \in Jobs
      PROVE  DeskInv'
  <2>1. /\ desk' \in Desk /\ desk'.op = desk.op /\ desk'.job = desk.job
        /\ desk'.pc = pc /\ desk'.timed = desk.timed
    BY <1>1, <1>3 DEF Desk
  <2>2. DeskFits'
    BY <1>3, <2>1 DEF DeskInv, DeskFits
  <2> QED
    BY <1>1, <2>1, <2>2 DEF DeskInv, ControlTypeOK
<1> QED
  BY <1>2, <1>3

\* What an operator's save makes of a row.
LEMMA SavedRow ==
    ASSUME NEW row \in Row, desk.op \in {"cancel", "pause", "resume", "retry", "recover"}
    PROVE  /\ Saved(row) \in Row
           /\ Saved(row).status \in {"canceled", "pending"}
           /\ desk.op \in {"cancel", "pause"} => Saved(row).status = "canceled"
           /\ desk.op # "retry" => Saved(row).attempt = row.attempt
BY DEF Saved, Row, Status, Terminal

\* The save of the request.
LEMMA SaveRowWrites ==
    ASSUME DeskInv, SaveRow
    PROVE  /\ desk.job \in Jobs /\ desk.op \in touched[desk.job]
           /\ desk.op \in {"cancel", "pause", "resume", "retry", "recover"}
           /\ rows' \in [Jobs -> Row]
           /\ \A i \in Jobs : i # desk.job => rows'[i] = rows[i]
           /\ rows'[desk.job].status \in {"canceled", "pending"}
           /\ desk.op \in {"cancel", "pause"} => rows'[desk.job].status = "canceled"
           /\ desk.op # "retry" => rows'[desk.job].attempt = rows[desk.job].attempt
<1> DEFINE j == desk.job
<1>1. /\ j \in Jobs /\ desk.op \in touched[j]
      /\ desk.op \in {"cancel", "pause", "resume", "retry", "recover"}
      /\ rows \in [Jobs -> Row]
  BY DEF SaveRow, DeskInv, DeskFits, ControlTypeOK, TypeOK, StoreTypeOK
<1>2. rows' = [rows EXCEPT ![j] = Saved(rows[j])]
  BY <1>1 DEF SaveRow
<1>3. PICK s : s = Saved(rows[j])
  OBVIOUS
<1>4. /\ s \in Row /\ s.status \in {"canceled", "pending"}
      /\ desk.op \in {"cancel", "pause"} => s.status = "canceled"
      /\ desk.op # "retry" => s.attempt = rows[j].attempt
  BY <1>1, <1>3, SavedRow
<1> HIDE DEF j
<1>5. rows' \in [Jobs -> Row] /\ rows'[j] = s /\ \A i \in Jobs : i # j => rows'[i] = rows[i]
  BY <1>1, <1>2, <1>3, <1>4
<1> QED
  BY <1>1, <1>4, <1>5 DEF j
\* A step of the operator keeps the types and fills the desk as it should.
LEMMA OperatorFits == ASSUME DeskInv, Operator PROVE DeskInv'
<1>1. /\ TypeOK /\ StoreTypeOK /\ queue \in Seq(Jobs) /\ rows \in [Jobs -> Row]
      /\ lease \in [Jobs -> {"none", "fresh", "stale"}]
      /\ sched \in [Jobs -> {"none", "waiting", "due"}]
      /\ desk \in Desk /\ paused \subseteq Jobs
      /\ touched \in [Jobs -> SUBSET (OperationKinds \union {"removed"})]
  BY DEF DeskInv, ControlTypeOK, TypeOK, StoreTypeOK
<1>2. ASSUME UNCHANGED <<overdue, used, engineVars, promo, pub>>, StoreTypeOK'
      PROVE  TypeOK'
  BY <1>1, <1>2 DEF TypeOK, EngineTypeOK, TaskTypeOK, ReaperTypeOK, SchedulerTypeOK,
     PublisherTypeOK, engineVars
<1>3. ASSUME UNCHANGED <<ops, paused, touched, overdue, used, engineVars, promo, pub>>,
             StoreTypeOK',
             \/ desk' = NoDesk
             \/ \E pc \in {"sched", "push", "queue", "processing", "rows"} :
                   /\ desk' = [desk EXCEPT !.pc = pc]
                   /\ pc = "push" => desk.job \in Jobs
      PROVE  DeskInv'
  BY <1>1, <1>2, <1>3, MoveFits
<1> USE DEF OperationKinds
<1>4. ASSUME NEW j \in Jobs, CancelRunning(j) PROVE DeskInv'
  <2>1. Open("cancel", j, "save", FALSE)
    BY <1>4 DEF CancelRunning
  <2> QED
    BY <2>1, OpenFits, StoreAssumption
<1>5. ASSUME NEW j \in Jobs, CancelPending(j) PROVE DeskInv'
  <2>1. Open("cancel", j, "save", TRUE)
    BY <1>5 DEF CancelPending
  <2> QED
    BY <2>1, OpenFits, StoreAssumption
<1>6. ASSUME NEW j \in Jobs, PauseOpen(j) PROVE DeskInv'
  <2>1. PICK timed \in BOOLEAN : Open("pause", j, "save", timed)
    BY <1>6 DEF PauseOpen
  <2> QED
    BY <2>1, OpenFits, StoreAssumption
<1>7. ASSUME NEW j \in Jobs, ResumeOpen(j) PROVE DeskInv'
  <2>1. Open("resume", j, "save", FALSE)
    BY <1>7 DEF ResumeOpen
  <2> QED
    BY <2>1, OpenFits, StoreAssumption
<1>8. ASSUME NEW j \in Jobs, RetryOpen(j) PROVE DeskInv'
  <2>1. Open("retry", j, "save", FALSE)
    BY <1>8 DEF RetryOpen
  <2> QED
    BY <2>1, OpenFits, StoreAssumption
<1>9. ASSUME NEW j \in Jobs, ClearOpen(j) PROVE DeskInv'
  <2>1. Open("clear", j, "zrem", FALSE)
    BY <1>9 DEF ClearOpen
  <2> QED
    BY <2>1, OpenFits, StoreAssumption
<1>10. ASSUME NEW j \in Jobs, RecoverOpen(j) PROVE DeskInv'
  <2>1. Open("recover", j, "save", FALSE)
    BY <1>10 DEF RecoverOpen
  <2> QED
    BY <2>1, OpenFits, StoreAssumption
<1>11. CASE ClearChannel
  <2>1. Open("clearChannel", NoJob, "sched", FALSE)
    BY <1>11 DEF ClearChannel
  <2> QED
    BY <2>1, OpenFits, StoreAssumption
<1>12. CASE SaveRow
  <2>1. rows' \in [Jobs -> Row] /\ desk.job \in Jobs
    BY <1>12, SaveRowWrites
  <2>2. /\ UNCHANGED <<queue, lease, sched, overdue, used, engineVars, promo, pub, ops, touched>>
        /\ paused' \subseteq Jobs
        /\ desk' = NoDesk \/ desk' = [desk EXCEPT !.pc = "sched"]
    BY <1>1, <1>12, <2>1 DEF SaveRow
  <2>3. TypeOK'
    BY <1>1, <1>2, <2>1, <2>2 DEF StoreTypeOK
  <2> QED
    BY <1>1, <2>2, <2>3, MoveFits
<1>13. CASE RemoveScheduled
  <2>1. /\ UNCHANGED <<rows, queue, lease, overdue, used, engineVars, promo, pub, ops, paused>>
        /\ sched' \in [Jobs -> {"none", "waiting", "due"}] /\ desk' = NoDesk
    BY <1>1, <1>13 DEF RemoveScheduled
  <2>2. /\ touched' \in [Jobs -> SUBSET (OperationKinds \union {"removed"})]
        /\ \A j \in Jobs : touched[j] \subseteq touched'[j]
    <3>1. PICK new \in {{}, {"removed"}} :
             touched' = [touched EXCEPT ![desk.job] = touched[desk.job] \union new]
      BY <1>13 DEF RemoveScheduled
    <3> QED
      BY <1>1, <3>1
  <2>3. TypeOK'
    BY <1>1, <1>2, <2>1 DEF StoreTypeOK
  <2> QED
    BY <1>1, <2>1, <2>2, <2>3, MoveFits
<1>14. CASE ClearRemove
  <2>1. desk.job \in Jobs
    BY <1>14 DEF ClearRemove, DeskInv, DeskFits
  <2>2. lease' \in [Jobs -> {"none", "fresh", "stale"}]
    BY <1>1, <1>14 DEF ClearRemove, RemoveFromProcessing
  <2>3. StoreTypeOK'
    BY <1>1, <1>14, <2>2 DEF ClearRemove, StoreTypeOK
  <2> QED
    BY <1>3, <1>14, <2>1, <2>3 DEF ClearRemove, DeskGoto
<1>15. CASE ClearPush
  <2>1. desk.job \in Jobs
    BY <1>15 DEF ClearPush, DeskInv, DeskFits
  <2>2. queue' \in Seq(Jobs)
    BY <1>1, <1>15, <2>1, PushType DEF ClearPush
  <2>3. StoreTypeOK'
    BY <1>1, <1>15, <2>2 DEF ClearPush, StoreTypeOK
  <2> QED
    BY <1>3, <1>15, <2>3 DEF ClearPush
<1>16. CASE DeleteKey
  <2>1. /\ sched' \in [Jobs -> {"none", "waiting", "due"}] /\ queue' \in Seq(Jobs)
        /\ lease' \in [Jobs -> {"none", "fresh", "stale"}]
    <3>1. /\ sched' = sched \/ sched' = [j \in Jobs |-> "none"]
          /\ queue' = queue \/ queue' = <<>>
          /\ lease' = lease \/ lease' = [j \in Jobs |-> "none"]
      BY <1>16 DEF DeleteKey
    <3>2. [j \in Jobs |-> "none"] \in [Jobs -> {"none", "waiting", "due"}]
      OBVIOUS
    <3>3. [j \in Jobs |-> "none"] \in [Jobs -> {"none", "fresh", "stale"}]
      OBVIOUS
    <3>4. <<>> \in Seq(Jobs)
      OBVIOUS
    <3>5. queue' \in Seq(Jobs)
      BY <1>1, <3>1, <3>4
    <3> QED
      BY <1>1, <3>1, <3>2, <3>3, <3>5
  <2>2. UNCHANGED <<rows, overdue, used, engineVars, promo, pub, ops, paused, touched>>
    BY <1>16 DEF DeleteKey
  <2>3. StoreTypeOK'
    BY <1>1, <2>1, <2>2 DEF StoreTypeOK
  <2>4. PICK pc \in {"queue", "processing", "rows"} : desk' = [desk EXCEPT !.pc = pc]
    BY <1>16 DEF DeleteKey, DeskGoto
  <2>5. pc \in {"sched", "push", "queue", "processing", "rows"} /\ pc # "push"
    OBVIOUS
  <2> QED
    BY <1>3, <2>2, <2>3, <2>4, <2>5
<1>17. CASE CancelRows
  <2>1. \A j \in Jobs : [rows[j] EXCEPT !.status = "canceled"] \in Row
    BY <1>1 DEF Row, Status, Terminal
  <2>2. rows' \in [Jobs -> Row]
    BY <1>1, <1>17, <2>1 DEF CancelRows
  <2>3. StoreTypeOK'
    BY <1>1, <1>17, <2>2 DEF CancelRows, StoreTypeOK
  <2> QED
    BY <1>3, <1>17, <2>3 DEF CancelRows
<1> QED
  BY <1>4, <1>5, <1>6, <1>7, <1>8, <1>9, <1>10, <1>11, <1>12, <1>13, <1>14, <1>15, <1>16,
     <1>17 DEF Operator

\* Every step of the system does.
LEMMA DeskStep == DeskInv /\ [ControlNext]_cvars => DeskInv'
<1> SUFFICES ASSUME DeskInv, [ControlNext]_cvars PROVE DeskInv'
  OBVIOUS
<1>1. ASSUME [Next]_vars, UNCHANGED deskVars PROVE DeskInv'
  <2>1. TypeOK'
    BY <1>1, NextType DEF DeskInv, ControlTypeOK
  <2> QED
    BY <1>1, <2>1 DEF DeskInv, ControlTypeOK, DeskFits, deskVars
<1> QED
  BY <1>1, OperatorFits DEF ControlNext, cvars

\* ... and so it holds throughout.
LEMMA DeskInvariant == ControlSpec => []DeskInv
<1>1. ControlInit => DeskInv
  <2>1. SUFFICES ASSUME ControlInit PROVE DeskInv
    OBVIOUS
  <2>2. TypeOK
    BY <2>1, InitType DEF ControlInit
  <2>3. desk = NoDesk /\ ops = 0 /\ paused = {} /\ touched = [j \in Jobs |-> {}]
    BY <2>1 DEF ControlInit
  <2> QED
    BY <2>2, <2>3, EmptyDesk, StoreAssumption DEF DeskInv, ControlTypeOK, DeskFits
<1> QED
  BY <1>1, DeskStep, PTL DEF ControlSpec

\* The types of the system and of the operator's desk.
THEOREM ControlTypeCorrect == ControlSpec => []ControlTypeOK
<1>1. DeskInv => ControlTypeOK
  BY DEF DeskInv
<1> QED
  BY <1>1, DeskInvariant, PTL
-----------------------------------------------------------------------------
(* The claim fence.                                                        *)

\* The fence and the owner of one job.
FenceOf(j) ==
    \A t \in Tasks : (Holds(t) /\ task[t].job = j) =>
       /\ task[t].att \in 1..rows[j].attempt
       /\ \A u \in Tasks \ {t} :
             (Holds(u) /\ task[u].job = j) => task[u].att # task[t].att
       /\ (rows[j].status = "running" /\ task[t].att = rows[j].attempt)
             => rows[j].runner = task[t].runner

\* No attempt of it is counted and it does not start to run.
KeepsOwner(j) ==
    /\ rows'[j].attempt = rows[j].attempt
    /\ rows'[j].status = "running" =>
          rows[j].status = "running" /\ rows'[j].runner = rows[j].runner

\* A step that claims no job keeps the fence of one it does not count anew ...
LEMMA FenceOfKept ==
    ASSUME NEW j \in Jobs, FenceOf(j), KeepsHolders, KeepsOwner(j)
    PROVE  FenceOf(j)'
BY DEF FenceOf, KeepsHolders, KeepsOwner

\* ... and a claim counts above every attempt that is held.
LEMMA FenceOfClaimed ==
    ASSUME TypeOK, NEW j \in Jobs, FenceOf(j), NEW t \in Tasks, Claim(t)
    PROVE  FenceOf(j)'
<1> DEFINE n == rows[j].attempt + 1
<1>1. /\ rows \in [Jobs -> Row] /\ task \in [Tasks -> Future]
      /\ rows[j] \in Row /\ task[t] \in Future /\ task[t].job \in Jobs
  BY DEF Claim, At, TypeOK, StoreTypeOK, EngineTypeOK, TaskTypeOK
<1>2. rows[j].attempt \in Nat /\ \A u \in Tasks : task[u].att \in Nat
  BY <1>1 DEF Row, Future
<1>3. /\ \A u \in Tasks : u # t => task'[u] = task[u]
      /\ task'[t].job = task[t].job /\ task'[t].runner = task[t].runner
      /\ task'[t].att = rows[task[t].job].attempt + 1
  BY <1>1 DEF Claim, JobOf, Future
<1>4. CASE task[t].job # j
  <2>1. rows'[j] = rows[j]
    BY <1>1, <1>4 DEF Claim, JobOf
  <2>2. \A u \in Tasks : (Holds(u)' /\ task'[u].job = j) => Holds(u) /\ task'[u] = task[u]
    BY <1>3, <1>4 DEF Holds
  <2> QED
    BY <2>1, <2>2 DEF FenceOf
<1>5. CASE task[t].job = j
  <2>1. rows'[j].attempt = n /\ rows'[j].runner = task[t].runner
    BY <1>1, <1>5 DEF Claim, JobOf, Row
  <2>2. ASSUME NEW u \in Tasks, u # t, Holds(u)', task'[u].job = j
        PROVE  /\ task'[u] = task[u] /\ task[u].att \in Nat
               /\ task[u].att >= 1 /\ task[u].att <= rows[j].attempt
               /\ Holds(u) /\ task[u].job = j
    BY <1>2, <1>3, <2>2 DEF Holds, FenceOf
  <2>3. ASSUME NEW u \in Tasks, Holds(u)', task'[u].job = j
        PROVE  /\ task'[u].att \in 1..rows'[j].attempt
               /\ task'[u].att = rows'[j].attempt => u = t
    <3>1. CASE u = t
      BY <1>2, <1>3, <1>5, <2>1, <3>1
    <3>2. CASE u # t
      BY <1>2, <2>1, <2>2, <2>3, <3>2
    <3> QED
      BY <3>1, <3>2
  <2>4. ASSUME NEW u \in Tasks, NEW w \in Tasks \ {u}, Holds(u)', task'[u].job = j,
               Holds(w)', task'[w].job = j
        PROVE  task'[w].att # task'[u].att
    <3>1. CASE u # t /\ w # t
      BY <2>2, <2>4, <3>1 DEF FenceOf
    <3>2. CASE u = t
      BY <1>2, <1>3, <1>5, <2>2, <2>4, <3>2
    <3>3. CASE w = t
      BY <1>2, <1>3, <1>5, <2>2, <2>4, <3>3
    <3> QED
      BY <3>1, <3>2, <3>3
  <2> QED
    BY <1>3, <2>1, <2>3, <2>4 DEF FenceOf
<1> QED
  BY <1>4, <1>5

\* What a request does to the rows.
LEMMA OperatorRows ==
    ASSUME DeskInv, Operator
    PROVE  /\ UNCHANGED <<task, phase, hand, reaper, promo, pub>>
           /\ \A j \in Jobs : touched[j] \subseteq touched'[j]
           /\ \A j \in Jobs : \/ rows'[j] = rows[j]
                              \/ j = desk.job /\ SaveRow
                              \/ rows'[j].status = "canceled" /\ CancelRows
                                 /\ rows'[j].attempt = rows[j].attempt
<1>1. /\ rows \in [Jobs -> Row] /\ desk \in Desk
      /\ touched \in [Jobs -> SUBSET (OperationKinds \union {"removed"})]
  BY DEF DeskInv, ControlTypeOK, TypeOK, StoreTypeOK
<1>2. ASSUME NEW op, NEW j, NEW pc, NEW timed, Open(op, j, pc, timed)
      PROVE  /\ UNCHANGED <<rows, task, phase, hand, reaper, promo, pub>>
             /\ \A i \in Jobs : touched[i] \subseteq touched'[i]
  BY <1>1, <1>2 DEF Open, Mark, storeVars, engineVars
<1>3. ASSUME NEW j \in Jobs,
             \/ CancelRunning(j) \/ CancelPending(j) \/ PauseOpen(j) \/ ResumeOpen(j)
             \/ RetryOpen(j) \/ ClearOpen(j) \/ RecoverOpen(j) \/ ClearChannel
      PROVE  /\ UNCHANGED <<rows, task, phase, hand, reaper, promo, pub>>
             /\ \A i \in Jobs : touched[i] \subseteq touched'[i]
  BY <1>2, <1>3 DEF CancelRunning, CancelPending, PauseOpen, ResumeOpen, RetryOpen, ClearOpen,
     RecoverOpen, ClearChannel
<1>4. CASE ClearChannel
  BY <1>2, <1>4 DEF ClearChannel
<1>5. CASE SaveRow
  <2>1. UNCHANGED <<task, phase, hand, reaper, promo, pub, touched>>
    BY <1>5 DEF SaveRow, engineVars
  <2>2. \A j \in Jobs : j # desk.job => rows'[j] = rows[j]
    BY <1>5, SaveRowWrites
  <2> QED
    BY <1>5, <2>1, <2>2
<1>6. CASE RemoveScheduled
  <2>1. UNCHANGED <<rows, task, phase, hand, reaper, promo, pub>>
    BY <1>6 DEF RemoveScheduled, engineVars
  <2>2. PICK new \in {{}, {"removed"}} :
           touched' = [touched EXCEPT ![desk.job] = touched[desk.job] \union new]
    BY <1>6 DEF RemoveScheduled
  <2> QED
    BY <1>1, <2>1, <2>2
<1>7. CASE ClearRemove \/ ClearPush \/ DeleteKey
  BY <1>7 DEF ClearRemove, ClearPush, DeleteKey, engineVars
<1>8. CASE CancelRows
  <2>1. UNCHANGED <<task, phase, hand, reaper, promo, pub, touched>>
    BY <1>8 DEF CancelRows, engineVars
  <2>2. ASSUME NEW j \in Jobs
        PROVE  rows'[j] = rows[j] \/ rows'[j] = [rows[j] EXCEPT !.status = "canceled"]
    BY <1>8 DEF CancelRows
  <2>3. ASSUME NEW j \in Jobs
        PROVE  \/ rows'[j] = rows[j]
               \/ rows'[j].status = "canceled" /\ rows'[j].attempt = rows[j].attempt
    BY <1>1, <2>2 DEF Row
  <2> QED
    BY <1>8, <2>1, <2>3
<1> QED
  BY <1>3, <1>4, <1>5, <1>6, <1>7, <1>8 DEF Operator

\* No request but a retry counts an attempt anew, and none starts a job.
LEMMA OperatorKeepsOwner ==
    ASSUME DeskInv, Operator, NEW j \in Jobs, Untouched(j, {"retry"})
    PROVE  KeepsOwner(j)
<1>1. CASE rows'[j] = rows[j]
  BY <1>1 DEF KeepsOwner
<1>2. CASE j = desk.job /\ SaveRow
  BY <1>2, SaveRowWrites DEF KeepsOwner, Untouched
<1>3. CASE rows'[j].status = "canceled" /\ rows'[j].attempt = rows[j].attempt
  BY <1>3 DEF KeepsOwner
<1> QED
  BY <1>1, <1>2, <1>3, OperatorRows

\* The fence of every job that has seen no retry.
UnretriedFence == \A j \in Jobs : Untouched(j, {"retry"}) => FenceOf(j)

\* It is inductive.
LEMMA UnretriedStep ==
    DeskInv /\ UnretriedFence /\ [ControlNext]_cvars => UnretriedFence'
<1> SUFFICES ASSUME DeskInv, UnretriedFence, [ControlNext]_cvars,
                    NEW j \in Jobs, Untouched(j, {"retry"})'
             PROVE  FenceOf(j)'
  BY DEF UnretriedFence
<1>1. TypeOK
  BY DEF DeskInv, ControlTypeOK
<1>2. CASE Operator
  <2>1. Untouched(j, {"retry"})
    BY <1>2, OperatorRows DEF Untouched
  <2>2. KeepsHolders
    BY <1>2, OperatorRows, SameKeeps
  <2>3. KeepsOwner(j) /\ FenceOf(j)
    BY <1>2, <2>1, OperatorKeepsOwner DEF UnretriedFence
  <2> QED
    BY <2>2, <2>3, FenceOfKept
<1>3. CASE [Next]_vars /\ UNCHANGED deskVars
  <2>1. FenceOf(j)
    BY <1>3 DEF UnretriedFence, Untouched, deskVars
  <2>2. (\E t \in Tasks : Claim(t)) \/ (KeepsHolders /\ KeepsOwners)
    BY <1>1, <1>3, WorkKeeps, RunnerKeeps, OthersKeep DEF Next, Engine, EngineNext
  <2>3. KeepsOwners => KeepsOwner(j)
    BY DEF KeepsOwners, KeepsOwner
  <2> QED
    BY <1>1, <2>1, <2>2, <2>3, FenceOfKept, FenceOfClaimed
<1> QED
  BY <1>2, <1>3 DEF ControlNext, cvars

\* Cancelling, pausing, clearing and recovering leave the claim a fence, at any
\* moment and together with every fault: only retry writes the counter that the
\* compare-and-set of the claim counts on.
THEOREM FenceUnlessRetriedHolds == ControlSpec => []FenceUnlessRetried
<1>1. ControlInit => UnretriedFence
  <2>1. ControlInit => \A t \in Tasks : ~Holds(t)
    BY DEF ControlInit, Init, EngineInit, Holds, NoTask
  <2> QED
    BY <2>1 DEF UnretriedFence, FenceOf
<1>2. DeskInv /\ UnretriedFence => FenceUnlessRetried
  <2>1. SUFFICES ASSUME DeskInv, UnretriedFence, NEW t \in Tasks, Holds(t),
                        Untouched(task[t].job, {"retry"})
                 PROVE  /\ task[t].att \in 1..rows[task[t].job].attempt
                        /\ \A u \in Tasks \ {t} : (Holds(u) /\ task[u].job = task[t].job)
                                                     => task[u].att # task[t].att
                        /\ (/\ rows[task[t].job].status = "running"
                            /\ task[t].att = rows[task[t].job].attempt)
                              => rows[task[t].job].runner = task[t].runner
    BY DEF FenceUnlessRetried, JobOf
  <2>2. PICK j \in Jobs : j = task[t].job
    BY <2>1 DEF DeskInv, ControlTypeOK, TypeOK, EngineTypeOK, TaskTypeOK, Holds
  <2>3. FenceOf(j)
    BY <2>1, <2>2 DEF UnretriedFence
  <2> QED
    BY <2>1, <2>2, <2>3 DEF FenceOf
<1> QED
  BY <1>1, <1>2, DeskInvariant, UnretriedStep, PTL DEF ControlSpec

-----------------------------------------------------------------------------
(* A job canceled before its claim.                                        *)

\* A step that starts a row begins at one that is not canceled, or belongs to
\* a future that is past its claim.
StartsFair(j) ==
    rows'[j].status \in {"pending", "running"} =>
       rows[j].status # "canceled" \/ Worked(j)

\* A step that writes no other row.
LEMMA WritesOne ==
    ASSUME NEW i \in Jobs, \A j \in Jobs : j # i => rows'[j].status = rows[j].status,
           StartsFair(i)
    PROVE  \A j \in Jobs : StartsFair(j)
<1>1. ASSUME NEW j \in Jobs, j # i PROVE StartsFair(j)
  <2>1. rows'[j].status = rows[j].status
    BY <1>1
  <2> QED
    BY <2>1 DEF StartsFair
<1> QED
  BY <1>1

\* A step that writes no row.
LEMMA WritesNone == UNCHANGED rows => \A j \in Jobs : StartsFair(j)
BY DEF StartsFair

\* The system itself.
LEMMA SystemStarts ==
    ASSUME TypeOK, [Next]_vars
    PROVE  \A j \in Jobs : StartsFair(j)
<1>1. /\ rows \in [Jobs -> Row]
      /\ \A t \in Tasks : task[t].pc # "free" => JobOf(t) \in Jobs
      /\ \A r \in Runners : reaper[r].pc # "idle" => reaper[r].job \in Jobs
  BY DEF TypeOK, StoreTypeOK, EngineTypeOK, TaskTypeOK, ReaperTypeOK, JobOf
<1>2. ASSUME NEW i \in Jobs, NEW s, NEW u, SaveStatus(i, s) \/ SaveError(i, s, u),
             s \notin {"pending", "running"} \/ rows[i].status # "canceled" \/ Worked(i)
      PROVE  \A j \in Jobs : StartsFair(j)
  <2>1. /\ rows'[i].status = s
        /\ \A j \in Jobs : j # i => rows'[j].status = rows[j].status
    BY <1>1, <1>2, SaveWrites
  <2>2. StartsFair(i)
    BY <1>2, <2>1 DEF StartsFair
  <2> QED
    BY <2>1, <2>2, WritesOne
<1>3. ASSUME NEW t \in Tasks, Work(t) \/ WorkFails(t) PROVE \A j \in Jobs : StartsFair(j)
  <2>1. CASE MarkExpired(t) \/ SaveCompleted(t) \/ SaveFailed(t)
    <3>1. PICK i \in Jobs, s \in {"expired", "completed", "failed"}, u \in {FALSE} :
             SaveStatus(i, s) \/ SaveError(i, s, u)
      BY <1>1, <2>1 DEF MarkExpired, SaveCompleted, SaveFailed, At
    <3> QED
      BY <1>2, <3>1
  <2>2. CASE SaveRetry(t)
    <3>1. task[t].pc = "retry" /\ JobOf(t) \in Jobs /\ SaveError(JobOf(t), "pending", FALSE)
      BY <1>1, <2>2 DEF SaveRetry, At
    <3>2. Worked(JobOf(t))
      BY <3>1 DEF Worked
    <3> QED
      BY <1>2, <3>1, <3>2
  <2>3. CASE Claim(t)
    <3>1. PICK i \in Jobs : i = JobOf(t)
      BY <1>1, <2>3 DEF Claim, At
    <3>2. /\ rows[i].status = "pending"
          /\ \A j \in Jobs : j # i => rows'[j].status = rows[j].status
      BY <1>1, <2>3, <3>1 DEF Claim
    <3>3. StartsFair(i)
      BY <3>2 DEF StartsFair
    <3> QED
      BY <3>2, <3>3, WritesOne
  <2>4. CASE \/ Load(t) \/ ClaimLost(t) \/ Refresh(t) \/ HandlerReturns(t)
             \/ HandlerRaises(t) \/ Release(t) \/ Account(t) \/ ReadFailed(t) \/ ScheduleRetry(t)
             \/ Unlease(t) \/ Completed(t) \/ WorkFails(t)
    <3>1. UNCHANGED rows
      BY <2>4 DEF Load, ClaimLost, Refresh, HandlerReturns, HandlerRaises, Release, Account,
         ReadFailed, ScheduleRetry, Unlease, Completed, WorkFails, LoadFails, SaveRaises,
         AccountFails, HandlingRaises, storeVars
    <3> QED
      BY <3>1, WritesNone
  <2> QED
    BY <1>3, <2>1, <2>2, <2>3, <2>4 DEF Work
<1>4. ASSUME NEW r \in Runners, Reap(r) \/ ReapFails(r) PROVE \A j \in Jobs : StartsFair(j)
  <2>1. CASE ReapExpireSave(r) \/ ReapFailSave(r)
    <3>1. PICK i \in Jobs, s \in {"expired", "failed"}, u \in {FALSE} :
             SaveStatus(i, s) \/ SaveError(i, s, u)
      BY <1>1, <2>1 DEF ReapExpireSave, ReapFailSave, ReapAt
    <3> QED
      BY <1>2, <3>1
  <2>2. CASE ReapReset(r)
    <3>1. PICK i \in Jobs : i = reaper[r].job
      BY <1>1, <2>2 DEF ReapReset, ReapAt
    <3>2. /\ rows[i].status = "running"
          /\ \A j \in Jobs : j # i => rows'[j].status = rows[j].status
      BY <1>1, <2>2, <3>1 DEF ReapReset
    <3>3. StartsFair(i)
      BY <3>2 DEF StartsFair
    <3> QED
      BY <3>2, <3>3, WritesOne
  <2>3. CASE \/ ReapFetch(r) \/ ReapRead(r) \/ ReapDrop(r) \/ ReapExpireRemove(r)
             \/ ReapFailRemove(r) \/ ReapResetLost(r) \/ ReapRequeueRemove(r)
             \/ ReapPush(r) \/ ReapFails(r)
    <3>1. UNCHANGED rows
      BY <2>3 DEF ReapFetch, ReapRead, ReapDrop, ReapExpireRemove, ReapFailRemove,
         ReapResetLost, ReapRequeueRemove, ReapRemove, ReapPush, ReapFails, ReapPushFails,
         ReapReadFails, ReapSaveFails, storeVars
    <3> QED
      BY <3>1, WritesNone
  <2> QED
    BY <1>4, <2>1, <2>2, <2>3 DEF Reap
<1>5. ASSUME NEW r \in Runners, MainLoop(r) \/ PopLost(r) \/ Heartbeat(r) \/ Lifecycle(r)
      PROVE  \A j \in Jobs : StartsFair(j)
  <2>1. UNCHANGED rows
    BY <1>5 DEF MainLoop, Pop, Track, SubmitRejected, PopLost, Heartbeat, SnapshotActive,
       TouchActive, EndPass, Lifecycle, Crash, Halt, Stop, Terminate, Exit, Start,
       storeVars
  <2> QED
    BY <2>1, WritesNone
<1>6. CASE Publisher
  <2>1. PICK i \in Jobs : Publish(i) \/ Republish(i) \/ Mirror(i) \/ MirrorFails(i)
                          \/ PublisherCrash(i)
    BY <1>6 DEF Publisher, PublisherNext
  <2>2. CASE Publish(i) \/ Republish(i)
    <3>1. rows[i].status # "canceled"
      BY <2>2 DEF Publish, Republish, CanResume
    <3>2. PICK u : SaveStatus(i, "pending") \/ SaveError(i, "pending", u)
      BY <2>2 DEF Publish, Republish
    <3> QED
      BY <1>2, <3>1, <3>2
  <2>3. CASE MirrorFails(i)
    <3>1. SaveError(i, "failed", TRUE)
      BY <2>3 DEF MirrorFails
    <3> QED
      BY <1>2, <3>1
  <2>4. CASE Mirror(i) \/ PublisherCrash(i)
    BY <2>4, WritesNone DEF Mirror, PublisherCrash
  <2> QED
    BY <2>1, <2>2, <2>3, <2>4
<1>7. CASE Scheduler \/ Clock \/ UNCHANGED vars \/ ReapLockExpires \/ \E j \in Jobs : LeaseAges(j)
  <2>1. UNCHANGED rows
    BY <1>7 DEF Scheduler, SchedulerNext, PopScheduled, PopScheduledLost, AddBack,
       AddBackFails, SchedulerCrash, Promote, PromoteFails, Clock, RunAtPasses, ExpiryPasses,
       BecomeDue, BecomeOverdue, vars, storeVars, ReapLockExpires, LeaseAges
  <2> QED
    BY <2>1, WritesNone
<1> QED
  BY <1>3, <1>4, <1>5, <1>6, <1>7 DEF Next, Engine, EngineNext

\* A request starts the row it holds, no other.
LEMMA OperatorStarts ==
    ASSUME DeskInv, Operator, NEW j \in Jobs, desk.job # j
    PROVE  StartsFair(j)
BY OperatorRows DEF StartsFair

\* The step part of CanceledIsNotStarted.
StaysCanceled ==
    \A j \in Jobs : (rows[j].status = "canceled" /\ ~Worked(j) /\ desk.job # j)
       => rows'[j].status \notin {"pending", "running"}

\* A job canceled or paused before its claim does not start, whatever copies of
\* its id are about and whatever a worker read before: only a request for it,
\* or a future past its claim, writes such a row back.
THEOREM CanceledHolds == ControlSpec => CanceledIsNotStarted
<1>1. DeskInv /\ [ControlNext]_cvars => StaysCanceled
  <2>1. SUFFICES ASSUME DeskInv, [ControlNext]_cvars, NEW j \in Jobs,
                        rows[j].status = "canceled", ~Worked(j), desk.job # j
                 PROVE  rows'[j].status \notin {"pending", "running"}
    BY DEF StaysCanceled
  <2>2. StartsFair(j)
    BY <2>1, SystemStarts, OperatorStarts DEF DeskInv, ControlTypeOK, ControlNext, cvars
  <2> QED
    BY <2>1, <2>2 DEF StartsFair
<1>2. ControlSpec => [][StaysCanceled]_cvars
  BY <1>1, DeskInvariant, PTL DEF ControlSpec
<1> QED
  BY <1>2, PTL DEF CanceledIsNotStarted, StaysCanceled

-----------------------------------------------------------------------------
(* Pending and running rows while no process dies and no call raises.      *)

\* A pending row that saw nothing but cancels and pauses is awaited, and a
\* running row is attended whatever it saw.
Tended(j) ==
    /\ touched[j] \subseteq {"cancel", "pause"} => Awaited(j)
    /\ Attended(j)

ControlInv == DeskInv /\ Up /\ \A j \in Jobs : Tended(j)

\* A request that leaves the row and the carriers of an id, or adds to them.
LEMMA OperatorAdds ==
    ASSUME NEW j \in Jobs, rows'[j].status = rows[j].status,
           UNCHANGED <<hand, task, reaper, promo, pub>>,
           InQueue(j) => InQueue(j)', sched'[j] = sched[j]
    PROVE  Keeps(j)
<1>1. /\ InHand(j) => InHand(j)'
      /\ TaskTakes(j) => TaskTakes(j)'
      /\ TaskRuns(j) => TaskRuns(j)'
      /\ ReaperTakes(j) => ReaperTakes(j)'
      /\ InSchedule(j) => InSchedule(j)'
      /\ pub'[j] = pub[j]
  BY DEF InHand, TaskTakes, TaskRuns, ReaperTakes, InSchedule
<1>2. Taken(j) => Taken(j)'
  BY <1>1 DEF Taken
<1> QED
  BY <1>1, <1>2, KeepsIt

\* A running row stays with its future, whatever is requested: requests cancel
\* rows or make them pending.
LEMMA OperatorAttends ==
    ASSUME DeskInv, Operator, NEW j \in Jobs, Attended(j)
    PROVE  Attended(j)'
<1>1. TaskRuns(j) => TaskRuns(j)'
  BY OperatorRows DEF TaskRuns
<1>2. rows'[j] = rows[j] \/ rows'[j].status \in {"canceled", "pending"}
  BY OperatorRows, SaveRowWrites
<1> QED
  BY <1>1, <1>2 DEF Attended

\* A cancel or a pause takes no id away from a row that stays pending.
LEMMA OperatorAwaits ==
    ASSUME DeskInv, Operator, NEW j \in Jobs, Awaited(j), touched'[j] \subseteq {"cancel", "pause"}
    PROVE  Awaited(j)'
<1>1. /\ touched[j] \subseteq touched'[j] /\ UNCHANGED <<hand, task, reaper, promo, pub>>
      /\ touched[j] \subseteq {"cancel", "pause"}
  BY OperatorRows
<1>2. /\ queue \in Seq(Jobs) /\ sched \in [Jobs -> {"none", "waiting", "due"}]
      /\ touched \in [Jobs -> SUBSET (OperationKinds \union {"removed"})]
  BY DEF DeskInv, ControlTypeOK, TypeOK, StoreTypeOK
<1>3. ASSUME UNCHANGED <<rows, sched>>, InQueue(j) => InQueue(j)' PROVE Awaited(j)'
  BY <1>1, <1>3, OperatorAdds DEF Keeps
<1>4. ASSUME UNCHANGED queue PROVE InQueue(j) => InQueue(j)'
  BY <1>4 DEF InQueue
<1>5. ASSUME NEW op, NEW i, NEW pc, NEW timed, Open(op, i, pc, timed) PROVE Awaited(j)'
  <2>1. UNCHANGED <<rows, sched, queue>>
    BY <1>5 DEF Open, storeVars
  <2> QED
    BY <1>3, <1>4, <2>1
<1>6. CASE SaveRow
  <2>1. CASE desk.job = j
    <3>1. desk.op \in {"cancel", "pause"}
      BY <1>1, <1>6, <2>1, SaveRowWrites
    <3> QED
      BY <1>6, <2>1, <3>1, SaveRowWrites DEF Awaited
  <2>2. CASE desk.job # j
    <3>1. rows'[j] = rows[j] /\ UNCHANGED <<queue, sched>>
      BY <1>6, <2>2, SaveRowWrites DEF SaveRow
    <3> QED
      BY <1>1, <1>4, <3>1, OperatorAdds DEF Keeps
  <2> QED
    BY <2>1, <2>2
<1>7. CASE RemoveScheduled
  <2>1. /\ UNCHANGED <<rows, queue>> /\ sched' = [sched EXCEPT ![desk.job] = "none"]
        /\ touched' = [touched EXCEPT ![desk.job] =
                          IF rows[desk.job].status = "pending" /\ sched[desk.job] # "none"
                          THEN touched[desk.job] \union {"removed"} ELSE touched[desk.job]]
    BY <1>7 DEF RemoveScheduled
  <2>2. CASE desk.job = j /\ rows[j].status # "pending"
    BY <2>1, <2>2 DEF Awaited
  <2>3. CASE desk.job # j \/ sched[j] = "none"
    <3>1. sched'[j] = sched[j]
      BY <1>2, <2>1, <2>3
    <3> QED
      BY <1>1, <1>4, <2>1, <3>1, OperatorAdds DEF Keeps
  <2>4. CASE desk.job = j /\ rows[j].status = "pending" /\ sched[j] # "none"
    <3>1. "removed" \in touched'[j]
      BY <1>2, <2>1, <2>4
    <3> QED
      BY <3>1
  <2> QED
    BY <2>2, <2>3, <2>4
<1>8. CASE ClearRemove
  BY <1>3, <1>4, <1>8 DEF ClearRemove
<1>9. CASE ClearPush
  <2>1. desk.job \in Jobs
    BY <1>9 DEF ClearPush, DeskInv, DeskFits
  <2>2. InQueue(j) => InQueue(j)'
    BY <1>2, <1>9, <2>1, PushAdds DEF ClearPush
  <2> QED
    BY <1>3, <1>9, <2>2 DEF ClearPush
<1>10. CASE DeleteKey
  BY <1>1, <1>10 DEF DeleteKey, DeskInv, DeskFits
<1>11. CASE CancelRows
  <2>1. rows'[j].status # "pending"
    BY <1>11, OperatorRows DEF CancelRows
  <2> QED
    BY <2>1 DEF Awaited
<1> QED
  BY <1>5, <1>6, <1>7, <1>8, <1>9, <1>10, <1>11 DEF Operator, CancelRunning, CancelPending,
     PauseOpen, ResumeOpen, RetryOpen, ClearOpen, RecoverOpen, ClearChannel

\* The inductive invariant.
THEOREM ControlInvariant == ASSUME NobodyDies PROVE ControlSpec => []ControlInv
<1>1. ControlInit => Up /\ \A j \in Jobs : Tended(j)
  BY InitKept DEF ControlInit, Tended
<1>2. DeskInv /\ ControlInv /\ [ControlNext]_cvars => Up' /\ \A j \in Jobs : Tended(j)'
  <2>1. SUFFICES ASSUME ControlInv, [ControlNext]_cvars
                 PROVE  Up' /\ \A j \in Jobs : Tended(j)'
    OBVIOUS
  <2>2. CASE [Next]_vars /\ UNCHANGED deskVars
    BY <2>1, <2>2, StepKept DEF ControlInv, DeskInv, ControlTypeOK, Tended, Keeps, deskVars
  <2>3. CASE Operator
    <3>1. Up'
      BY <2>1, <2>3, OperatorRows DEF ControlInv, Up
    <3>2. ASSUME NEW j \in Jobs PROVE Tended(j)'
      <4>1. touched[j] \subseteq touched'[j]
        BY <2>1, <2>3, OperatorRows DEF ControlInv
      <4> QED
        BY <2>1, <2>3, <4>1, OperatorAwaits, OperatorAttends DEF ControlInv, Tended
    <3> QED
      BY <3>1, <3>2
  <2> QED
    BY <2>1, <2>2, <2>3 DEF ControlNext, cvars
<1>3. ControlInv /\ [ControlNext]_cvars => ControlInv'
  BY <1>2, DeskStep DEF ControlInv
<1>4. ControlInit /\ DeskInv => ControlInv
  BY <1>1 DEF ControlInv
<1> QED
  BY <1>3, <1>4, DeskInvariant, PTL DEF ControlSpec

\* A pending row that only cancels and pauses have seen is not forgotten: the
\* cancel that comes late, after a retry, takes an entry away and not the row.
THEOREM CarriedHolds == ASSUME NobodyDies PROVE ControlSpec => []CarriedThroughCancel
<1>1. ControlInv => CarriedThroughCancel
  <2>1. SUFFICES ASSUME ControlInv, NEW j \in Jobs, rows[j].status = "pending",
                        touched[j] \subseteq {"cancel", "pause"}
                 PROVE  Carried(j)
    BY DEF CarriedThroughCancel
  <2>2. Taken(j)
    BY <2>1 DEF ControlInv, Tended, Awaited
  <2> QED
    BY <2>2, TakenIsCarried
<1> QED
  BY <1>1, ControlInvariant, PTL

\* A running row is in the hands of a live engine, whatever is requested: the
\* leases that clear_stuck_jobs and clear_channel delete are not needed while
\* no engine dies.
THEOREM RecoverableHolds == ASSUME NobodyDies PROVE ControlSpec => []RecoverableUnlessCleared
<1>1. ControlInv => RecoverableUnlessCleared
  BY DEF ControlInv, Tended, Attended, TaskRuns, Running, RecoverableUnlessCleared, Worked,
     JobOf
<1> QED
  BY <1>1, ControlInvariant, PTL
=============================================================================
