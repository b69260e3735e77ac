---------------------------- MODULE JobScheduler ----------------------------
(***************************************************************************)
(* mojo/apps/jobs/scheduler.py, _process_channel: the leader pops the ten  *)
(* lowest entries of the scheduled ZSET, pushes the due ones on the queue  *)
(* and adds the others back.  Between the pop and the add the entries are  *)
(* in its memory only.  The leadership itself is in SchedulerLock.         *)
(***************************************************************************)
EXTENDS JobStore

VARIABLE promo  (* the popped entries: "readd" is a due one whose push failed *)

SchedulerTypeOK == promo \in [Jobs -> {"none", "waiting", "due", "readd"}]
SchedulerInit == promo = [j \in Jobs |-> "none"]

Holding == \E j \in Jobs : promo[j] # "none"

\* ZPOPMIN count=10: every entry, due or not (Jobs stays below ten).
PopScheduled ==
    /\ ~Holding
    /\ \E j \in Jobs : sched[j] # "none"
    /\ promo' = sched
    /\ sched' = [j \in Jobs |-> "none"]
    /\ UNCHANGED <<rows, queue, lease, overdue, used>>

\* The reply of ZPOPMIN is lost, and the entries with it.
PopScheduledLost ==
    /\ ~Holding
    /\ \E j \in Jobs : sched[j] # "none"
    /\ Spend("lostReply")
    /\ sched' = [j \in Jobs |-> "none"]
    /\ UNCHANGED <<rows, queue, lease, overdue, promo>>

\* RPUSH of a due entry.
Promote(j) ==
    /\ promo[j] = "due"
    /\ Push(j)
    /\ promo' = [promo EXCEPT ![j] = "none"]
    /\ UNCHANGED <<rows, lease, sched, overdue, used>>

\* The push raises, applied or not: the entry joins those to add back.
PromoteFails(j) ==
    /\ promo[j] = "due"
    /\ \/ Spend("redis") /\ UNCHANGED queue
       \/ Spend("lostReply") /\ Push(j)
    /\ promo' = [promo EXCEPT ![j] = "readd"]
    /\ UNCHANGED <<rows, lease, sched, overdue>>

NothingDue == Holding /\ \A j \in Jobs : promo[j] # "due"

\* Mutant: the entries that were not due are forgotten.
AddBackForgets ==
    /\ NothingDue
    /\ promo' = [j \in Jobs |-> "none"]
    /\ UNCHANGED <<rows, queue, lease, sched, overdue, used>>

\* ZADD of everything that was not pushed.
AddBack ==
    /\ NothingDue
    /\ sched' = [j \in Jobs |-> CASE promo[j] = "none" -> sched[j]
                                  [] promo[j] = "readd" -> "due"
                                  [] OTHER -> "waiting"]
    /\ promo' = [j \in Jobs |-> "none"]
    /\ UNCHANGED <<rows, queue, lease, overdue, used>>

\* That ZADD raises: the pass is abandoned with the entries in memory.
AddBackFails ==
    /\ NothingDue
    /\ Spend("redis")
    /\ promo' = [j \in Jobs |-> "none"]
    /\ UNCHANGED <<rows, queue, lease, sched, overdue>>

SchedulerCrash ==
    /\ Holding
    /\ Spend("windowCrash")
    /\ promo' = [j \in Jobs |-> "none"]
    /\ UNCHANGED <<rows, queue, lease, sched, overdue>>

SchedulerNext ==
    \/ PopScheduled \/ PopScheduledLost \/ AddBack \/ AddBackFails
    \/ SchedulerCrash
    \/ \E j \in Jobs : Promote(j) \/ PromoteFails(j)
=============================================================================
