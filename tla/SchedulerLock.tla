---------------------------- MODULE SchedulerLock ----------------------------
(***************************************************************************)
(* mojo/apps/jobs/scheduler.py: the scheduler daemons of all boxes, of     *)
(* which one at a time is to lead, by a Redis key that is set with NX and  *)
(* a time to live, renewed and released in two calls each (GET, then       *)
(* PEXPIRE or DELETE).  A leader looks at the key only when it renews: it  *)
(* goes on with its pass whatever has become of the key since.             *)
(***************************************************************************)
EXTENDS JobStore

CONSTANTS Schedulers, NoScheduler

ASSUME LockAssumption == NoScheduler \notin Schedulers

VARIABLES
    lock,     (* the value of scheduler_lock, NoScheduler when it is absent *)
    hasLock,  (* has_lock of each scheduler *)
    at,       (* where each scheduler stands *)
    memory,   (* the entries each has popped and not yet pushed or added back *)
    lapsed,   (* those under whose has_lock the key is gone: they have not looked *)
    copies    (* of each entry: how often it was put in the ZSET or doubled by a
                 lost reply, less how often it was consumed or lost in a memory *)

lockVars == <<lock, hasLock, at, memory, lapsed, copies>>
idleVars == <<rows, lease, overdue>>  (* of the store, not used here *)
vars == <<storeVars, lockVars>>

Empty == [j \in Jobs |-> "none"]
Held(s) == {j \in Jobs : memory[s][j] # "none"}

TypeOK ==
    /\ StoreTypeOK
    /\ lock \in Schedulers \union {NoScheduler}
    /\ hasLock \in [Schedulers -> BOOLEAN]
    /\ at \in [Schedulers -> {"top", "renew", "extend", "pass", "release", "delete", "down"}]
    /\ memory \in [Schedulers -> [Jobs -> {"none", "waiting", "due", "readd"}]]
    /\ lapsed \in SUBSET Schedulers
    /\ copies \in [Jobs -> Nat]

Init ==
    /\ StoreInit
    /\ lock = NoScheduler
    /\ hasLock = [s \in Schedulers |-> FALSE]
    /\ at = [s \in Schedulers |-> "top"]
    /\ memory = [s \in Schedulers |-> Empty]
    /\ lapsed = {}
    /\ copies = [j \in Jobs |-> 0]

Goto(s, place) == at' = [at EXCEPT ![s] = place]

-----------------------------------------------------------------------------
(* The key.                                                                *)

\* SET NX PX.  After it, or at once when has_lock is set, comes the renewal
\* if half the time to live has passed, else the pass.
Acquire(s) ==
    /\ at[s] = "top"
    /\ ~hasLock[s] => lock = NoScheduler
    /\ lock' = IF hasLock[s] THEN lock ELSE s
    /\ hasLock' = [hasLock EXCEPT ![s] = TRUE]
    /\ Goto(s, "renew") \/ Goto(s, "pass")
    /\ UNCHANGED <<storeVars, memory, lapsed, copies>>

\* The SET is applied and raises: the key stands and nobody leads.
AcquireFails(s) ==
    /\ at[s] = "top" /\ ~hasLock[s] /\ lock = NoScheduler
    /\ Spend("lostReply")
    /\ lock' = s
    /\ UNCHANGED <<idleVars, queue, sched, hasLock, at, memory, lapsed, copies>>

\* has_lock is cleared: the scheduler knows that it does not lead.
GiveUp(s) ==
    /\ hasLock' = [hasLock EXCEPT ![s] = FALSE]
    /\ lapsed' = lapsed \ {s}

\* The GET of the renewal.
RenewLock(s) ==
    /\ at[s] = "renew"
    /\ \/ lock = s /\ Goto(s, "extend") /\ UNCHANGED <<hasLock, lapsed>>
       \/ lock # s /\ Goto(s, "top") /\ GiveUp(s)
    /\ UNCHANGED <<storeVars, lock, memory, copies>>

\* The PEXPIRE, whose outcome nobody reads: a key that went after the GET is
\* not restored, and one that another scheduler set since is kept alive.
Extend(s) ==
    /\ at[s] = "extend"
    /\ Goto(s, "pass")
    /\ UNCHANGED <<storeVars, lock, hasLock, memory, lapsed, copies>>

\* Either call raises.
RenewFails(s) ==
    /\ at[s] \in {"renew", "extend"}
    /\ Spend("redis")
    /\ Goto(s, "top") /\ GiveUp(s)
    /\ UNCHANGED <<idleVars, queue, sched, lock, memory, copies>>

\* Mutant: the key is deleted without a look at its value.
ReleaseBlindly(s) ==
    /\ at[s] = "release"
    /\ Goto(s, "delete")
    /\ UNCHANGED <<storeVars, lock, hasLock, lapsed, memory, copies>>

\* The GET of the release, in stop().
ReleaseLock(s) ==
    /\ at[s] = "release"
    /\ \/ lock = s /\ Goto(s, "delete") /\ UNCHANGED <<hasLock, lapsed>>
       \/ lock # s /\ Goto(s, "down") /\ GiveUp(s)
    /\ UNCHANGED <<storeVars, lock, memory, copies>>

\* The DELETE removes the key, whoever set it.
Delete(s) ==
    /\ at[s] = "delete"
    /\ lock' = NoScheduler
    /\ Goto(s, "down") /\ GiveUp(s)
    /\ UNCHANGED <<storeVars, memory, copies>>

\* Either call raises, and the process exits with the key in place.
ReleaseFails(s) ==
    /\ at[s] \in {"release", "delete"}
    /\ Spend("redis")
    /\ Goto(s, "down") /\ GiveUp(s)
    /\ UNCHANGED <<idleVars, queue, sched, lock, memory, copies>>

\* Mutant: the key is set without a time to live.
LockNeverExpires == FALSE

\* The time to live runs out.  Under a scheduler that counts on the key this
\* takes a pass longer than the time to live, or one of the calls of stop().
LockExpires ==
    /\ lock # NoScheduler
    /\ lock' = NoScheduler
    /\ IF hasLock[lock]
       THEN /\ Spend(IF at[lock] = "delete" THEN "lateDelete" ELSE "stall")
            /\ lapsed' = lapsed \union {lock}
       ELSE UNCHANGED <<used, lapsed>>
    /\ UNCHANGED <<idleVars, queue, sched, hasLock, at, memory, copies>>

-----------------------------------------------------------------------------
(* The pass.                                                               *)

\* Mutant: ZRANGE, the entries being removed when they have been handled.
ZRangeOnly(s) ==
    /\ at[s] = "pass" /\ Held(s) = {}
    /\ memory' = [memory EXCEPT ![s] = sched]
    /\ IF sched = Empty THEN Goto(s, "top") ELSE UNCHANGED at
    /\ UNCHANGED <<idleVars, used, queue, sched, lock, hasLock, lapsed, copies>>

\* ZPOPMIN; an empty ZSET ends the pass.
ZPopMin(s) ==
    /\ at[s] = "pass" /\ Held(s) = {}
    /\ memory' = [memory EXCEPT ![s] = sched]
    /\ sched' = Empty
    /\ IF sched = Empty THEN Goto(s, "top") ELSE UNCHANGED at
    /\ UNCHANGED <<idleVars, used, queue, lock, hasLock, lapsed, copies>>

\* What the scheduler has in memory is lost.
Forget(lost) == copies' = [j \in Jobs |-> copies[j] - IF j \in lost THEN 1 ELSE 0]
Spill(s) ==
    /\ memory' = [memory EXCEPT ![s] = Empty]
    /\ Forget(Held(s))

\* The reply of ZPOPMIN is lost.
ZPopMinFails(s) ==
    /\ at[s] = "pass" /\ Held(s) = {}
    /\ Spend("lostReply")
    /\ sched' = Empty
    /\ Forget({j \in Jobs : sched[j] # "none"})
    /\ Goto(s, "top")
    /\ UNCHANGED <<idleVars, queue, lock, hasLock, memory, lapsed>>

\* RPUSH of a due entry.
Enqueue(s) ==
    /\ \E j \in Jobs :
          /\ memory[s][j] = "due"
          /\ Push(j)
          /\ memory' = [memory EXCEPT ![s][j] = "none"]
    /\ UNCHANGED <<idleVars, used, sched, lock, hasLock, at, lapsed, copies>>

\* The push raises, applied or not: the entry is kept to be added back.
EnqueueFails(s) ==
    /\ \E j \in Jobs :
          /\ memory[s][j] = "due"
          /\ memory' = [memory EXCEPT ![s][j] = "readd"]
          /\ \/ Spend("redis") /\ UNCHANGED <<queue, copies>>
             \/ /\ Spend("lostReply") /\ Push(j)
                /\ copies' = [copies EXCEPT ![j] = @ + 1]
    /\ UNCHANGED <<idleVars, sched, lock, hasLock, at, lapsed>>

\* Everything due has been handled and something is left.
NothingDue(s) == Held(s) # {} /\ \A j \in Jobs : memory[s][j] # "due"

\* Mutant: what is left is added back with the score of now.
ZAddBackNow(s) ==
    /\ NothingDue(s)
    /\ sched' = [j \in Jobs |-> IF memory[s][j] = "none" THEN sched[j] ELSE "due"]
    /\ memory' = [memory EXCEPT ![s] = Empty]
    /\ Goto(s, "top")
    /\ UNCHANGED <<idleVars, used, queue, lock, hasLock, lapsed, copies>>

\* ZADD of what is left, and the end of the pass.
ZAddBack(s) ==
    /\ NothingDue(s)
    /\ sched' = [j \in Jobs |-> CASE memory[s][j] = "none" -> sched[j]
                                  [] memory[s][j] = "readd" -> "due"
                                  [] OTHER -> "waiting"]
    /\ memory' = [memory EXCEPT ![s] = Empty]
    /\ Goto(s, "top")
    /\ UNCHANGED <<idleVars, used, queue, lock, hasLock, lapsed, copies>>

\* That ZADD raises.
ZAddBackFails(s) ==
    /\ NothingDue(s)
    /\ Spend("redis")
    /\ Spill(s)
    /\ Goto(s, "top")
    /\ UNCHANGED <<idleVars, queue, sched, lock, hasLock, lapsed>>

-----------------------------------------------------------------------------
(* The processes.                                                          *)

SpendCrash(s, kind) == Spend(IF Held(s) # {} THEN "windowCrash" ELSE kind)

\* A signal: stop() and sys.exit run wherever the main thread stands.
Stop(s) ==
    /\ at[s] \notin {"down", "release", "delete"}
    /\ SpendCrash(s, "stop")
    /\ Spill(s)
    /\ Goto(s, IF hasLock[s] THEN "release" ELSE "down")
    /\ UNCHANGED <<idleVars, queue, sched, lock, hasLock, lapsed>>

Crash(s) ==
    /\ at[s] # "down"
    /\ SpendCrash(s, "crash")
    /\ Spill(s)
    /\ Goto(s, "down") /\ GiveUp(s)
    /\ UNCHANGED <<idleVars, queue, sched, lock>>

\* A new process; its lock value is a new uuid.
Start(s) ==
    /\ at[s] = "down"
    /\ lock # s
    /\ Goto(s, "top")
    /\ UNCHANGED <<storeVars, lock, hasLock, memory, lapsed, copies>>

-----------------------------------------------------------------------------
(* The rest of the system: a job is delayed or retried, its time comes, an  *)
(* engine takes it from the queue.                                          *)

Delay(j) ==
    /\ copies[j] = 0
    /\ sched' = [sched EXCEPT ![j] = "waiting"]
    /\ copies' = [copies EXCEPT ![j] = 1]
    /\ UNCHANGED <<idleVars, used, queue, lock, hasLock, at, memory, lapsed>>

Due(j) == BecomeDue(j) /\ UNCHANGED <<used, lockVars>>

Consume ==
    /\ queue # <<>>
    /\ PopTail
    /\ copies' = [copies EXCEPT ![Tail1] = @ - 1]
    /\ UNCHANGED <<idleVars, used, sched, lock, hasLock, at, memory, lapsed>>

Environment == Consume \/ \E j \in Jobs : Delay(j) \/ Due(j)

-----------------------------------------------------------------------------
\* The steps a live scheduler takes by itself.
Run(s) ==
    \/ Acquire(s) \/ RenewLock(s) \/ Extend(s) \/ ReleaseLock(s) \/ Delete(s)
    \/ ZPopMin(s) \/ Enqueue(s) \/ ZAddBack(s)

Fails(s) ==
    \/ AcquireFails(s) \/ RenewFails(s) \/ ReleaseFails(s)
    \/ ZPopMinFails(s) \/ EnqueueFails(s) \/ ZAddBackFails(s)

Next ==
    \/ \E s \in Schedulers : Run(s) \/ Fails(s) \/ Stop(s) \/ Crash(s) \/ Start(s)
    \/ LockExpires
    \/ Environment

\* Live schedulers run, those that are down are started again, a key nobody
\* renews expires, and engines take what is queued.
Fairness ==
    /\ \A s \in Schedulers : WF_vars(Run(s)) /\ WF_vars(Start(s))
    /\ WF_vars(LockExpires /\ UNCHANGED used)
    /\ WF_vars(Consume)

Spec == Init /\ [][Next]_vars
FairSpec == Spec /\ Fairness

-----------------------------------------------------------------------------
(* Properties.                                                             *)

\* "Uses Redis lock for single-leader pattern to ensure only one scheduler is
\* active across the cluster at any time": two lead at once only while one of
\* them has let the key expire in the middle of a pass and not looked since.
OneLeader ==
    \A s, u \in Schedulers :
       (s # u /\ hasLock[s] /\ hasLock[u]) => {s, u} \intersect lapsed # {}

\* Every entry is in the ZSET, a memory or the queue as often as it is due to
\* be, however many schedulers lead: none is promoted twice, none disappears.
Places(j) ==
    (IF sched[j] = "none" THEN 0 ELSE 1)
    + Cardinality({s \in Schedulers : j \in Held(s)})
    + Cardinality({i \in 1..Len(queue) : queue[i] = j})

EntriesAccounted == \A j \in Jobs : Places(j) = copies[j]

\* An entry that is due reaches the queue, unless a scheduler dies with it in
\* memory: no crash, expiry or change of leader holds it up for ever.
DueIsPromoted ==
    \A j \in Jobs :
       sched[j] = "due" ~> (copies[j] = 0 \/ \E i \in 1..Len(queue) : queue[i] = j)

\* While no key lapses the schedulers act as the one of JobScheduler.
Merged == [j \in Jobs |->
    IF \E s \in Schedulers : j \in Held(s)
    THEN memory[CHOOSE s \in Schedulers : j \in Held(s)][j] ELSE "none"]
Single == INSTANCE JobScheduler WITH promo <- Merged
ActAsOne ==
    [][lapsed = {} => Single!SchedulerNext \/ Environment]_<<Merged, sched, queue>>
=============================================================================
