--------------------------- MODULE JobSafetyProofs ---------------------------
(***************************************************************************)
(* What holds of JobSystem while nothing fails but engines that crash      *)
(* between two moves of a job, for every number of jobs, runners, futures  *)
(* and crashes: the id of a job is in one place at a time, and what the    *)
(* row says fits the place.                                                *)
(***************************************************************************)
EXTENDS JobSystemProofs, FiniteSetTheorems

USE StoreAssumption, EngineAssumption

-----------------------------------------------------------------------------
(* The inductive invariant.                                                *)

\* Who has the id of a job.
Positions(j) == {i \in 1..Len(queue) : queue[i] = j}
Hands(j) == {r \in Runners : hand[r] = j}
Futures(j) == {t \in Tasks : task[t].job = j}
Reapers(j) == {r \in Runners : reaper[r].job = j}

\* It is at no site but these.
Only(j, sites) ==
    /\ "pub" \notin sites => pub[j] = 0
    /\ "queue" \notin sites => Positions(j) = {}
    /\ "hand" \notin sites => Hands(j) = {}
    /\ "task" \notin sites => Futures(j) = {}
    /\ "reaper" \notin sites => Reapers(j) = {}
    /\ "sched" \notin sites => sched[j] = "none" /\ promo[j] = "none"
    /\ "lease" \notin sites => lease[j] = "none"

\* In one of the scheduled ZSET and the memory of the scheduler.
Delays(j, scores) ==
    \/ sched[j] \in scores /\ promo[j] = "none"
    \/ promo[j] \in scores /\ sched[j] = "none"

Is(j, statuses) == rows[j].status \in statuses

\* What the row, the lease and the schedule say while a future has the id.
FutureFits(j, t) ==
    CASE At(t, "queued") \/ At(t, "expire") \/ At(t, "claim") \/ At(t, "sched") ->
            Is(j, {"pending"}) /\ lease[j] = "fresh" /\ Only(j, {"task", "lease"})
      [] At(t, "refresh") ->
            Is(j, {"running"}) /\ rows[j].attempt = task[t].att
            /\ lease[j] = "fresh" /\ Only(j, {"task", "lease"})
      [] At(t, "run") \/ At(t, "save") ->
            Is(j, {"running"}) /\ task[t].ran = task[t].att
            /\ lease[j] = "fresh" /\ Only(j, {"task", "lease"})
      [] At(t, "fail") ->
            Is(j, {"running"}) /\ lease[j] = "fresh" /\ Only(j, {"task", "lease"})
      [] At(t, "retry") ->
            Is(j, {"running"}) /\ Retryable(j)
            /\ lease[j] = "fresh" /\ Only(j, {"task", "lease"})
      [] At(t, "giveup") ->
            Is(j, {"running"}) /\ ~Retryable(j)
            /\ lease[j] = "fresh" /\ Only(j, {"task", "lease"})
      [] At(t, "scheduled") ->
            Is(j, {"pending"}) /\ Delays(j, {"waiting"})
            /\ lease[j] = "fresh" /\ Only(j, {"task", "lease", "sched"})
      [] At(t, "release") \/ At(t, "unlease") ->
            Is(j, Terminal) /\ lease[j] = "fresh" /\ Only(j, {"task", "lease"})
      [] At(t, "account") -> Is(j, Terminal) /\ Only(j, {"task"})
      [] At(t, "done") ->
            \/ Is(j, Terminal) /\ Only(j, {"task"})
            \/ Is(j, {"pending"}) /\ Delays(j, {"waiting"}) /\ Only(j, {"task", "sched"})
      [] OTHER -> FALSE

\* The same while a reaper has it: what it has read still holds.
ReaperFits(j, r) ==
    \/ /\ lease[j] = "stale" /\ Only(j, {"lease", "reaper"})
       /\ \/ ReapAt(r, "drop") /\ Is(j, Terminal)
          \/ ReapAt(r, "expire") /\ Is(j, {"pending", "running"})
          \/ ReapAt(r, "fail") /\ Is(j, {"pending", "running"}) /\ ~Retryable(j)
          \/ ReapAt(r, "reset") /\ Is(j, {"running"}) /\ Retryable(j)
          \/ ReapAt(r, "requeue") /\ Is(j, {"pending"})
    \/ /\ Only(j, {"reaper"})
       /\ \/ ReapAt(r, "expireSave") /\ Is(j, {"pending", "running"})
          \/ ReapAt(r, "failSave") /\ Is(j, {"pending", "running"}) /\ ~Retryable(j)
          \/ ReapAt(r, "push") /\ Is(j, {"pending"})

\* The id of a job is in one place: nowhere before the publish and after the
\* end, with its lease alone where an engine has crashed.
Place(j) ==
    \/ Only(j, {}) /\ Is(j, Terminal \union {"absent"})
    \/ Only(j, {"pub"}) /\ Is(j, {"pending"}) /\ pub[j] = 1
    \/ Only(j, {"queue"}) /\ Is(j, {"pending"}) /\ \E i \in Positions(j) : Positions(j) = {i}
    \/ Only(j, {"hand"}) /\ Is(j, {"pending"}) /\ \E r \in Runners : Hands(j) = {r}
    \/ \E t \in Tasks : Futures(j) = {t} /\ FutureFits(j, t)
    \/ Only(j, {"sched"}) /\ Is(j, {"pending"}) /\ Delays(j, {"waiting", "due"})
    \/ Only(j, {"lease"}) /\ lease[j] # "none" /\ ~Is(j, {"absent"})
    \/ \E r \in Runners : Reapers(j) = {r} /\ ReaperFits(j, r)
Places == \A j \in Jobs : Place(j)

\* A process that is down holds nothing, and nobody is asked to stop.
Tidy ==
    /\ \A t \in Tasks :
          /\ task[t].pc = "free" => task[t] = NoTask
          /\ task[t].pc # "free" => phase[task[t].runner] = "up"
    /\ \A r \in Runners :
          /\ reaper[r].pc = "idle" => reaper[r] = IdleReaper
          /\ phase[r] # "stopping"
          /\ phase[r] = "down" => hand[r] = NoJob /\ reaper[r].pc = "idle" /\ batch[r] = {}

\* active_jobs holds the job of every future, and leaves room for the hand.
Dict ==
    \A r \in Runners :
       /\ active[r] = {JobOf(t) : t \in TaskOf(r)}
       /\ IsFiniteSet(active[r])
       /\ Cardinality(active[r]) + (IF hand[r] # NoJob THEN 1 ELSE 0) <= MaxWorkers

\* One reaper at a time, and what it has fetched is still orphaned.
Reaped ==
    \A r \in Runners :
       /\ Reaping(r) => reapLock = r
       /\ \A j \in batch[r] :
             lease[j] = "stale" /\ Futures(j) = {} /\ Reapers(j) = {}

IInv == TypeOK /\ Places /\ Tidy /\ Dict /\ Reaped

\* The only fault is a crash between two moves.
OnlyCrash == Faults \subseteq {"crash"}

\* A fault that has happened is a crash.
LEMMA Fault ==
    ASSUME OnlyCrash, NEW f, Spend(f)
    PROVE  f = "crash"
BY DEF OnlyCrash, Spend

-----------------------------------------------------------------------------
(* What follows from where the id of a job is.                             *)

\* A publisher has it.
LEMMA AtPub ==
    ASSUME NEW j \in Jobs, Place(j), pub[j] # 0
    PROVE  Only(j, {"pub"}) /\ Is(j, {"pending"}) /\ pub[j] = 1
BY DEF Place, Only, FutureFits, ReaperFits

\* The List has it.
LEMMA AtQueue ==
    ASSUME NEW j \in Jobs, Place(j), NEW i \in Positions(j)
    PROVE  Only(j, {"queue"}) /\ Is(j, {"pending"}) /\ Positions(j) = {i}
BY DEF Place, Only, FutureFits, ReaperFits

\* A main loop has it.
LEMMA AtHand ==
    ASSUME NEW j \in Jobs, Place(j), NEW r \in Hands(j)
    PROVE  Only(j, {"hand"}) /\ Is(j, {"pending"}) /\ Hands(j) = {r}
BY DEF Place, Only, FutureFits, ReaperFits

\* A future has it.
LEMMA AtFuture ==
    ASSUME NEW j \in Jobs, Place(j), NEW t \in Futures(j)
    PROVE  Futures(j) = {t} /\ FutureFits(j, t)
BY DEF Place, Only, FutureFits, ReaperFits

\* A reaper has it.
LEMMA AtReaper ==
    ASSUME NEW j \in Jobs, Place(j), NEW r \in Reapers(j)
    PROVE  Reapers(j) = {r} /\ ReaperFits(j, r)
BY DEF Place, Only, FutureFits, ReaperFits

\* Nobody has it yet.
LEMMA AtNone ==
    ASSUME NEW j \in Jobs, Place(j), Is(j, {"absent"})
    PROVE  Only(j, {})
BY DEF Place, Only, FutureFits, ReaperFits, Is, Terminal

\* Its lease is all there is of it.
LEMMA AtLease ==
    ASSUME NEW j \in Jobs, Place(j), lease[j] # "none", Futures(j) = {}, Reapers(j) = {}
    PROVE  Only(j, {"lease"}) /\ ~Is(j, {"absent"})
BY DEF Place, Only

\* The scheduled ZSET or the scheduler has it.
LEMMA AtSched ==
    ASSUME NEW j \in Jobs, Place(j), sched[j] # "none" \/ promo[j] # "none"
    PROVE  /\ Is(j, {"pending"}) /\ Delays(j, {"waiting", "due"})
           /\ \/ Only(j, {"sched"})
              \/ \E t \in Tasks : /\ Futures(j) = {t}
                                  /\ At(t, "scheduled") \/ At(t, "done")
                                  /\ Delays(j, {"waiting"})
<1> USE DEF Only, Delays
<1>1. ASSUME NEW t \in Tasks, Futures(j) = {t}, FutureFits(j, t)
      PROVE  /\ Is(j, {"pending"}) /\ Delays(j, {"waiting"})
             /\ At(t, "scheduled") \/ At(t, "done")
  BY <1>1 DEF FutureFits
<1> QED
  BY <1>1 DEF Place, ReaperFits

-----------------------------------------------------------------------------
(* Frames.                                                                 *)

\* A step leaves the id of a job where it is.
Same(i) ==
    /\ rows'[i] = rows[i] /\ pub'[i] = pub[i] /\ lease'[i] = lease[i]
    /\ sched'[i] = sched[i] /\ promo'[i] = promo[i]
    /\ Positions(i)' = Positions(i) /\ Hands(i)' = Hands(i)
    /\ Futures(i)' = Futures(i) /\ Reapers(i)' = Reapers(i)
    /\ \A t \in Futures(i) : task'[t] = task[t]
    /\ \A r \in Reapers(i) : reaper'[r].pc = reaper[r].pc

\* Then what the row says fits as before.
LEMMA SamePlace ==
    ASSUME NEW i \in Jobs, Same(i), Place(i)
    PROVE  Place(i)'
<1> USE DEF Same
<1>1. ASSUME NEW sites PROVE Only(i, sites)' <=> Only(i, sites)
  BY DEF Only
<1>2. ASSUME NEW s PROVE (Is(i, s)' <=> Is(i, s)) /\ (Delays(i, s)' <=> Delays(i, s))
  BY DEF Is, Delays
<1>3. Retryable(i)' <=> Retryable(i)
  BY DEF Retryable
<1>4. ASSUME NEW t \in Tasks, Futures(i) = {t}, FutureFits(i, t) PROVE FutureFits(i, t)'
  <2>1. \A pc : At(t, pc)' <=> At(t, pc)
    BY <1>4 DEF At
  <2> QED
    BY <1>1, <1>2, <1>3, <1>4, <2>1 DEF FutureFits
<1>5. ASSUME NEW r \in Runners, Reapers(i) = {r}, ReaperFits(i, r) PROVE ReaperFits(i, r)'
  <2>1. \A pc : ReapAt(r, pc)' <=> ReapAt(r, pc)
    BY <1>5 DEF ReapAt
  <2> QED
    BY <1>1, <1>2, <1>3, <1>5, <2>1 DEF ReaperFits
<1> QED
  BY <1>1, <1>2, <1>4, <1>5 DEF Place

\* RPUSH puts the id at one more position, that of the tail.
LEMMA Pushed ==
    ASSUME queue \in Seq(Jobs), NEW j \in Jobs, Push(j)
    PROVE  /\ Positions(j)' = Positions(j) \union {Len(queue) + 1}
           /\ \A i \in Jobs : i # j => Positions(i)' = Positions(i)
<1> DEFINE n == Len(queue)
<1>1. /\ n \in Nat /\ Len(queue') = n + 1 /\ queue'[n + 1] = j
      /\ \A k \in 1..n : queue'[k] = queue[k]
  BY DEF Push
<1>2. 1..Len(queue') = (1..n) \union {n + 1} /\ n + 1 \notin 1..n
  BY <1>1
<1> HIDE DEF n
<1>3. \A i \in Jobs : Positions(i) = {k \in 1..n : queue[k] = i}
  BY DEF Positions, n
<1>4. \A i \in Jobs : Positions(i)' = {k \in (1..n) \union {n + 1} : queue'[k] = i}
  BY <1>2 DEF Positions
<1>5. Positions(j)' = Positions(j) \union {n + 1}
  BY <1>1, <1>3, <1>4
<1>6. ASSUME NEW i \in Jobs, i # j PROVE Positions(i)' = Positions(i)
  <2>1. {k \in (1..n) \union {n + 1} : queue'[k] = i} = {k \in 1..n : queue[k] = i}
    BY <1>1, <1>2, <1>6
  <2> QED
    BY <1>3, <1>4, <2>1
<1> QED
  BY <1>5, <1>6 DEF n

\* BRPOP takes one away.
LEMMA Popped ==
    ASSUME queue \in Seq(Jobs), queue # <<>>, PopTail
    PROVE  \E h \in Jobs :
              /\ h = Tail1 /\ Len(queue) \in Positions(h)
              /\ Positions(h)' = Positions(h) \ {Len(queue)}
              /\ \A i \in Jobs : i # h => Positions(i)' = Positions(i)
<1> DEFINE n == Len(queue)
<1>1. n \in Nat \ {0}
  OBVIOUS
<1>2. Len(queue') = n - 1 /\ \A k \in 1..(n - 1) : queue'[k] = queue[k]
  <2>1. n - 1 \in 0..n /\ (n - 1) - 1 + 1 = n - 1 /\ 1 \in 1..(n + 1)
    BY <1>1
  <2>2. 1 <= (n - 1) + 1 /\ \A k \in 1..(n - 1) : k \in 1..n
    BY <1>1
  <2> QED
    BY <1>1, <2>1, <2>2, SubSeqProperties DEF PopTail
<1>3. Tail1 = queue[n] /\ Tail1 \in Jobs
  BY <1>1 DEF Tail1
<1>4. 1..n = (1..(n - 1)) \union {n} /\ n \notin 1..(n - 1)
  BY <1>1
<1> HIDE DEF n
<1>5. \A i \in Jobs : Positions(i) = {k \in (1..(n - 1)) \union {n} : queue[k] = i}
  BY <1>4 DEF Positions, n
<1>6. \A i \in Jobs : Positions(i)' = {k \in 1..(n - 1) : queue'[k] = i}
  BY <1>2 DEF Positions
<1>7. PICK h \in Jobs : h = Tail1
  BY <1>3
<1>8. n \in Positions(h) /\ Positions(h)' = Positions(h) \ {n}
  <2>1. {k \in 1..(n - 1) : queue'[k] = h} = {k \in (1..(n - 1)) \union {n} : queue[k] = h} \ {n}
    BY <1>2, <1>4
  <2> QED
    BY <1>3, <1>5, <1>6, <1>7, <2>1
<1>9. ASSUME NEW i \in Jobs, i # h PROVE Positions(i)' = Positions(i)
  <2>1. {k \in 1..(n - 1) : queue'[k] = i} = {k \in (1..(n - 1)) \union {n} : queue[k] = i}
    BY <1>2, <1>3, <1>4, <1>7, <1>9
  <2> QED
    BY <1>5, <1>6, <2>1
<1> QED
  BY <1>7, <1>8, <1>9 DEF n

\* A save writes the status of one row.
LEMMA Saved ==
    ASSUME rows \in [Jobs -> Row], NEW j \in Jobs, NEW s, NEW u,
           SaveStatus(j, s) \/ SaveError(j, s, u)
    PROVE  /\ rows'[j].status = s /\ rows'[j].attempt = rows[j].attempt
           /\ \A i \in Jobs : i # j => rows'[i] = rows[i]
BY DEF SaveStatus, SaveError, Row

-----------------------------------------------------------------------------
(* A worker thread.                                                        *)

\* A future goes on with its job.
GoesOn(t, j, x) ==
    /\ j \in Jobs /\ j = task[t].job /\ task[t].pc # "free"
    /\ x \in Future /\ x.pc # "free"
    /\ x.job = j /\ x.runner = task[t].runner
    /\ task' = [task EXCEPT ![t] = x]
    /\ OnlyTask /\ UNCHANGED <<queue, promo, pub>>
    /\ \A i \in Jobs : i # j =>
          rows'[i] = rows[i] /\ lease'[i] = lease[i] /\ sched'[i] = sched[i]

\* Then the id stays with it.
LEMMA GoesOnFrame ==
    ASSUME TypeOK, NEW t \in Tasks, NEW j, NEW x, GoesOn(t, j, x)
    PROVE  /\ task'[t] = x /\ \A u \in Tasks : u # t => task'[u] = task[u]
           /\ \A i \in Jobs : /\ Positions(i)' = Positions(i) /\ Hands(i)' = Hands(i)
                              /\ Futures(i)' = Futures(i) /\ Reapers(i)' = Reapers(i)
<1>1. /\ task'[t] = x /\ \A u \in Tasks : u # t => task'[u] = task[u]
  BY DEF TypeOK, EngineTypeOK, TaskTypeOK, GoesOn
<1>2. \A u \in Tasks : task'[u].job = task[u].job
  BY <1>1 DEF GoesOn
<1>3. UNCHANGED <<queue, hand, reaper>>
  BY DEF GoesOn, OnlyTask
<1> QED
  BY <1>1, <1>2, <1>3 DEF Positions, Hands, Futures, Reapers

\* ... and what is left to show is that the row fits the place it has come to.
LEMMA GoesOnInv ==
    ASSUME IInv, TypeOK', NEW t \in Tasks, NEW j \in Jobs, NEW x, GoesOn(t, j, x),
           FutureFits(j, t)'
    PROVE  IInv'
<1>1. /\ task'[t] = x /\ \A u \in Tasks : u # t => task'[u] = task[u]
      /\ \A i \in Jobs : /\ Positions(i)' = Positions(i) /\ Hands(i)' = Hands(i)
                         /\ Futures(i)' = Futures(i) /\ Reapers(i)' = Reapers(i)
  BY GoesOnFrame DEF IInv
<1>2. Futures(j) = {t}
  <2>1. t \in Futures(j)
    BY DEF Futures, GoesOn
  <2> QED
    BY <2>1, AtFuture DEF IInv, Places
<1>3. Places'
  <2> SUFFICES ASSUME NEW i \in Jobs PROVE Place(i)'
    BY DEF Places
  <2>1. CASE i = j
    BY <1>1, <1>2, <2>1 DEF Place
  <2>2. CASE i # j
    <3>1. \A u \in Futures(i) : u # t
      BY <2>2 DEF Futures, GoesOn
    <3>2. \A u \in Futures(i) : u \in Tasks
      BY DEF Futures
    <3>3. Same(i)
      BY <1>1, <2>2, <3>1, <3>2 DEF Same, GoesOn, OnlyTask
    <3> QED
      BY <3>3, SamePlace DEF IInv, Places
  <2> QED
    BY <2>1, <2>2
<1>4. Tidy'
  BY <1>1 DEF IInv, Tidy, GoesOn, OnlyTask
<1>5. Dict'
  <2>1. \A r \in Runners : TaskOf(r)' = TaskOf(r)
    BY <1>1 DEF TaskOf, GoesOn
  <2>2. \A u \in Tasks : JobOf(u)' = JobOf(u)
    BY <1>1 DEF JobOf, GoesOn
  <2>3. \A r \in Runners : \A u \in TaskOf(r) : u \in Tasks
    BY DEF TaskOf
  <2>4. \A r \in Runners : {JobOf(u) : u \in TaskOf(r)}' = {JobOf(u) : u \in TaskOf(r)}
    BY <2>1, <2>2, <2>3
  <2> QED
    BY <2>4 DEF IInv, Dict, GoesOn, OnlyTask
<1>6. Reaped'
  <2>1. \A r \in Runners : \A i \in batch[r] : i \in Jobs /\ i # j
    BY <1>2 DEF IInv, TypeOK, EngineTypeOK, Reaped
  <2> QED
    BY <1>1, <2>1 DEF IInv, Reaped, Reaping, GoesOn, OnlyTask
<1> QED
  BY <1>3, <1>4, <1>5, <1>6 DEF IInv

\* A future that moves on in the function.
LEMMA GotoGoesOn ==
    ASSUME TypeOK, NEW t \in Tasks, NEW pc \in TaskPC \ {"free"}, task[t].pc # "free",
           Goto(t, pc) \/ Leave(t, pc), OnlyTask, UNCHANGED <<queue, promo, pub>>,
           \A i \in Jobs : i # JobOf(t) =>
              rows'[i] = rows[i] /\ lease'[i] = lease[i] /\ sched'[i] = sched[i]
    PROVE  \E j \in Jobs : \E x \in Future :
              /\ j = JobOf(t) /\ x.pc = pc
              /\ Goto(t, pc) => x.att = task[t].att /\ x.ran = task[t].ran
              /\ GoesOn(t, j, x)
<1> DEFINE moved == [task[t] EXCEPT !.pc = pc]
           left == [task[t] EXCEPT !.pc = pc, !.att = 0, !.ran = 0]
<1>1. task[t] \in Future /\ task[t].job \in Jobs /\ task \in [Tasks -> Future]
  BY DEF TypeOK, EngineTypeOK, TaskTypeOK
<1>2. /\ moved \in Future /\ left \in Future
      /\ moved.pc = pc /\ moved.job = task[t].job /\ moved.runner = task[t].runner
      /\ left.pc = pc /\ left.job = task[t].job /\ left.runner = task[t].runner
  BY <1>1 DEF Future
<1>3. moved.att = task[t].att /\ moved.ran = task[t].ran
  BY <1>1 DEF Future
<1>4. /\ Goto(t, pc) => task' = [task EXCEPT ![t] = moved]
      /\ Leave(t, pc) => task' = [task EXCEPT ![t] = left]
  BY <1>1 DEF Goto, Leave
<1> HIDE DEF moved, left
<1>5. ASSUME NEW x \in {moved, left}, task' = [task EXCEPT ![t] = x]
      PROVE  x \in Future /\ x.pc = pc /\ GoesOn(t, task[t].job, x)
  BY <1>1, <1>2, <1>5 DEF GoesOn, JobOf
<1>6. CASE Goto(t, pc)
  BY <1>1, <1>3, <1>4, <1>5, <1>6 DEF JobOf
<1>7. CASE ~Goto(t, pc)
  BY <1>1, <1>4, <1>5, <1>7 DEF JobOf
<1> QED
  BY <1>6, <1>7

\* What a move of the future has to show: the new place of the function fits.
LEMMA GotoInv ==
    ASSUME IInv, TypeOK', NEW t \in Tasks, NEW pc \in TaskPC \ {"free"}, task[t].pc # "free",
           Goto(t, pc) \/ Leave(t, pc), OnlyTask, UNCHANGED <<queue, promo, pub>>,
           \A i \in Jobs : i # JobOf(t) =>
              rows'[i] = rows[i] /\ lease'[i] = lease[i] /\ sched'[i] = sched[i],
           \A j \in Jobs :
              /\ j = JobOf(t) /\ FutureFits(j, t)
              /\ \A p : At(t, p)' <=> p = pc
              /\ Goto(t, pc) => task'[t].att = task[t].att /\ task'[t].ran = task[t].ran
              /\ pub'[j] = pub[j] /\ promo'[j] = promo[j]
              /\ Positions(j)' = Positions(j) /\ Hands(j)' = Hands(j)
              /\ Futures(j)' = Futures(j) /\ Reapers(j)' = Reapers(j)
              => FutureFits(j, t)'
    PROVE  IInv'
<1>1. PICK j \in Jobs, x \in Future :
         /\ j = JobOf(t) /\ x.pc = pc
         /\ Goto(t, pc) => x.att = task[t].att /\ x.ran = task[t].ran
         /\ GoesOn(t, j, x)
  BY GotoGoesOn DEF IInv
<1>2. /\ task'[t] = x
      /\ \A i \in Jobs : /\ Positions(i)' = Positions(i) /\ Hands(i)' = Hands(i)
                         /\ Futures(i)' = Futures(i) /\ Reapers(i)' = Reapers(i)
  BY <1>1, GoesOnFrame DEF IInv
<1>3. \A p : At(t, p)' <=> p = pc
  BY <1>1, <1>2 DEF At
<1>4. FutureFits(j, t)
  <2>1. t \in Futures(j)
    BY <1>1 DEF Futures, GoesOn
  <2> QED
    BY <2>1, AtFuture DEF IInv, Places
<1>5. FutureFits(j, t)'
  BY <1>1, <1>2, <1>3, <1>4
<1> QED
  BY <1>1, <1>5, GoesOnInv

\* The claim.
LEMMA ClaimInv ==
    ASSUME IInv, TypeOK', NEW t \in Tasks, Claim(t), UNCHANGED <<promo, pub>>
    PROVE  IInv'
<1>0. PICK j \in Jobs : j = JobOf(t)
  BY DEF IInv, TypeOK, EngineTypeOK, TaskTypeOK, Claim, At, JobOf
<1> DEFINE x == [task[t] EXCEPT !.pc = "refresh", !.att = rows[j].attempt + 1]
<1>1. task[t] \in Future /\ task \in [Tasks -> Future] /\ task[t].pc = "claim" /\ task[t].job = j
      /\ rows \in [Jobs -> Row]
  BY <1>0 DEF IInv, TypeOK, StoreTypeOK, EngineTypeOK, TaskTypeOK, Claim, At, JobOf
<1>2. rows[j].attempt + 1 \in Nat
  BY <1>1 DEF Row
<1>3. /\ x \in Future /\ x.pc = "refresh" /\ x.job = j /\ x.runner = task[t].runner
      /\ x.att = rows[j].attempt + 1
  BY <1>1, <1>2 DEF Future, TaskPC
<1>4. task' = [task EXCEPT ![t] = x]
  BY <1>0, <1>1 DEF Claim
<1>5. /\ rows'[j].status = "running" /\ rows'[j].attempt = rows[j].attempt + 1
      /\ \A i \in Jobs : i # j => rows'[i] = rows[i]
  BY <1>0, <1>1 DEF Claim, Row
<1> HIDE DEF x
<1>6. GoesOn(t, j, x)
  BY <1>1, <1>3, <1>4, <1>5 DEF GoesOn, Claim
<1>7. FutureFits(j, t) /\ At(t, "claim")
  <2>1. t \in Futures(j)
    BY <1>1 DEF Futures
  <2> QED
    BY <1>1, <2>1, AtFuture DEF IInv, Places, At
<1>8. /\ \A p : At(t, p)' <=> p = "refresh"
      /\ task'[t].att = rows[j].attempt + 1
      /\ Positions(j)' = Positions(j) /\ Hands(j)' = Hands(j)
      /\ Futures(j)' = Futures(j) /\ Reapers(j)' = Reapers(j)
      /\ UNCHANGED <<lease, sched, promo, pub>>
  <2>1. task'[t] = x /\ UNCHANGED <<lease, sched, promo, pub>>
    BY <1>6, GoesOnFrame DEF IInv, Claim
  <2> QED
    BY <1>3, <1>6, <2>1, GoesOnFrame DEF IInv, At
<1>9. FutureFits(j, t)'
  BY <1>5, <1>7, <1>8 DEF FutureFits, At, Is, Only
<1> QED
  BY <1>6, <1>9, GoesOnInv

\* The refresh reads the attempt the claim wrote, for nobody else has the id.
LEMMA RefreshInv ==
    ASSUME IInv, TypeOK', NEW t \in Tasks, Refresh(t), UNCHANGED <<promo, pub>>
    PROVE  IInv'
<1>0. PICK j \in Jobs : j = JobOf(t)
  BY DEF IInv, TypeOK, EngineTypeOK, TaskTypeOK, Refresh, At, JobOf
<1> DEFINE x == [task[t] EXCEPT !.pc = "run", !.ran = rows[j].attempt]
<1>1. task[t] \in Future /\ task \in [Tasks -> Future] /\ task[t].pc = "refresh" /\ task[t].job = j
      /\ rows[j].attempt \in Nat
  BY <1>0 DEF IInv, TypeOK, StoreTypeOK, EngineTypeOK, TaskTypeOK, Refresh, At, JobOf, Row
<1>2. /\ x \in Future /\ x.pc = "run" /\ x.job = j /\ x.runner = task[t].runner
      /\ x.att = task[t].att /\ x.ran = rows[j].attempt
  BY <1>1 DEF Future, TaskPC
<1>3. task' = [task EXCEPT ![t] = x]
  BY <1>0, <1>1 DEF Refresh
<1> HIDE DEF x
<1>4. GoesOn(t, j, x)
  BY <1>1, <1>2, <1>3 DEF GoesOn, Refresh, storeVars
<1>5. FutureFits(j, t) /\ At(t, "refresh")
  <2>1. t \in Futures(j)
    BY <1>1 DEF Futures
  <2> QED
    BY <1>1, <2>1, AtFuture DEF IInv, Places, At
<1>6. /\ \A p : At(t, p)' <=> p = "run"
      /\ task'[t].att = task[t].att /\ task'[t].ran = rows[j].attempt
      /\ Positions(j)' = Positions(j) /\ Hands(j)' = Hands(j)
      /\ Futures(j)' = Futures(j) /\ Reapers(j)' = Reapers(j)
      /\ UNCHANGED <<rows, lease, sched, promo, pub>>
  <2>1. task'[t] = x /\ UNCHANGED <<rows, lease, sched, promo, pub>>
    BY <1>4, GoesOnFrame DEF IInv, Refresh, storeVars
  <2> QED
    BY <1>2, <1>4, <2>1, GoesOnFrame DEF IInv, At
<1>7. FutureFits(j, t)'
  BY <1>5, <1>6 DEF FutureFits, At, Is, Only
<1> QED
  BY <1>4, <1>7, GoesOnInv

\* Every step of a worker thread.
LEMMA WorkInv ==
    ASSUME OnlyCrash, IInv, TypeOK', NEW t \in Tasks, Work(t) \/ WorkFails(t),
           ~Completed(t), UNCHANGED <<promo, pub>>
    PROVE  IInv'
<1>1. /\ task[t].pc # "free" => JobOf(t) \in Jobs
      /\ rows \in [Jobs -> Row] /\ lease \in [Jobs -> {"none", "fresh", "stale"}]
      /\ sched \in [Jobs -> {"none", "waiting", "due"}]
  BY DEF IInv, TypeOK, StoreTypeOK, EngineTypeOK, TaskTypeOK, JobOf
<1>2. {"queued", "expire", "claim", "refresh", "run", "save", "release", "account",
       "fail", "retry", "sched", "scheduled", "giveup", "unlease", "done"} \subseteq TaskPC \ {"free"}
  BY DEF TaskPC
<1>3. ~WorkFails(t)
  BY Fault DEF WorkFails, LoadFails, SaveRaises, AccountFails, HandlingRaises
<1> USE <1>1, <1>2 DEF storeVars
<1>4. CASE Load(t)
  <2> DEFINE pc == IF rows[JobOf(t)].status # "pending" THEN "unlease"
                   ELSE IF JobOf(t) \in overdue THEN "expire" ELSE "claim"
  <2>1. /\ pc \in TaskPC \ {"free"} /\ task[t].pc = "queued" /\ Goto(t, pc)
        /\ (rows[JobOf(t)].status = "pending" => pc \in {"expire", "claim"})
        /\ UNCHANGED <<rows, queue, lease, sched>> /\ OnlyTask
    BY <1>4 DEF Load, At
  <2> HIDE DEF pc
  <2>2. ASSUME NEW j \in Jobs, j = JobOf(t), FutureFits(j, t), \A p : At(t, p)' <=> p = pc,
               pub'[j] = pub[j], promo'[j] = promo[j],
               Positions(j)' = Positions(j), Hands(j)' = Hands(j),
               Futures(j)' = Futures(j), Reapers(j)' = Reapers(j)
        PROVE  FutureFits(j, t)'
    BY <2>1, <2>2 DEF FutureFits, At, Is, Only
  <2> QED
    BY <2>1, <2>2, GotoInv
<1>5. CASE MarkExpired(t)
  <2>1. /\ task[t].pc = "expire" /\ Goto(t, "release") /\ OnlyTask
        /\ rows'[JobOf(t)].status = "expired"
        /\ \A i \in Jobs : i # JobOf(t) => rows'[i] = rows[i]
        /\ UNCHANGED <<queue, lease, sched>>
    BY <1>5, Saved DEF MarkExpired, At
  <2>2. ASSUME NEW j \in Jobs, j = JobOf(t), FutureFits(j, t), \A p : At(t, p)' <=> p = "release",
               pub'[j] = pub[j], promo'[j] = promo[j],
               Positions(j)' = Positions(j), Hands(j)' = Hands(j),
               Futures(j)' = Futures(j), Reapers(j)' = Reapers(j)
        PROVE  FutureFits(j, t)'
    BY <2>1, <2>2 DEF FutureFits, At, Is, Only, Terminal
  <2> QED
    BY <2>1, <2>2, GotoInv
<1>6. CASE ClaimLost(t)
  <2>1. task[t].pc = "claim" /\ rows[JobOf(t)].status # "pending" /\ t \in Futures(JobOf(t))
    BY <1>6 DEF ClaimLost, At, Futures, JobOf
  <2>2. FutureFits(JobOf(t), t)
    BY <2>1, AtFuture DEF IInv, Places
  <2> QED
    BY <2>1, <2>2 DEF FutureFits, At, Is
<1>7. CASE HandlerReturns(t)
  <2>1. /\ task[t].pc = "run" /\ Goto(t, "save") /\ OnlyTask
        /\ UNCHANGED <<rows, queue, lease, sched>>
    BY <1>7 DEF HandlerReturns, At
  <2>2. ASSUME NEW j \in Jobs, j = JobOf(t), FutureFits(j, t), \A p : At(t, p)' <=> p = "save",
               task'[t].att = task[t].att, task'[t].ran = task[t].ran,
               pub'[j] = pub[j], promo'[j] = promo[j],
               Positions(j)' = Positions(j), Hands(j)' = Hands(j),
               Futures(j)' = Futures(j), Reapers(j)' = Reapers(j)
        PROVE  FutureFits(j, t)'
    BY <2>1, <2>2 DEF FutureFits, At, Is, Only
  <2> QED
    BY <2>1, <2>2, GotoInv
<1>8. CASE HandlerRaises(t)
  <2>1. /\ task[t].pc = "run" /\ Leave(t, "fail") /\ OnlyTask
        /\ UNCHANGED <<rows, queue, lease, sched>>
    BY <1>8 DEF HandlerRaises, At
  <2>2. ASSUME NEW j \in Jobs, j = JobOf(t), FutureFits(j, t), \A p : At(t, p)' <=> p = "fail",
               pub'[j] = pub[j], promo'[j] = promo[j],
               Positions(j)' = Positions(j), Hands(j)' = Hands(j),
               Futures(j)' = Futures(j), Reapers(j)' = Reapers(j)
        PROVE  FutureFits(j, t)'
    BY <2>1, <2>2 DEF FutureFits, At, Is, Only
  <2> QED
    BY <2>1, <2>2, GotoInv
<1>9. CASE SaveCompleted(t)
  <2>1. /\ task[t].pc = "save" /\ Leave(t, "release") /\ OnlyTask
        /\ rows'[JobOf(t)].status = "completed"
        /\ \A i \in Jobs : i # JobOf(t) => rows'[i] = rows[i]
        /\ UNCHANGED <<queue, lease, sched>>
    BY <1>9, Saved DEF SaveCompleted, At
  <2>2. ASSUME NEW j \in Jobs, j = JobOf(t), FutureFits(j, t), \A p : At(t, p)' <=> p = "release",
               pub'[j] = pub[j], promo'[j] = promo[j],
               Positions(j)' = Positions(j), Hands(j)' = Hands(j),
               Futures(j)' = Futures(j), Reapers(j)' = Reapers(j)
        PROVE  FutureFits(j, t)'
    BY <2>1, <2>2 DEF FutureFits, At, Is, Only, Terminal
  <2> QED
    BY <2>1, <2>2, GotoInv
<1>10. CASE Release(t)
  <2>1. /\ task[t].pc = "release" /\ Goto(t, "account") /\ OnlyTask
        /\ lease'[JobOf(t)] = "none"
        /\ \A i \in Jobs : i # JobOf(t) => lease'[i] = lease[i]
        /\ UNCHANGED <<rows, queue, sched>>
    BY <1>10, Fault DEF Release, At, Zrem, RemoveFromProcessing
  <2>2. ASSUME NEW j \in Jobs, j = JobOf(t), FutureFits(j, t), \A p : At(t, p)' <=> p = "account",
               pub'[j] = pub[j], promo'[j] = promo[j],
               Positions(j)' = Positions(j), Hands(j)' = Hands(j),
               Futures(j)' = Futures(j), Reapers(j)' = Reapers(j)
        PROVE  FutureFits(j, t)'
    BY <2>1, <2>2 DEF FutureFits, At, Is, Only, Terminal
  <2> QED
    BY <2>1, <2>2, GotoInv
<1>11. CASE Account(t)
  <2>1. /\ task[t].pc = "account" /\ Goto(t, "done") /\ OnlyTask
        /\ UNCHANGED <<rows, queue, lease, sched>>
    BY <1>11 DEF Account, At
  <2>2. ASSUME NEW j \in Jobs, j = JobOf(t), FutureFits(j, t), \A p : At(t, p)' <=> p = "done",
               pub'[j] = pub[j], promo'[j] = promo[j],
               Positions(j)' = Positions(j), Hands(j)' = Hands(j),
               Futures(j)' = Futures(j), Reapers(j)' = Reapers(j)
        PROVE  FutureFits(j, t)'
    BY <2>1, <2>2 DEF FutureFits, At, Is, Only
  <2> QED
    BY <2>1, <2>2, GotoInv
<1>12. CASE ReadFailed(t)
  <2> DEFINE pc == IF Retryable(JobOf(t)) THEN "retry" ELSE "giveup"
  <2>1. /\ pc \in TaskPC \ {"free"} /\ task[t].pc = "fail" /\ Goto(t, pc) /\ OnlyTask
        /\ pc \in {"retry", "giveup"} /\ (pc = "retry" <=> Retryable(JobOf(t)))
        /\ UNCHANGED <<rows, queue, lease, sched>>
    BY <1>12 DEF ReadFailed, At
  <2> HIDE DEF pc
  <2>2. ASSUME NEW j \in Jobs, j = JobOf(t), FutureFits(j, t), \A p : At(t, p)' <=> p = pc,
               pub'[j] = pub[j], promo'[j] = promo[j],
               Positions(j)' = Positions(j), Hands(j)' = Hands(j),
               Futures(j)' = Futures(j), Reapers(j)' = Reapers(j)
        PROVE  FutureFits(j, t)'
    BY <2>1, <2>2 DEF FutureFits, At, Is, Only, Retryable
  <2> QED
    BY <2>1, <2>2, GotoInv
<1>13. CASE SaveRetry(t)
  <2>1. /\ task[t].pc = "retry" /\ Goto(t, "sched") /\ OnlyTask
        /\ rows'[JobOf(t)].status = "pending"
        /\ \A i \in Jobs : i # JobOf(t) => rows'[i] = rows[i]
        /\ UNCHANGED <<queue, lease, sched>>
    BY <1>13, Saved DEF SaveRetry, At
  <2>2. ASSUME NEW j \in Jobs, j = JobOf(t), FutureFits(j, t), \A p : At(t, p)' <=> p = "sched",
               pub'[j] = pub[j], promo'[j] = promo[j],
               Positions(j)' = Positions(j), Hands(j)' = Hands(j),
               Futures(j)' = Futures(j), Reapers(j)' = Reapers(j)
        PROVE  FutureFits(j, t)'
    BY <2>1, <2>2 DEF FutureFits, At, Is, Only
  <2> QED
    BY <2>1, <2>2, GotoInv
<1>14. CASE ScheduleRetry(t)
  <2>1. /\ task[t].pc = "sched" /\ Goto(t, "scheduled") /\ OnlyTask
        /\ sched'[JobOf(t)] = "waiting"
        /\ \A i \in Jobs : i # JobOf(t) => sched'[i] = sched[i]
        /\ UNCHANGED <<rows, queue, lease>>
    <3>1. ~Spend("redis")
      BY Fault
    <3> QED
      BY <1>14, <3>1 DEF ScheduleRetry, At
  <2>2. ASSUME NEW j \in Jobs, j = JobOf(t), FutureFits(j, t), \A p : At(t, p)' <=> p = "scheduled",
               pub'[j] = pub[j], promo'[j] = promo[j],
               Positions(j)' = Positions(j), Hands(j)' = Hands(j),
               Futures(j)' = Futures(j), Reapers(j)' = Reapers(j)
        PROVE  FutureFits(j, t)'
    BY <2>1, <2>2 DEF FutureFits, At, Is, Only, Delays
  <2> QED
    BY <2>1, <2>2, GotoInv
<1>15. CASE SaveFailed(t)
  <2>1. /\ task[t].pc = "giveup" /\ Goto(t, "unlease") /\ OnlyTask
        /\ rows'[JobOf(t)].status = "failed"
        /\ \A i \in Jobs : i # JobOf(t) => rows'[i] = rows[i]
        /\ UNCHANGED <<queue, lease, sched>>
    BY <1>15, Saved, Fault DEF SaveFailed, At
  <2>2. ASSUME NEW j \in Jobs, j = JobOf(t), FutureFits(j, t), \A p : At(t, p)' <=> p = "unlease",
               pub'[j] = pub[j], promo'[j] = promo[j],
               Positions(j)' = Positions(j), Hands(j)' = Hands(j),
               Futures(j)' = Futures(j), Reapers(j)' = Reapers(j)
        PROVE  FutureFits(j, t)'
    BY <2>1, <2>2 DEF FutureFits, At, Is, Only, Terminal
  <2> QED
    BY <2>1, <2>2, GotoInv
<1>16. CASE Unlease(t)
  <2>1. /\ task[t].pc \in {"unlease", "scheduled"} /\ Goto(t, "done") /\ OnlyTask
        /\ lease'[JobOf(t)] = "none"
        /\ \A i \in Jobs : i # JobOf(t) => lease'[i] = lease[i]
        /\ UNCHANGED <<rows, queue, sched>>
    BY <1>16, Fault DEF Unlease, At, Zrem, RemoveFromProcessing
  <2>2. ASSUME NEW j \in Jobs, j = JobOf(t), FutureFits(j, t), \A p : At(t, p)' <=> p = "done",
               pub'[j] = pub[j], promo'[j] = promo[j],
               Positions(j)' = Positions(j), Hands(j)' = Hands(j),
               Futures(j)' = Futures(j), Reapers(j)' = Reapers(j)
        PROVE  FutureFits(j, t)'
    BY <2>1, <2>2 DEF FutureFits, At, Is, Only, Delays
  <2> QED
    BY <2>1, <2>2, GotoInv
<1> QED
  BY <1>3, <1>4, <1>5, <1>6, <1>7, <1>8, <1>9, <1>10, <1>11, <1>12, <1>13, <1>14, <1>15,
     <1>16, ClaimInv, RefreshInv DEF Work

\* A step that moves the id of one job.
LEMMA OneMoves ==
    ASSUME Places, NEW j \in Jobs, \A i \in Jobs \ {j} : Same(i), Place(j)'
    PROVE  Places'
BY SamePlace DEF Places

\* _job_completed: the future and its entry in the dict go.
LEMMA CompletedInv ==
    ASSUME IInv, TypeOK', NEW t \in Tasks, Completed(t), UNCHANGED <<promo, pub>>
    PROVE  IInv'
<1>1. /\ task \in [Tasks -> Future] /\ task[t].job \in Jobs /\ task[t].runner \in Runners
      /\ task[t].pc = "done" /\ active \in [Runners -> SUBSET Jobs]
  BY DEF IInv, TypeOK, EngineTypeOK, TaskTypeOK, Completed, At
<1>2. PICK j \in Jobs, r \in Runners : j = task[t].job /\ r = task[t].runner
  BY <1>1
<1>3. /\ task'[t] = NoTask /\ \A u \in Tasks : u # t => task'[u] = task[u]
      /\ active'[r] = active[r] \ {j} /\ \A s \in Runners : s # r => active'[s] = active[s]
      /\ UNCHANGED <<rows, queue, lease, sched, phase, hand, touching, reaper, batch, reapLock>>
  BY <1>1, <1>2 DEF Completed, JobOf, storeVars
<1>4. Futures(j) = {t} /\ FutureFits(j, t)
  <2>1. t \in Futures(j)
    BY <1>2 DEF Futures
  <2> QED
    BY <2>1, AtFuture DEF IInv, Places
<1>5. \A i \in Jobs : /\ Positions(i)' = Positions(i) /\ Hands(i)' = Hands(i)
                      /\ Reapers(i)' = Reapers(i)
  BY <1>3 DEF Positions, Hands, Reapers
<1>6. NoTask.job \notin Jobs /\ NoTask.runner \notin Runners /\ NoTask.pc = "free"
  BY DEF NoTask
<1>7. Futures(j)' = {}
  BY <1>3, <1>4, <1>6 DEF Futures
<1>8. ASSUME NEW i \in Jobs \ {j} PROVE Same(i)
  <2>1. t \notin Futures(i) /\ Futures(i)' = Futures(i)
    BY <1>2, <1>3, <1>6 DEF Futures
  <2>2. \A u \in Futures(i) : u \in Tasks /\ u # t
    BY <2>1 DEF Futures
  <2> QED
    BY <1>3, <1>5, <2>1, <2>2 DEF Same
<1>9. Place(j)'
  <2>1. \/ Is(j, Terminal) /\ Only(j, {"task"})
        \/ Is(j, {"pending"}) /\ Delays(j, {"waiting"}) /\ Only(j, {"task", "sched"})
    BY <1>1, <1>4 DEF FutureFits, At
  <2> QED
    BY <1>3, <1>5, <1>7, <2>1 DEF Place, Only, Is, Delays
<1>10. Places'
  BY <1>8, <1>9, OneMoves DEF IInv
<1>11. Tidy'
  BY <1>3, <1>6 DEF IInv, Tidy
<1>12. Dict'
  <2> SUFFICES ASSUME NEW s \in Runners
               PROVE  /\ active'[s] = {JobOf(u) : u \in TaskOf(s)}'
                      /\ IsFiniteSet(active'[s])
                      /\ Cardinality(active'[s]) + (IF hand'[s] # NoJob THEN 1 ELSE 0)
                            <= MaxWorkers
    BY DEF Dict
  <2>1. /\ active[s] = {JobOf(u) : u \in TaskOf(s)} /\ IsFiniteSet(active[s])
        /\ Cardinality(active[s]) + (IF hand[s] # NoJob THEN 1 ELSE 0) <= MaxWorkers
    BY DEF IInv, Dict
  <2>2. {JobOf(u) : u \in TaskOf(s)}' = {task'[u].job : u \in {v \in Tasks : task'[v].runner = s}}
    BY DEF JobOf, TaskOf
  <2>3. {JobOf(u) : u \in TaskOf(s)} = {task[u].job : u \in {v \in Tasks : task[v].runner = s}}
    BY DEF JobOf, TaskOf
  <2>4. CASE s # r
    <3>1. {v \in Tasks : task'[v].runner = s} = {v \in Tasks : task[v].runner = s}
      BY <1>2, <1>3, <1>6, <2>4
    <3>2. \A v \in Tasks : task[v].runner = s => task'[v].job = task[v].job
      BY <1>2, <1>3, <2>4
    <3>3. {task'[u].job : u \in {v \in Tasks : task[v].runner = s}}
             = {task[u].job : u \in {v \in Tasks : task[v].runner = s}}
      BY <3>2
    <3> QED
      BY <1>3, <2>1, <2>2, <2>3, <2>4, <3>1, <3>3
  <2>5. CASE s = r
    <3>1. {v \in Tasks : task'[v].runner = s} = {v \in Tasks : task[v].runner = s} \ {t}
      BY <1>3, <1>6, <2>5
    <3>2. \A v \in Tasks : v # t => task'[v].job = task[v].job /\ task[v].job # j
      BY <1>3, <1>4 DEF Futures
    <3>3. {task'[u].job : u \in {v \in Tasks : task[v].runner = s} \ {t}}
             = {task[u].job : u \in {v \in Tasks : task[v].runner = s}} \ {j}
      BY <1>2, <2>5, <3>2
    <3>4. active'[s] = {JobOf(u) : u \in TaskOf(s)}'
      BY <1>3, <2>1, <2>2, <2>3, <2>5, <3>1, <3>3
    <3>5. /\ IsFiniteSet(active'[s]) /\ Cardinality(active'[s]) <= Cardinality(active[s])
          /\ Cardinality(active[s]) \in Nat /\ Cardinality(active'[s]) \in Nat
      BY <1>3, <2>1, <2>5, FS_Subset, FS_CardinalityType
    <3> QED
      BY <1>3, <2>1, <3>4, <3>5
  <2> QED
    BY <2>4, <2>5
<1>13. Reaped'
  <2>1. \A s \in Runners : \A i \in batch[s] : i \in Jobs /\ i # j
    BY <1>4 DEF IInv, TypeOK, EngineTypeOK, Reaped
  <2>2. \A i \in Jobs \ {j} : Futures(i)' = Futures(i)
    BY <1>8 DEF Same
  <2> QED
    BY <1>3, <1>5, <2>1, <2>2 DEF IInv, Reaped, Reaping
<1> QED
  BY <1>10, <1>11, <1>12, <1>13 DEF IInv

-----------------------------------------------------------------------------
(* The main loop.                                                          *)

\* BRPOP.
LEMMA PopInv ==
    ASSUME IInv, TypeOK', NEW r \in Runners, Pop(r), UNCHANGED <<promo, pub>>
    PROVE  IInv'
<1>1. PICK j \in Jobs :
         /\ j = Tail1 /\ Len(queue) \in Positions(j)
         /\ Positions(j)' = Positions(j) \ {Len(queue)}
         /\ \A i \in Jobs : i # j => Positions(i)' = Positions(i)
  BY Popped DEF IInv, TypeOK, StoreTypeOK, Pop
<1>2. Only(j, {"queue"}) /\ Is(j, {"pending"}) /\ Positions(j) = {Len(queue)}
  BY <1>1, AtQueue DEF IInv, Places
<1>3. /\ hand[r] = NoJob /\ hand'[r] = j /\ \A s \in Runners : s # r => hand'[s] = hand[s]
      /\ UNCHANGED <<rows, lease, sched, phase, active, touching, task, reaper, batch, reapLock>>
      /\ phase[r] = "up" /\ Cardinality(active[r]) < MaxWorkers
  BY <1>1 DEF Pop, IInv, TypeOK, EngineTypeOK
<1>4. \A i \in Jobs : Futures(i)' = Futures(i) /\ Reapers(i)' = Reapers(i)
  BY <1>3 DEF Futures, Reapers
<1>5. Hands(j)' = {r} /\ \A i \in Jobs \ {j} : Hands(i)' = Hands(i)
  <2>1. Hands(j) = {}
    BY <1>2 DEF Only
  <2> QED
    BY <1>3, <2>1 DEF Hands
<1>6. Place(j)'
  <2>1. Only(j, {"hand"})' /\ Is(j, {"pending"})'
    BY <1>1, <1>2, <1>3, <1>4 DEF Only, Is
  <2> QED
    BY <1>5, <2>1 DEF Place
<1>7. \A i \in Jobs \ {j} : Same(i)
  BY <1>1, <1>3, <1>4, <1>5 DEF Same
<1>8. Places'
  BY <1>6, <1>7, OneMoves DEF IInv
<1>9. Tidy'
  BY <1>3 DEF IInv, Tidy
<1>10. Dict'
  <2>1. \A s \in Runners : {JobOf(u) : u \in TaskOf(s)}' = {JobOf(u) : u \in TaskOf(s)}
    BY <1>3 DEF JobOf, TaskOf
  <2>2. Cardinality(active[r]) + 1 <= MaxWorkers
    <3>1. Cardinality(active[r]) \in Nat
      BY FS_CardinalityType DEF IInv, Dict
    <3> QED
      BY <1>3, <3>1
  <2> QED
    BY <1>3, <2>1, <2>2 DEF IInv, Dict
<1>11. Reaped'
  BY <1>3, <1>4 DEF IInv, Reaped, Reaping, TypeOK, EngineTypeOK
<1> QED
  BY <1>8, <1>9, <1>10, <1>11 DEF IInv

\* The lease and the submit.
LEMMA TrackInv ==
    ASSUME OnlyCrash, IInv, TypeOK', NEW r \in Runners, Track(r), UNCHANGED <<promo, pub>>
    PROVE  IInv'
<1>1. PICK j \in Jobs : j = hand[r]
  BY DEF Track, IInv, TypeOK, EngineTypeOK
<1>2. lease'[j] = "fresh" /\ \A i \in Jobs \ {j} : lease'[i] = lease[i]
  BY <1>1, Fault DEF Track, TakeLease, Touch, IInv, TypeOK, StoreTypeOK
<1>3. PICK t \in Tasks :
         /\ task[t].pc = "free"
         /\ task' = [task EXCEPT ![t] = [pc |-> "queued", job |-> j, runner |-> r, att |-> 0, ran |-> 0]]
  BY <1>1 DEF Track
<1>4. /\ task'[t] = [pc |-> "queued", job |-> j, runner |-> r, att |-> 0, ran |-> 0]
      /\ \A u \in Tasks : u # t => task'[u] = task[u]
      /\ task[t] = NoTask
  BY <1>3 DEF IInv, TypeOK, EngineTypeOK, TaskTypeOK, Tidy
<1>5. /\ hand'[r] = NoJob /\ \A s \in Runners : s # r => hand'[s] = hand[s]
      /\ active'[r] = active[r] \union {j} /\ \A s \in Runners : s # r => active'[s] = active[s]
      /\ UNCHANGED <<rows, queue, sched, phase, touching, reaper, batch, reapLock>>
      /\ phase[r] = "up"
  BY <1>1 DEF Track, IInv, TypeOK, EngineTypeOK, Tidy
<1>6. Only(j, {"hand"}) /\ Is(j, {"pending"}) /\ Hands(j) = {r}
  <2>1. r \in Hands(j)
    BY <1>1 DEF Hands
  <2> QED
    BY <2>1, AtHand DEF IInv, Places
<1>7. Futures(j) = {} /\ Hands(j)' = {}
  BY <1>5, <1>6 DEF Only, Hands
<1>8. Futures(j)' = {t} /\ \A i \in Jobs \ {j} : Futures(i)' = Futures(i) /\ t \notin Futures(i)
  BY <1>4, <1>7 DEF Futures, NoTask
<1>9. \A i \in Jobs : Positions(i)' = Positions(i) /\ Reapers(i)' = Reapers(i)
  BY <1>5 DEF Positions, Reapers
<1>10. Place(j)'
  <2>1. Only(j, {"task", "lease"})' /\ Is(j, {"pending"})' /\ lease'[j] = "fresh"
    BY <1>2, <1>5, <1>6, <1>7, <1>8, <1>9 DEF Only, Is
  <2>2. At(t, "queued")'
    BY <1>4 DEF At
  <2>3. FutureFits(j, t)'
    BY <2>1, <2>2 DEF FutureFits, At
  <2> QED
    BY <1>8, <2>3 DEF Place
<1>11. ASSUME NEW i \in Jobs \ {j} PROVE Same(i)
  <2>1. Hands(i)' = Hands(i)
    BY <1>1, <1>5 DEF Hands
  <2>2. \A u \in Futures(i) : u \in Tasks /\ u # t
    BY <1>8 DEF Futures
  <2> QED
    BY <1>2, <1>4, <1>5, <1>8, <1>9, <2>1, <2>2 DEF Same
<1>12. Places'
  BY <1>10, <1>11, OneMoves DEF IInv
<1>13. Tidy'
  BY <1>4, <1>5 DEF IInv, Tidy
<1>14. Dict'
  <2> SUFFICES ASSUME NEW s \in Runners
               PROVE  /\ active'[s] = {JobOf(u) : u \in TaskOf(s)}'
                      /\ IsFiniteSet(active'[s])
                      /\ Cardinality(active'[s]) + (IF hand'[s] # NoJob THEN 1 ELSE 0)
                            <= MaxWorkers
    BY DEF Dict
  <2>1. /\ active[s] = {JobOf(u) : u \in TaskOf(s)} /\ IsFiniteSet(active[s])
        /\ Cardinality(active[s]) + (IF hand[s] # NoJob THEN 1 ELSE 0) <= MaxWorkers
    BY DEF IInv, Dict
  <2>2. {JobOf(u) : u \in TaskOf(s)}' = {task'[u].job : u \in {v \in Tasks : task'[v].runner = s}}
    BY DEF JobOf, TaskOf
  <2>3. {JobOf(u) : u \in TaskOf(s)} = {task[u].job : u \in {v \in Tasks : task[v].runner = s}}
    BY DEF JobOf, TaskOf
  <2>4. \A v \in Tasks : task[v].runner = s => v # t
    BY <1>4 DEF NoTask
  <2>5. CASE s # r
    <3>1. {v \in Tasks : task'[v].runner = s} = {v \in Tasks : task[v].runner = s}
      BY <1>4, <2>4, <2>5
    <3>2. {task'[u].job : u \in {v \in Tasks : task[v].runner = s}}
             = {task[u].job : u \in {v \in Tasks : task[v].runner = s}}
      BY <1>4, <2>4
    <3> QED
      BY <1>5, <2>1, <2>2, <2>3, <2>5, <3>1, <3>2
  <2>6. CASE s = r
    <3>1. {v \in Tasks : task'[v].runner = s} = {v \in Tasks : task[v].runner = s} \union {t}
      BY <1>4, <2>4, <2>6
    <3>2. {task'[u].job : u \in {v \in Tasks : task[v].runner = s} \union {t}}
             = {task[u].job : u \in {v \in Tasks : task[v].runner = s}} \union {j}
      BY <1>4, <2>4
    <3>3. active'[s] = {JobOf(u) : u \in TaskOf(s)}'
      BY <1>5, <2>1, <2>2, <2>3, <2>6, <3>1, <3>2
    <3>4. /\ IsFiniteSet(active'[s]) /\ Cardinality(active'[s]) <= Cardinality(active[s]) + 1
          /\ Cardinality(active[s]) \in Nat /\ Cardinality(active'[s]) \in Nat
      <4>1. active'[s] = active[s] \union {j}
        BY <1>5, <2>6
      <4>2. IsFiniteSet(active[s])
        BY <2>1
      <4>3. /\ IsFiniteSet(active[s] \union {j})
            /\ Cardinality(active[s] \union {j})
                  = IF j \in active[s] THEN Cardinality(active[s])
                    ELSE Cardinality(active[s]) + 1
        BY <4>2, FS_AddElement
      <4>4. Cardinality(active[s]) \in Nat /\ Cardinality(active[s] \union {j}) \in Nat
        BY <4>2, <4>3, FS_CardinalityType
      <4> QED
        BY <4>1, <4>3, <4>4
    <3>5. hand[s] # NoJob /\ hand'[s] = NoJob
      BY <1>1, <1>5, <2>6
    <3> QED
      BY <2>1, <3>3, <3>4, <3>5
  <2> QED
    BY <2>5, <2>6
<1>15. Reaped'
  <2>1. \A s \in Runners : \A i \in batch[s] : i \in Jobs /\ i # j
    <3>1. lease[j] = "none"
      BY <1>6 DEF Only
    <3> QED
      BY <3>1 DEF IInv, TypeOK, EngineTypeOK, Reaped
  <2> QED
    BY <1>2, <1>5, <1>8, <1>9, <2>1 DEF IInv, Reaped, Reaping
<1> QED
  BY <1>12, <1>13, <1>14, <1>15 DEF IInv

\* The main loop does no more while nobody is asked to stop.
LEMMA MainLoopInv ==
    ASSUME OnlyCrash, IInv, TypeOK', NEW r \in Runners, MainLoop(r) \/ PopLost(r),
           UNCHANGED <<promo, pub>>
    PROVE  IInv'
<1>1. ~PopLost(r) /\ ~SubmitRejected(r)
  BY Fault DEF PopLost, SubmitRejected, IInv, Tidy
<1> QED
  BY <1>1, PopInv, TrackInv DEF MainLoop

-----------------------------------------------------------------------------
(* Steps that move no id.                                                  *)

\* What a step at the clock or the heartbeat leaves alone.
LEMMA Stays ==
    ASSUME IInv, TypeOK',
           UNCHANGED <<rows, queue, sched, phase, hand, active, task, reaper, batch, promo, pub>>
    PROVE  /\ Tidy' /\ Dict'
           /\ \A i \in Jobs : (lease'[i] = lease[i]) => Same(i)
           /\ \A i \in Jobs : /\ Positions(i)' = Positions(i) /\ Hands(i)' = Hands(i)
                              /\ Futures(i)' = Futures(i) /\ Reapers(i)' = Reapers(i)
<1>1. \A i \in Jobs : /\ Positions(i)' = Positions(i) /\ Hands(i)' = Hands(i)
                      /\ Futures(i)' = Futures(i) /\ Reapers(i)' = Reapers(i)
  BY DEF Positions, Hands, Futures, Reapers
<1>2. \A i \in Jobs : (lease'[i] = lease[i]) => Same(i)
  BY <1>1 DEF Same
<1>3. \A s \in Runners : {JobOf(u) : u \in TaskOf(s)}' = {JobOf(u) : u \in TaskOf(s)}
  BY DEF JobOf, TaskOf
<1>4. Tidy' /\ Dict'
  BY <1>3 DEF IInv, Tidy, Dict
<1> QED
  BY <1>1, <1>2, <1>4

\* The invariant does not see the rest.
LEMMA StaysInv ==
    ASSUME IInv, TypeOK', UNCHANGED lease,
           UNCHANGED <<rows, queue, sched, phase, hand, active, task, reaper, batch, promo, pub>>,
           \A r \in Runners : Reaping(r) => reapLock' = reapLock
    PROVE  IInv'
<1>1. Places'
  BY Stays, SamePlace DEF IInv, Places
<1>2. Reaped'
  BY Stays DEF IInv, Reaped, Reaping, TypeOK, EngineTypeOK
<1> QED
  BY <1>1, <1>2, Stays DEF IInv

\* The heartbeat touches what a future works on, whose lease is fresh.
LEMMA HeartbeatInv ==
    ASSUME OnlyCrash, IInv, TypeOK', NEW r \in Runners, Heartbeat(r), UNCHANGED <<promo, pub>>
    PROVE  IInv'
<1>1. CASE SnapshotActive(r) \/ EndPass(r)
  BY <1>1, StaysInv DEF SnapshotActive, EndPass, storeVars
<1>2. CASE TouchActive(r)
  <2>1. PICK j \in Jobs : Touch(j) /\ ~Released(r, j)
    <3>1. PICK j \in touching[r] : Touch(j) /\ (Released(r, j) => Spend("lateTouch"))
      BY <1>2 DEF TouchActive
    <3> QED
      BY <3>1, Fault DEF IInv, TypeOK, EngineTypeOK
  <2>2. PICK t \in Futures(j) : task[t].pc \notin {"account", "done"}
    BY <2>1 DEF Released, Futures, JobOf
  <2>3. lease[j] = "fresh"
    BY <2>2, AtFuture DEF IInv, Places, FutureFits, At
  <2>4. UNCHANGED lease
    BY <2>1, <2>3 DEF Touch, IInv, TypeOK, StoreTypeOK
  <2> QED
    BY <1>2, <2>4, StaysInv DEF TouchActive
<1> QED
  BY <1>1, <1>2 DEF Heartbeat
\* The lease of a job no live engine works on grows stale.
LEMMA LeaseAgesInv ==
    ASSUME OnlyCrash, IInv, TypeOK', NEW j \in Jobs, LeaseAges(j), UNCHANGED <<promo, pub>>
    PROVE  IInv'
<1>1. /\ lease[j] = "fresh" /\ lease'[j] = "stale" /\ \A i \in Jobs \ {j} : lease'[i] = lease[i]
      /\ UNCHANGED <<rows, queue, sched, phase, hand, active, task, reaper, batch, promo, pub>>
      /\ UNCHANGED reapLock
  BY DEF LeaseAges, engineVars, IInv, TypeOK, StoreTypeOK
<1>2. ~KeptFresh(j)
  BY Fault DEF LeaseAges
<1>3. Futures(j) = {}
  <2> SUFFICES ASSUME NEW t \in Futures(j) PROVE FALSE
    OBVIOUS
  <2>1. t \in Tasks /\ task[t].job = j /\ task[t].pc # "free"
    BY DEF Futures, IInv, Tidy, NoTask
  <2>2. task[t].runner \in Runners /\ phase[task[t].runner] = "up"
    BY <2>1 DEF IInv, TypeOK, EngineTypeOK, TaskTypeOK, Tidy
  <2>3. t \in TaskOf(task[t].runner) /\ JobOf(t) = j
    BY <2>1 DEF TaskOf, JobOf
  <2>4. j \in active[task[t].runner]
    BY <2>2, <2>3 DEF IInv, Dict
  <2> QED
    BY <1>2, <2>2, <2>4 DEF KeptFresh
<1>4. Reapers(j) = {}
  BY <1>1, AtReaper DEF IInv, Places, ReaperFits, Only
<1>5. Only(j, {"lease"}) /\ ~Is(j, {"absent"})
  BY <1>1, <1>3, <1>4, AtLease DEF IInv, Places
<1>6. Place(j)'
  BY <1>1, <1>5, Stays DEF Place, Only, Is
<1>7. Places'
  BY <1>1, <1>6, Stays, OneMoves DEF IInv
<1>8. Reaped'
  <2>1. \A s \in Runners : \A i \in batch[s] : i \in Jobs /\ i # j
    BY <1>1 DEF IInv, TypeOK, EngineTypeOK, Reaped
  <2> QED
    BY <1>1, <2>1, Stays DEF IInv, Reaped, Reaping
<1> QED
  BY <1>1, <1>7, <1>8, Stays DEF IInv

\* The clock: the lock of a reaper that is through, an expires_at.
LEMMA ClockInv ==
    ASSUME OnlyCrash, IInv, TypeOK', UNCHANGED <<promo, pub>>,
           \/ ReapLockExpires
           \/ \E j \in Jobs : BecomeOverdue(j) /\ UNCHANGED engineVars
    PROVE  IInv'
<1>1. CASE ReapLockExpires
  <2>1. ~Reaping(reapLock) /\ reapLock \in Runners
    BY <1>1, Fault DEF ReapLockExpires, IInv, TypeOK, EngineTypeOK
  <2>2. \A r \in Runners : ~Reaping(r)
    BY <2>1 DEF IInv, Reaped
  <2> QED
    BY <1>1, <2>2, StaysInv DEF ReapLockExpires
<1>2. CASE \E j \in Jobs : BecomeOverdue(j) /\ UNCHANGED engineVars
  BY <1>2, StaysInv DEF BecomeOverdue, engineVars
<1> QED
  BY <1>1, <1>2

-----------------------------------------------------------------------------
(* The reaper.                                                             *)

\* A reaper goes on with job j, to x or to the next entry.
ReapsOn(r, j, x) ==
    /\ r \in Runners /\ j \in Jobs /\ Reaping(r) /\ Reapers(j) \subseteq {r}
    /\ reaper[r] = IdleReaper \/ reaper[r].job = j
    /\ x = IdleReaper \/ (x.job = j /\ x.pc # "idle")
    /\ reaper' = [reaper EXCEPT ![r] = x]
    /\ UNCHANGED <<phase, hand, active, task, reapLock, promo, pub>>
    /\ \A s \in Runners : batch'[s] \subseteq batch[s] /\ j \notin batch'[s]
    /\ \A i \in Jobs \ {j} : /\ rows'[i] = rows[i] /\ lease'[i] = lease[i]
                             /\ sched'[i] = sched[i] /\ Positions(i)' = Positions(i)

\* Then everything but that job stays where it is.
LEMMA ReapFrame ==
    ASSUME IInv, NEW r, NEW j, NEW x, ReapsOn(r, j, x)
    PROVE  /\ reaper'[r] = x /\ \A s \in Runners : s # r => reaper'[s] = reaper[s]
           /\ \A i \in Jobs : Hands(i)' = Hands(i) /\ Futures(i)' = Futures(i)
           /\ \A i \in Jobs \ {j} : Reapers(i)' = Reapers(i) /\ r \notin Reapers(i)
           /\ Reapers(j)' = IF x = IdleReaper THEN {} ELSE {r}
<1>1. reaper'[r] = x /\ \A s \in Runners : s # r => reaper'[s] = reaper[s]
  BY DEF ReapsOn, IInv, TypeOK, EngineTypeOK, ReaperTypeOK
<1>2. \A i \in Jobs : Hands(i)' = Hands(i) /\ Futures(i)' = Futures(i)
  BY DEF ReapsOn, Hands, Futures
<1>3. IdleReaper.job \notin Jobs
  BY DEF IdleReaper
<1>4. \A i \in Jobs \ {j} : Reapers(i)' = Reapers(i) /\ r \notin Reapers(i)
  BY <1>1, <1>3 DEF ReapsOn, Reapers
<1>5. Reapers(j)' = IF x = IdleReaper THEN {} ELSE {r}
  <2>1. \A s \in Runners : s # r => reaper'[s].job # j
    BY <1>1 DEF ReapsOn, Reapers
  <2>2. Reapers(j)' = {s \in Runners : reaper'[s].job = j}
    BY DEF Reapers
  <2>3. (reaper'[r].job = j) <=> (x # IdleReaper)
    BY <1>1, <1>3 DEF ReapsOn
  <2> QED
    BY <2>1, <2>2, <2>3 DEF ReapsOn
<1> QED
  BY <1>1, <1>2, <1>4, <1>5

\* ... and what is left to show is that the job is somewhere.
LEMMA ReapsOnInv ==
    ASSUME IInv, TypeOK', NEW r \in Runners, NEW j \in Jobs, NEW x, ReapsOn(r, j, x), Place(j)'
    PROVE  IInv'
<1>1. /\ reaper'[r] = x /\ \A s \in Runners : s # r => reaper'[s] = reaper[s]
      /\ \A i \in Jobs : Hands(i)' = Hands(i) /\ Futures(i)' = Futures(i)
      /\ \A i \in Jobs \ {j} : Reapers(i)' = Reapers(i) /\ r \notin Reapers(i)
  BY ReapFrame
<1>2. ASSUME NEW i \in Jobs \ {j} PROVE Same(i)
  <2>1. \A s \in Reapers(i) : reaper'[s] = reaper[s]
    BY <1>1 DEF Reapers
  <2> QED
    BY <1>1, <2>1 DEF Same, ReapsOn
<1>3. Places'
  BY <1>2, OneMoves DEF IInv
<1>4. Tidy'
  <2>1. phase[r] = "up"
    BY DEF ReapsOn, Reaping, IInv, Tidy, TypeOK, EngineTypeOK
  <2>2. \A s \in Runners : batch[s] = {} => batch'[s] = {}
    BY DEF ReapsOn
  <2>3. x.pc = "idle" => x = IdleReaper
    BY DEF ReapsOn
  <2>4. UNCHANGED <<phase, hand, task>>
    BY DEF ReapsOn
  <2> QED
    BY <1>1, <2>1, <2>2, <2>3, <2>4 DEF IInv, Tidy
<1>5. Dict'
  <2>1. UNCHANGED <<active, hand, task>>
    BY DEF ReapsOn
  <2>2. \A s \in Runners : {JobOf(u) : u \in TaskOf(s)}' = {JobOf(u) : u \in TaskOf(s)}
    BY <2>1 DEF JobOf, TaskOf
  <2> QED
    BY <2>1, <2>2 DEF IInv, Dict
<1>6. Reaped'
  <2>1. \A s \in Runners : Reaping(s)' => reapLock' = s
    <3>1. \A s \in Runners : Reaping(s)' => Reaping(s)
      BY <1>1 DEF ReapsOn, Reaping
    <3> QED
      BY <3>1 DEF ReapsOn, IInv, Reaped
  <2>2. \A s \in Runners : \A i \in batch'[s] : i \in batch[s] /\ i \in Jobs \ {j}
    BY DEF ReapsOn, IInv, TypeOK, EngineTypeOK
  <2>3. \A i \in Jobs \ {j} : lease'[i] = lease[i]
    BY DEF ReapsOn
  <2> QED
    BY <1>1, <2>1, <2>2, <2>3 DEF IInv, Reaped
<1> QED
  BY <1>3, <1>4, <1>5, <1>6 DEF IInv

\* A reaper in the middle of an entry is alone with the job.
LEMMA ReapHas ==
    ASSUME IInv, NEW r \in Runners, reaper[r].pc # "idle"
    PROVE  \E j \in Jobs :
              /\ j = reaper[r].job /\ Reapers(j) = {r} /\ ReaperFits(j, r)
              /\ Reaping(r) /\ \A s \in Runners : j \notin batch[s]
<1>1. PICK j \in Jobs : j = reaper[r].job
  BY DEF IInv, TypeOK, EngineTypeOK, ReaperTypeOK
<1>2. r \in Reapers(j)
  BY <1>1 DEF Reapers
<1>3. Reapers(j) = {r} /\ ReaperFits(j, r)
  BY <1>2, AtReaper DEF IInv, Places
<1>4. \A s \in Runners : j \notin batch[s]
  BY <1>3 DEF IInv, Reaped
<1> QED
  BY <1>1, <1>3, <1>4 DEF Reaping
\* The lock and the fetch.
LEMMA ReapFetchInv ==
    ASSUME IInv, TypeOK', NEW r \in Runners, ReapFetch(r), UNCHANGED <<promo, pub>>
    PROVE  IInv'
<1>1. /\ phase[r] = "up" /\ reapLock = NoRunner /\ reapLock' = r /\ batch'[r] = StaleJobs
      /\ \A s \in Runners \ {r} : batch'[s] = batch[s]
      /\ UNCHANGED <<rows, queue, lease, sched, phase, hand, active, task, reaper, promo, pub>>
  BY DEF ReapFetch, storeVars, IInv, TypeOK, EngineTypeOK
<1>2. \A s \in Runners : reaper[s].pc = "idle" /\ reaper[s] = IdleReaper /\ batch[s] = {}
  BY <1>1 DEF IInv, Reaped, Reaping, Tidy
<1>3. \A i \in Jobs : Same(i)
  BY <1>1 DEF Same, Positions, Hands, Futures, Reapers
<1>4. Places'
  BY <1>3, SamePlace DEF IInv, Places
<1>5. Tidy'
  BY <1>1 DEF IInv, Tidy
<1>6. Dict'
  <2>1. \A s \in Runners : {JobOf(u) : u \in TaskOf(s)}' = {JobOf(u) : u \in TaskOf(s)}
    BY <1>1 DEF JobOf, TaskOf
  <2> QED
    BY <1>1, <2>1 DEF IInv, Dict
<1>7. Reaped'
  <2>1. \A j \in StaleJobs : lease[j] = "stale" /\ Futures(j) = {} /\ Reapers(j) = {}
    <3> SUFFICES ASSUME NEW j \in StaleJobs
                 PROVE  lease[j] = "stale" /\ Futures(j) = {} /\ Reapers(j) = {}
      OBVIOUS
    <3>1. j \in Jobs /\ lease[j] = "stale"
      BY DEF StaleJobs
    <3>2. Reapers(j) = {}
      BY <1>2, <3>1 DEF Reapers, IdleReaper
    <3>3. Futures(j) = {}
      BY <3>1, AtFuture DEF IInv, Places, FutureFits, Only
    <3> QED
      BY <3>1, <3>2, <3>3
  <2>2. \A i \in Jobs : lease'[i] = lease[i] /\ Futures(i)' = Futures(i)
                        /\ Reapers(i)' = Reapers(i)
    BY <1>3 DEF Same
  <2>3. \A s \in Runners : \A j \in batch'[s] : s = r /\ j \in StaleJobs /\ j \in Jobs
    BY <1>1, <1>2 DEF StaleJobs
  <2>4. \A s \in Runners : Reaping(s)' => s = r
    BY <1>1, <1>2 DEF Reaping
  <2> QED
    BY <1>1, <2>1, <2>2, <2>3, <2>4 DEF Reaped
<1> QED
  BY <1>4, <1>5, <1>6, <1>7 DEF IInv

\* The read: what the verdict is drawn from holds of a job that is nowhere
\* but in the in-flight ZSET.
LEMMA ReapReadInv ==
    ASSUME IInv, TypeOK', NEW r \in Runners, ReapRead(r), UNCHANGED <<promo, pub>>
    PROVE  IInv'
<1>1. PICK j \in batch[r] :
         /\ batch' = [batch EXCEPT ![r] = @ \ {j}]
         /\ reaper' = [reaper EXCEPT ![r] = [pc |-> Verdict(j), job |-> j]]
  BY DEF ReapRead
<1>2. /\ j \in Jobs /\ reaper[r] = IdleReaper
      /\ lease[j] = "stale" /\ Futures(j) = {} /\ Reapers(j) = {}
  BY DEF ReapRead, ReapAt, IInv, TypeOK, EngineTypeOK, Tidy, Reaped
<1>3. PICK x : x = [pc |-> Verdict(j), job |-> j]
  OBVIOUS
<1>4. x.pc = Verdict(j) /\ x.job = j /\ x.pc # "idle" /\ x # IdleReaper
  BY <1>3 DEF Verdict, IdleReaper
<1>5. Reaping(r)
  BY <1>1 DEF Reaping
<1>6. \A s \in Runners : batch'[s] \subseteq batch[s] /\ j \notin batch'[s]
  <2>1. \A s \in Runners \ {r} : j \notin batch[s]
    BY <1>5 DEF IInv, Reaped, Reaping
  <2> QED
    BY <1>1, <2>1 DEF IInv, TypeOK, EngineTypeOK
<1>7. \A i \in Jobs : Positions(i)' = Positions(i)
  BY DEF ReapRead, storeVars, Positions
<1>8. ReapsOn(r, j, x)
  BY <1>1, <1>2, <1>3, <1>4, <1>5, <1>6, <1>7 DEF ReapsOn, ReapRead, storeVars
<1>9. Only(j, {"lease"}) /\ ~Is(j, {"absent"})
  BY <1>2, AtLease DEF IInv, Places
<1>10. /\ reaper'[r] = x /\ Reapers(j)' = {r} /\ Hands(j)' = Hands(j) /\ Futures(j)' = Futures(j)
       /\ UNCHANGED <<rows, lease, sched, promo, pub>>
  BY <1>2, <1>4, <1>8, ReapFrame DEF ReapRead, storeVars
<1>11. lease'[j] = "stale" /\ Only(j, {"lease", "reaper"})'
  BY <1>2, <1>7, <1>9, <1>10 DEF Only
<1>12. ReaperFits(j, r)'
  <2>1. /\ Is(j, Terminal) => x.pc = "drop"
        /\ Is(j, {"pending", "running"}) \/ Is(j, Terminal)
    BY <1>2, <1>4, <1>9 DEF Is, Verdict, IInv, TypeOK, StoreTypeOK, Row, Status
  <2>2. Is(j, {"pending", "running"}) =>
           \/ x.pc = "expire"
           \/ x.pc = "fail" /\ ~Retryable(j)
           \/ x.pc = "reset" /\ Is(j, {"running"}) /\ Retryable(j)
           \/ x.pc = "requeue" /\ Is(j, {"pending"})
    BY <1>4 DEF Is, Verdict, Terminal
  <2>3. \A p : ReapAt(r, p)' <=> x.pc = p
    BY <1>10 DEF ReapAt
  <2>4. (Retryable(j)' <=> Retryable(j)) /\ \A s : Is(j, s)' <=> Is(j, s)
    BY <1>10 DEF Retryable, Is
  <2> QED
    BY <1>11, <2>1, <2>2, <2>3, <2>4 DEF ReaperFits
<1>13. Place(j)'
  BY <1>10, <1>12 DEF Place
<1> QED
  BY <1>2, <1>8, <1>13, ReapsOnInv

\* A move of the reaper within an entry.
LEMMA ReapGotoInv ==
    ASSUME IInv, TypeOK', NEW r \in Runners, NEW pc \in ReaperPC \ {"idle"},
           reaper[r].pc # "idle", ReapGoto(r, pc), OnlyReaper,
           UNCHANGED <<queue, sched, promo, pub>>,
           \A i \in Jobs : i # reaper[r].job => rows'[i] = rows[i] /\ lease'[i] = lease[i],
           \A j \in Jobs :
              /\ j = reaper[r].job /\ ReaperFits(j, r)
              /\ \A p : ReapAt(r, p)' <=> p = pc
              /\ pub'[j] = pub[j] /\ promo'[j] = promo[j] /\ sched'[j] = sched[j]
              /\ Positions(j)' = Positions(j) /\ Hands(j)' = Hands(j)
              /\ Futures(j)' = Futures(j) /\ Reapers(j)' = {r}
              => ReaperFits(j, r)'
    PROVE  IInv'
<1>1. PICK j \in Jobs :
         /\ j = reaper[r].job /\ Reapers(j) = {r} /\ ReaperFits(j, r)
         /\ Reaping(r) /\ \A s \in Runners : j \notin batch[s]
  BY ReapHas
<1>2. PICK x : x = [reaper[r] EXCEPT !.pc = pc]
  OBVIOUS
<1>3. reaper[r] \in [pc : ReaperPC, job : Jobs \union {NoJob}]
  BY DEF IInv, TypeOK, EngineTypeOK, ReaperTypeOK
<1>4. x.pc = pc /\ x.job = j
  BY <1>1, <1>2, <1>3
<1>5. reaper' = [reaper EXCEPT ![r] = x]
  BY <1>2 DEF ReapGoto, IInv, TypeOK, EngineTypeOK, ReaperTypeOK
<1>6. \A i \in Jobs : Positions(i)' = Positions(i)
  BY DEF Positions
<1>7. ReapsOn(r, j, x)
  BY <1>1, <1>4, <1>5, <1>6 DEF ReapsOn, OnlyReaper
<1>8. x # IdleReaper
  BY <1>4 DEF IdleReaper
<1>9. /\ reaper'[r] = x /\ Reapers(j)' = {r} /\ Hands(j)' = Hands(j) /\ Futures(j)' = Futures(j)
  BY <1>7, <1>8, ReapFrame
<1>10. \A p : ReapAt(r, p)' <=> p = pc
  BY <1>4, <1>9 DEF ReapAt
<1>11. ReaperFits(j, r)'
  BY <1>1, <1>6, <1>9, <1>10
<1>12. Place(j)'
  BY <1>9, <1>11 DEF Place
<1> QED
  BY <1>7, <1>12, ReapsOnInv

\* The last step of an entry.
LEMMA ReapEndInv ==
    ASSUME IInv, TypeOK', NEW r \in Runners, reaper[r].pc # "idle", ReapNext(r), OnlyReaper,
           UNCHANGED <<sched, promo, pub>>,
           \A i \in Jobs : i # reaper[r].job =>
              rows'[i] = rows[i] /\ lease'[i] = lease[i] /\ Positions(i)' = Positions(i),
           \A j \in Jobs :
              /\ j = reaper[r].job /\ ReaperFits(j, r)
              /\ pub'[j] = pub[j] /\ promo'[j] = promo[j] /\ sched'[j] = sched[j]
              /\ Hands(j)' = Hands(j) /\ Futures(j)' = Futures(j) /\ Reapers(j)' = {}
              => Place(j)'
    PROVE  IInv'
<1>1. PICK j \in Jobs :
         /\ j = reaper[r].job /\ Reapers(j) = {r} /\ ReaperFits(j, r)
         /\ Reaping(r) /\ \A s \in Runners : j \notin batch[s]
  BY ReapHas
<1>2. PICK x : x = IdleReaper
  OBVIOUS
<1>3. ReapsOn(r, j, x)
  <2>1. \A i \in Jobs \ {j} : /\ rows'[i] = rows[i] /\ lease'[i] = lease[i]
                             /\ sched'[i] = sched[i] /\ Positions(i)' = Positions(i)
    BY <1>1
  <2>2. \A s \in Runners : batch'[s] \subseteq batch[s] /\ j \notin batch'[s]
    BY <1>1 DEF OnlyReaper
  <2>3. UNCHANGED <<phase, hand, active, task, reapLock, promo, pub>>
    BY DEF OnlyReaper
  <2>4. reaper' = [reaper EXCEPT ![r] = x]
    BY <1>2 DEF ReapNext
  <2> QED
    BY <1>1, <1>2, <2>1, <2>2, <2>3, <2>4 DEF ReapsOn
<1>4. Reapers(j)' = {} /\ Hands(j)' = Hands(j) /\ Futures(j)' = Futures(j)
  BY <1>2, <1>3, ReapFrame
<1>5. Place(j)'
  BY <1>1, <1>4
<1> QED
  BY <1>3, <1>5, ReapsOnInv
\* The other steps of a reaper.
LEMMA ReapInv ==
    ASSUME OnlyCrash, IInv, TypeOK', NEW r \in Runners, Reap(r) \/ ReapFails(r),
           UNCHANGED <<promo, pub>>
    PROVE  IInv'
<1>1. /\ reaper[r] \in [pc : ReaperPC, job : Jobs \union {NoJob}]
      /\ reaper[r].pc # "idle" => reaper[r].job \in Jobs
      /\ rows \in [Jobs -> Row] /\ queue \in Seq(Jobs)
      /\ lease \in [Jobs -> {"none", "fresh", "stale"}]
  BY DEF IInv, TypeOK, StoreTypeOK, EngineTypeOK, ReaperTypeOK
<1>2. {"drop", "expire", "expireSave", "fail", "failSave", "reset", "requeue", "push"}
         = ReaperPC \ {"idle"}
  BY DEF ReaperPC
<1>3. CASE ReapFails(r)
  BY <1>3, Fault DEF ReapFails, ReapPushFails, ReapReadFails, ReapSaveFails
<1>4. ASSUME NEW from, NEW to \in ReaperPC \ {"idle"}, from # "idle", ReapRemove(r, from, to)
      PROVE  /\ reaper[r].pc = from /\ reaper[r].pc # "idle"
             /\ lease'[reaper[r].job] = "none"
             /\ \A i \in Jobs : i # reaper[r].job => lease'[i] = lease[i]
             /\ ReapGoto(r, to) /\ OnlyReaper /\ UNCHANGED <<rows, queue, sched>>
  BY <1>1, <1>4, Fault DEF ReapRemove, Zrem, RemoveFromProcessing, ReapAt
<1>5. CASE ReapFetch(r) \/ ReapRead(r)
  BY <1>5, ReapFetchInv, ReapReadInv
<1>6. CASE ReapDrop(r)
  <2>1. /\ reaper[r].pc = "drop" /\ ReapNext(r) /\ OnlyReaper /\ UNCHANGED <<rows, queue, sched>>
        /\ lease'[reaper[r].job] = "none"
        /\ \A i \in Jobs : i # reaper[r].job => lease'[i] = lease[i]
    BY <1>1, <1>6, Fault DEF ReapDrop, Zrem, RemoveFromProcessing, ReapAt
  <2>2. \A i \in Jobs : Positions(i)' = Positions(i)
    BY <2>1 DEF Positions
  <2>3. ASSUME NEW j \in Jobs, j = reaper[r].job, ReaperFits(j, r),
               pub'[j] = pub[j], promo'[j] = promo[j], sched'[j] = sched[j],
               Hands(j)' = Hands(j), Futures(j)' = Futures(j), Reapers(j)' = {}
        PROVE  Place(j)'
    <3>1. Only(j, {"lease", "reaper"}) /\ Is(j, Terminal)
      BY <2>1, <2>3 DEF ReaperFits, ReapAt
    <3>2. Only(j, {})' /\ Is(j, Terminal)'
      BY <2>1, <2>2, <2>3, <3>1 DEF Only, Is
    <3> QED
      BY <3>2 DEF Place, Is
  <2> QED
    BY <2>1, <2>2, <2>3, ReapEndInv
<1>7. CASE ReapExpireRemove(r)
  <2>1. ReapRemove(r, "expire", "expireSave")
    BY <1>7 DEF ReapExpireRemove
  <2>2. ASSUME NEW j \in Jobs, j = reaper[r].job, ReaperFits(j, r),
               \A p : ReapAt(r, p)' <=> p = "expireSave",
               pub'[j] = pub[j], promo'[j] = promo[j], sched'[j] = sched[j],
               Positions(j)' = Positions(j), Hands(j)' = Hands(j),
               Futures(j)' = Futures(j), Reapers(j)' = {r}
        PROVE  ReaperFits(j, r)'
    BY <1>2, <1>4, <2>1, <2>2 DEF ReaperFits, ReapAt, Only, Is
  <2> QED
    BY <1>2, <1>4, <2>1, <2>2, ReapGotoInv
<1>8. CASE ReapFailRemove(r)
  <2>1. ReapRemove(r, "fail", "failSave")
    BY <1>8 DEF ReapFailRemove
  <2>2. ASSUME NEW j \in Jobs, j = reaper[r].job, ReaperFits(j, r),
               \A p : ReapAt(r, p)' <=> p = "failSave",
               pub'[j] = pub[j], promo'[j] = promo[j], sched'[j] = sched[j],
               Positions(j)' = Positions(j), Hands(j)' = Hands(j),
               Futures(j)' = Futures(j), Reapers(j)' = {r}
        PROVE  ReaperFits(j, r)'
    BY <1>2, <1>4, <2>1, <2>2 DEF ReaperFits, ReapAt, Only, Is, Retryable
  <2> QED
    BY <1>2, <1>4, <2>1, <2>2, ReapGotoInv
<1>9. CASE ReapRequeueRemove(r)
  <2>1. ReapRemove(r, "requeue", "push")
    BY <1>9 DEF ReapRequeueRemove
  <2>2. ASSUME NEW j \in Jobs, j = reaper[r].job, ReaperFits(j, r),
               \A p : ReapAt(r, p)' <=> p = "push",
               pub'[j] = pub[j], promo'[j] = promo[j], sched'[j] = sched[j],
               Positions(j)' = Positions(j), Hands(j)' = Hands(j),
               Futures(j)' = Futures(j), Reapers(j)' = {r}
        PROVE  ReaperFits(j, r)'
    BY <1>2, <1>4, <2>1, <2>2 DEF ReaperFits, ReapAt, Only, Is
  <2> QED
    BY <1>2, <1>4, <2>1, <2>2, ReapGotoInv
<1>10. CASE ReapExpireSave(r) \/ ReapFailSave(r)
  <2>1. /\ reaper[r].pc \in {"expireSave", "failSave"} /\ ReapNext(r) /\ OnlyReaper
        /\ UNCHANGED <<queue, lease, sched>>
        /\ rows'[reaper[r].job].status \in {"expired", "failed"}
        /\ \A i \in Jobs : i # reaper[r].job => rows'[i] = rows[i]
    BY <1>1, <1>10, Saved, Fault DEF ReapExpireSave, ReapFailSave, ReapRecord, ReapAt
  <2>2. \A i \in Jobs : Positions(i)' = Positions(i)
    BY <2>1 DEF Positions
  <2>3. ASSUME NEW j \in Jobs, j = reaper[r].job, ReaperFits(j, r),
               pub'[j] = pub[j], promo'[j] = promo[j], sched'[j] = sched[j],
               Hands(j)' = Hands(j), Futures(j)' = Futures(j), Reapers(j)' = {}
        PROVE  Place(j)'
    <3>1. Only(j, {"reaper"})
      BY <2>1, <2>3 DEF ReaperFits, ReapAt
    <3>2. Only(j, {})' /\ Is(j, Terminal)'
      BY <2>1, <2>2, <2>3, <3>1 DEF Only, Is, Terminal
    <3> QED
      BY <3>2 DEF Place, Is
  <2> QED
    BY <2>1, <2>2, <2>3, ReapEndInv
<1>11. CASE ReapReset(r)
  <2>1. /\ reaper[r].pc = "reset" /\ ReapGoto(r, "requeue") /\ OnlyReaper
        /\ UNCHANGED <<queue, lease, sched>>
        /\ rows'[reaper[r].job].status = "pending"
        /\ \A i \in Jobs : i # reaper[r].job => rows'[i] = rows[i]
    BY <1>1, <1>11 DEF ReapReset, ReapAt, Row
  <2>2. ASSUME NEW j \in Jobs, j = reaper[r].job, ReaperFits(j, r),
               \A p : ReapAt(r, p)' <=> p = "requeue",
               pub'[j] = pub[j], promo'[j] = promo[j], sched'[j] = sched[j],
               Positions(j)' = Positions(j), Hands(j)' = Hands(j),
               Futures(j)' = Futures(j), Reapers(j)' = {r}
        PROVE  ReaperFits(j, r)'
    BY <2>1, <2>2 DEF ReaperFits, ReapAt, Only, Is
  <2> QED
    BY <1>2, <2>1, <2>2, ReapGotoInv
<1>12. CASE ReapResetLost(r)
  <2>1. PICK j \in Jobs : j = reaper[r].job /\ ReaperFits(j, r)
    BY <1>12, ReapHas DEF ReapResetLost, ReapAt
  <2> QED
    BY <1>12, <2>1 DEF ReapResetLost, ReapAt, ReaperFits, Is
<1>13. CASE ReapPush(r)
  <2>1. PICK k \in Jobs : k = reaper[r].job /\ reaper[r].pc = "push"
    BY <1>1, <1>13 DEF ReapPush, ReapAt
  <2>2. ReapNext(r) /\ OnlyReaper /\ UNCHANGED <<rows, lease, sched>> /\ Push(k)
    BY <1>13, <2>1, Fault DEF ReapPush, ReapRecord
  <2>3. /\ Positions(k)' = Positions(k) \union {Len(queue) + 1}
        /\ \A i \in Jobs : i # k => Positions(i)' = Positions(i)
    BY <1>1, <2>2, Pushed
  <2>4. ASSUME NEW j \in Jobs, j = reaper[r].job, ReaperFits(j, r),
               pub'[j] = pub[j], promo'[j] = promo[j], sched'[j] = sched[j],
               Hands(j)' = Hands(j), Futures(j)' = Futures(j), Reapers(j)' = {}
        PROVE  Place(j)'
    <3>1. Only(j, {"reaper"}) /\ Is(j, {"pending"}) /\ j = k
      BY <2>1, <2>4 DEF ReaperFits, ReapAt
    <3>2. Positions(j)' = {Len(queue) + 1}
      BY <2>3, <3>1 DEF Only
    <3>3. Only(j, {"queue"})' /\ Is(j, {"pending"})'
      BY <2>2, <2>4, <3>1 DEF Only, Is
    <3> QED
      BY <3>2, <3>3 DEF Place
  <2> QED
    BY <2>1, <2>2, <2>3, <2>4, ReapEndInv
<1> QED
  BY <1>3, <1>5, <1>6, <1>7, <1>8, <1>9, <1>10, <1>11, <1>12, <1>13 DEF Reap
-----------------------------------------------------------------------------
(* The processes.                                                          *)

\* A crash between two moves of a job leaves its lease, or nothing to do.
LEMMA CrashInv ==
    ASSUME OnlyCrash, IInv, TypeOK', NEW r \in Runners, Crash(r), UNCHANGED <<promo, pub>>
    PROVE  IInv'
<1>1. /\ phase[r] # "down" /\ hand[r] = NoJob
      /\ reaper[r].pc \notin {"push", "expireSave", "failSave"}
      /\ \A t \in Tasks : task[t].runner = r => ~At(t, "scheduled")
  BY Fault DEF Crash, InWindow, InBoth, ReaperMoves, TaskOf
<1>2. /\ phase'[r] = "down" /\ \A s \in Runners : s # r => phase'[s] = phase[s]
      /\ hand'[r] = NoJob /\ \A s \in Runners : s # r => hand'[s] = hand[s]
      /\ active'[r] = {} /\ \A s \in Runners : s # r => active'[s] = active[s]
      /\ reaper'[r] = IdleReaper /\ \A s \in Runners : s # r => reaper'[s] = reaper[s]
      /\ batch'[r] = {} /\ \A s \in Runners : s # r => batch'[s] = batch[s]
      /\ \A t \in Tasks : task[t].runner = r => task'[t] = NoTask
      /\ \A t \in Tasks : task[t].runner # r => task'[t] = task[t]
      /\ UNCHANGED <<rows, queue, lease, sched, reapLock>>
  BY DEF Crash, Halt, TaskOf, IInv, TypeOK, EngineTypeOK, ReaperTypeOK
<1>3. /\ NoTask.job \notin Jobs /\ NoTask.pc = "free" /\ NoTask.runner \notin Runners
      /\ IdleReaper.job \notin Jobs /\ IdleReaper.pc = "idle"
  BY DEF NoTask, IdleReaper
<1>4. ASSUME NEW i \in Jobs
      PROVE  /\ Positions(i)' = Positions(i) /\ Hands(i)' = Hands(i)
             /\ Futures(i)' = {t \in Futures(i) : task[t].runner # r}
             /\ Reapers(i)' = Reapers(i) \ {r}
  <2>1. Positions(i)' = Positions(i)
    BY <1>2 DEF Positions
  <2>2. Hands(i)' = Hands(i)
    BY <1>1, <1>2 DEF Hands
  <2>3. Futures(i)' = {t \in Futures(i) : task[t].runner # r}
    BY <1>2, <1>3 DEF Futures
  <2>4. Reapers(i)' = Reapers(i) \ {r}
    BY <1>2, <1>3 DEF Reapers
  <2> QED
    BY <2>1, <2>2, <2>3, <2>4
<1>5. Places'
  <2> SUFFICES ASSUME NEW i \in Jobs PROVE Place(i)'
    BY DEF Places
  <2>1. CASE \E t \in Futures(i) : task[t].runner = r
    <3>1. PICK t \in Futures(i) : task[t].runner = r
      BY <2>1
    <3>2. Futures(i) = {t} /\ FutureFits(i, t) /\ t \in Tasks
      BY <3>1, AtFuture DEF IInv, Places, Futures
    <3>3. \/ lease[i] = "fresh" /\ Only(i, {"task", "lease"}) /\ ~Is(i, {"absent"})
          \/ Only(i, {"task"}) /\ Is(i, Terminal)
          \/ Only(i, {"task", "sched"}) /\ Is(i, {"pending"}) /\ Delays(i, {"waiting"})
      <4>1. ~At(t, "scheduled")
        BY <1>1, <3>1, <3>2
      <4> QED
        BY <3>2, <4>1 DEF FutureFits, Is, Terminal
    <3>4. Futures(i)' = {}
      BY <1>4, <3>1, <3>2
    <3>5. UNCHANGED <<rows, lease, sched, promo, pub>>
      BY <1>2
    <3>6. \A s : (Is(i, s)' <=> Is(i, s)) /\ (Delays(i, s)' <=> Delays(i, s))
      BY <3>5 DEF Is, Delays
    <3>7. Only(i, {"task", "lease"}) => Only(i, {"lease"})'
      BY <1>4, <3>4, <3>5 DEF Only
    <3>8. Only(i, {"task"}) => Only(i, {})'
      BY <1>4, <3>4, <3>5 DEF Only
    <3>9. Only(i, {"task", "sched"}) => Only(i, {"sched"})'
      BY <1>4, <3>4, <3>5 DEF Only
    <3>10. Delays(i, {"waiting"}) => Delays(i, {"waiting", "due"})
      BY DEF Delays
    <3>11. Is(i, Terminal) => Is(i, Terminal \union {"absent"})
      BY DEF Is
    <3> QED
      BY <3>3, <3>5, <3>6, <3>7, <3>8, <3>9, <3>10, <3>11 DEF Place
  <2>2. CASE r \in Reapers(i)
    <3>1. Reapers(i) = {r} /\ ReaperFits(i, r)
      BY <2>2, AtReaper DEF IInv, Places
    <3>2. lease[i] = "stale" /\ Only(i, {"lease", "reaper"}) /\ ~Is(i, {"absent"})
      BY <1>1, <3>1 DEF ReaperFits, ReapAt, Is, Terminal
    <3>3. Futures(i)' = {} /\ Reapers(i)' = {}
      BY <1>4, <3>1, <3>2 DEF Only
    <3>4. Only(i, {"lease"})' /\ lease'[i] # "none" /\ ~Is(i, {"absent"})'
      BY <1>2, <1>4, <3>2, <3>3 DEF Only, Is
    <3> QED
      BY <3>4 DEF Place
  <2>3. CASE r \notin Reapers(i) /\ \A t \in Futures(i) : task[t].runner # r
    <3>1. Futures(i)' = Futures(i) /\ Reapers(i)' = Reapers(i)
      BY <1>4, <2>3
    <3>2. \A t \in Futures(i) : t \in Tasks /\ task'[t] = task[t]
      BY <1>2, <2>3 DEF Futures
    <3>3. \A s \in Reapers(i) : s \in Runners /\ reaper'[s] = reaper[s]
      BY <1>2, <2>3 DEF Reapers
    <3>4. Same(i)
      BY <1>2, <1>4, <3>1, <3>2, <3>3 DEF Same
    <3> QED
      BY <3>4, SamePlace DEF IInv, Places
  <2> QED
    BY <2>1, <2>2, <2>3
<1>6. Tidy'
  <2>1. \A t \in Tasks : task[t].pc # "free" => task[t].runner \in Runners
    BY DEF IInv, TypeOK, EngineTypeOK, TaskTypeOK
  <2> QED
    BY <1>2, <1>3, <2>1 DEF IInv, Tidy
<1>7. Dict'
  <2> SUFFICES ASSUME NEW s \in Runners
               PROVE  /\ active'[s] = {JobOf(u) : u \in TaskOf(s)}'
                      /\ IsFiniteSet(active'[s])
                      /\ Cardinality(active'[s]) + (IF hand'[s] # NoJob THEN 1 ELSE 0)
                            <= MaxWorkers
    BY DEF Dict
  <2>1. /\ active[s] = {JobOf(u) : u \in TaskOf(s)} /\ IsFiniteSet(active[s])
        /\ Cardinality(active[s]) + (IF hand[s] # NoJob THEN 1 ELSE 0) <= MaxWorkers
    BY DEF IInv, Dict
  <2>2. {JobOf(u) : u \in TaskOf(s)}' = {task'[u].job : u \in {v \in Tasks : task'[v].runner = s}}
    BY DEF JobOf, TaskOf
  <2>3. {JobOf(u) : u \in TaskOf(s)} = {task[u].job : u \in {v \in Tasks : task[v].runner = s}}
    BY DEF JobOf, TaskOf
  <2>4. CASE s # r
    <3>1. {v \in Tasks : task'[v].runner = s} = {v \in Tasks : task[v].runner = s}
      BY <1>2, <1>3, <2>4
    <3>2. \A v \in Tasks : task[v].runner = s => task'[v].job = task[v].job
      BY <1>2, <2>4
    <3>3. {task'[u].job : u \in {v \in Tasks : task[v].runner = s}}
             = {task[u].job : u \in {v \in Tasks : task[v].runner = s}}
      BY <3>2
    <3> QED
      BY <1>2, <2>1, <2>2, <2>3, <2>4, <3>1, <3>3
  <2>5. CASE s = r
    <3>1. {v \in Tasks : task'[v].runner = s} = {}
      BY <1>2, <1>3, <2>5
    <3>2. active'[s] = {JobOf(u) : u \in TaskOf(s)}'
      BY <1>2, <2>2, <2>5, <3>1
    <3>3. IsFiniteSet(active'[s]) /\ Cardinality(active'[s]) = 0
      BY <1>2, <2>5, FS_EmptySet
    <3> QED
      BY <1>2, <2>5, <3>2, <3>3
  <2> QED
    BY <2>4, <2>5
<1>8. Reaped'
  <2>1. \A s \in Runners : Reaping(s)' => Reaping(s) /\ s # r
    BY <1>2, <1>3 DEF Reaping
  <2>2. \A s \in Runners : \A i \in batch'[s] : i \in Jobs /\ i \in batch[s]
    BY <1>2 DEF IInv, TypeOK, EngineTypeOK
  <2>3. \A i \in Jobs : /\ Futures(i) = {} => Futures(i)' = {}
                        /\ Reapers(i) = {} => Reapers(i)' = {}
    BY <1>4
  <2> QED
    BY <1>2, <2>1, <2>2, <2>3 DEF IInv, Reaped
<1> QED
  BY <1>5, <1>6, <1>7, <1>8 DEF IInv

\* A process that comes back finds nothing of its own.
LEMMA LifecycleInv ==
    ASSUME OnlyCrash, IInv, TypeOK', NEW r \in Runners, Lifecycle(r), UNCHANGED <<promo, pub>>
    PROVE  IInv'
<1>1. ~Stop(r) /\ ~Terminate(r) /\ ~Exit(r)
  BY Fault DEF Stop, Terminate, Exit, IInv, Tidy
<1>2. CASE Start(r)
  <2>1. /\ \A s \in Runners : phase[s] = "up" => phase'[s] = "up"
        /\ \A s \in Runners : s # r => phase'[s] = phase[s]
        /\ phase'[r] = "up"
        /\ UNCHANGED <<rows, queue, lease, sched, hand, active, task, reaper, batch, reapLock>>
    BY <1>2 DEF Start, storeVars, IInv, TypeOK, EngineTypeOK
  <2>2. \A i \in Jobs : Same(i)
    BY <2>1 DEF Same, Positions, Hands, Futures, Reapers
  <2>3. Places'
    BY <2>2, SamePlace DEF IInv, Places
  <2>4. Tidy'
    <3>1. \A t \in Tasks : task[t].pc # "free" => task[t].runner \in Runners
      BY DEF IInv, TypeOK, EngineTypeOK, TaskTypeOK
    <3> QED
      BY <2>1, <3>1 DEF IInv, Tidy
  <2>5. Dict'
    <3>1. \A s \in Runners : {JobOf(u) : u \in TaskOf(s)}' = {JobOf(u) : u \in TaskOf(s)}
      BY <2>1 DEF JobOf, TaskOf
    <3> QED
      BY <2>1, <3>1 DEF IInv, Dict
  <2>6. Reaped'
    BY <2>1, <2>2 DEF IInv, Reaped, Reaping, Same, TypeOK, EngineTypeOK
  <2> QED
    BY <2>3, <2>4, <2>5, <2>6 DEF IInv
<1> QED
  BY <1>1, <1>2, CrashInv DEF Lifecycle
-----------------------------------------------------------------------------
(* The scheduler, the publisher and the run_at.                            *)

\* They leave the engines alone.
LEMMA EnginesStay ==
    ASSUME IInv, UNCHANGED engineVars, UNCHANGED lease
    PROVE  /\ Tidy' /\ Dict' /\ Reaped'
           /\ \A i \in Jobs : /\ Hands(i)' = Hands(i) /\ Futures(i)' = Futures(i)
                              /\ Reapers(i)' = Reapers(i)
           /\ UNCHANGED <<hand, task, reaper>>
<1>1. \A i \in Jobs : /\ Hands(i)' = Hands(i) /\ Futures(i)' = Futures(i)
                      /\ Reapers(i)' = Reapers(i)
  BY DEF engineVars, Hands, Futures, Reapers
<1>2. \A s \in Runners : {JobOf(u) : u \in TaskOf(s)}' = {JobOf(u) : u \in TaskOf(s)}
  BY DEF engineVars, JobOf, TaskOf
<1>3. Tidy' /\ Dict'
  BY <1>2 DEF engineVars, IInv, Tidy, Dict
<1>4. \A s \in Runners : \A i \in batch[s] : i \in Jobs
  BY DEF IInv, TypeOK, EngineTypeOK
<1>5. Reaped'
  BY <1>1, <1>4 DEF engineVars, IInv, Reaped, Reaping
<1> QED
  BY <1>1, <1>3, <1>5 DEF engineVars

\* An entry may go from the ZSET to the scheduler and back.
LEMMA StillDelayed ==
    ASSUME NEW i \in Jobs, Place(i),
           UNCHANGED <<rows, queue, lease, pub, hand, task, reaper>>,
           sched[i] = "none" /\ promo[i] = "none" => sched'[i] = "none" /\ promo'[i] = "none",
           Delays(i, {"waiting"}) => Delays(i, {"waiting"})',
           Delays(i, {"waiting", "due"}) => Delays(i, {"waiting", "due"})'
    PROVE  Place(i)'
<1>1. ASSUME NEW sites PROVE Only(i, sites) => Only(i, sites)'
  BY DEF Only, Positions, Hands, Futures, Reapers
<1>2. /\ \A s : Is(i, s)' <=> Is(i, s)
      /\ Retryable(i)' <=> Retryable(i)
      /\ \A t, p : At(t, p)' <=> At(t, p)
      /\ \A r, p : ReapAt(r, p)' <=> ReapAt(r, p)
      /\ Positions(i)' = Positions(i) /\ Hands(i)' = Hands(i)
      /\ Futures(i)' = Futures(i) /\ Reapers(i)' = Reapers(i)
  BY DEF Is, Retryable, At, ReapAt, Positions, Hands, Futures, Reapers
<1>3. ASSUME NEW t \in Tasks, FutureFits(i, t) PROVE FutureFits(i, t)'
  BY <1>1, <1>2, <1>3 DEF FutureFits
<1>4. ASSUME NEW r \in Runners, ReaperFits(i, r) PROVE ReaperFits(i, r)'
  BY <1>1, <1>2, <1>4 DEF ReaperFits
<1> QED
  BY <1>1, <1>2, <1>3, <1>4 DEF Place

\* The scheduler.
LEMMA SchedulerInv ==
    ASSUME OnlyCrash, IInv, TypeOK', Scheduler
    PROVE  IInv'
<1>1. UNCHANGED <<engineVars, pub>> /\ UNCHANGED <<rows, lease>>
  BY Fault DEF Scheduler, SchedulerNext, PopScheduled, PopScheduledLost, AddBack,
     AddBackFails, SchedulerCrash, Promote, PromoteFails
<1>2. /\ UNCHANGED <<hand, task, reaper>>
      /\ Tidy' /\ Dict' /\ Reaped'
      /\ \A i \in Jobs : /\ Hands(i)' = Hands(i) /\ Futures(i)' = Futures(i)
                         /\ Reapers(i)' = Reapers(i)
  BY <1>1, EnginesStay
<1>3. sched \in [Jobs -> {"none", "waiting", "due"}]
      /\ promo \in [Jobs -> {"none", "waiting", "due", "readd"}]
  BY DEF IInv, TypeOK, StoreTypeOK, SchedulerTypeOK
<1>4. CASE PopScheduled
  <2> SUFFICES ASSUME NEW i \in Jobs PROVE Place(i)'
    BY <1>2 DEF IInv, Places
  <2>1. promo[i] = "none" /\ promo'[i] = sched[i] /\ sched'[i] = "none" /\ UNCHANGED queue
    BY <1>4 DEF PopScheduled, Holding
  <2>2. /\ Delays(i, {"waiting"}) => Delays(i, {"waiting"})'
        /\ Delays(i, {"waiting", "due"}) => Delays(i, {"waiting", "due"})'
    BY <2>1 DEF Delays
  <2> QED
    BY <1>1, <1>2, <2>1, <2>2, StillDelayed DEF IInv, Places
<1>5. CASE AddBack
  <2> SUFFICES ASSUME NEW i \in Jobs PROVE Place(i)'
    BY <1>2 DEF IInv, Places
  <2>1. /\ promo[i] # "due" /\ promo'[i] = "none" /\ UNCHANGED queue
        /\ promo[i] = "none" => sched'[i] = sched[i]
        /\ promo[i] = "waiting" => sched'[i] = "waiting"
    BY <1>5 DEF AddBack, NothingDue
  <2>2. /\ Delays(i, {"waiting"}) => Delays(i, {"waiting"})'
        /\ Delays(i, {"waiting", "due"}) => Delays(i, {"waiting", "due"})'
    BY <2>1 DEF Delays
  <2> QED
    BY <1>1, <1>2, <2>1, <2>2, StillDelayed DEF IInv, Places
<1>6. ASSUME NEW j \in Jobs, Promote(j) PROVE IInv'
  <2>1. /\ promo[j] = "due" /\ promo'[j] = "none" /\ UNCHANGED sched
        /\ \A i \in Jobs \ {j} : promo'[i] = promo[i]
    BY <1>3, <1>6 DEF Promote
  <2>2. /\ Positions(j)' = Positions(j) \union {Len(queue) + 1}
        /\ \A i \in Jobs : i # j => Positions(i)' = Positions(i)
    BY <1>6, Pushed DEF Promote, IInv, TypeOK, StoreTypeOK
  <2>3. Only(j, {"sched"}) /\ Is(j, {"pending"}) /\ sched[j] = "none"
    BY <2>1, AtSched DEF IInv, Places, Delays
  <2>4. Positions(j)' = {Len(queue) + 1}
    BY <2>2, <2>3 DEF Only
  <2>5. Only(j, {"queue"})' /\ Is(j, {"pending"})'
    BY <1>1, <1>2, <2>1, <2>3 DEF Only, Is
  <2>6. Place(j)'
    BY <2>4, <2>5 DEF Place
  <2>7. \A i \in Jobs \ {j} : Same(i)
    BY <1>1, <1>2, <2>1, <2>2 DEF Same
  <2> QED
    BY <1>2, <2>6, <2>7, OneMoves DEF IInv
<1> QED
  BY <1>4, <1>5, <1>6, Fault DEF Scheduler, SchedulerNext, PopScheduledLost, AddBackFails,
     SchedulerCrash, PromoteFails

\* The publisher.
LEMMA PublisherInv ==
    ASSUME OnlyCrash, IInv, TypeOK', Publisher
    PROVE  IInv'
<1>1. PICK j \in Jobs : Publish(j) \/ Mirror(j)
  BY Fault DEF Publisher, PublisherNext, Republish, MirrorFails, PublisherCrash
<1>2. UNCHANGED <<engineVars, promo>> /\ UNCHANGED lease
  BY <1>1 DEF Publisher, Publish, Mirror
<1>3. /\ UNCHANGED <<hand, task, reaper>>
      /\ Tidy' /\ Dict' /\ Reaped'
      /\ \A i \in Jobs : /\ Hands(i)' = Hands(i) /\ Futures(i)' = Futures(i)
                         /\ Reapers(i)' = Reapers(i)
  BY <1>2, EnginesStay
<1>4. /\ rows \in [Jobs -> Row] /\ queue \in Seq(Jobs) /\ pub \in [Jobs -> Nat]
      /\ sched \in [Jobs -> {"none", "waiting", "due"}]
  BY DEF IInv, TypeOK, StoreTypeOK, PublisherTypeOK
<1>5. CASE Publish(j)
  <2>1. /\ rows[j].status = "absent" /\ rows'[j].status = "pending"
        /\ \A i \in Jobs \ {j} : rows'[i] = rows[i] /\ pub'[i] = pub[i]
        /\ pub'[j] = pub[j] + 1 /\ UNCHANGED <<queue, sched>>
    BY <1>4, <1>5, Saved DEF Publish
  <2>2. \A i \in Jobs : Positions(i)' = Positions(i)
    BY <2>1 DEF Positions
  <2>3. Only(j, {}) /\ pub[j] = 0
    BY <2>1, AtNone DEF IInv, Places, Is, Only
  <2>4. Only(j, {"pub"})' /\ Is(j, {"pending"})' /\ pub'[j] = 1
    BY <1>2, <1>3, <2>1, <2>2, <2>3 DEF Only, Is
  <2>5. Place(j)'
    BY <2>4 DEF Place
  <2>6. \A i \in Jobs \ {j} : Same(i)
    BY <1>2, <1>3, <2>1, <2>2 DEF Same
  <2> QED
    BY <1>3, <2>5, <2>6, OneMoves DEF IInv
<1>6. CASE Mirror(j)
  <2>1. /\ pub[j] > 0 /\ pub'[j] = pub[j] - 1 /\ Write(j) /\ UNCHANGED rows
        /\ \A i \in Jobs \ {j} : pub'[i] = pub[i]
    BY <1>4, <1>6 DEF Mirror
  <2>2. Only(j, {"pub"}) /\ Is(j, {"pending"}) /\ pub[j] = 1
    BY <1>4, <2>1, AtPub DEF IInv, Places
  <2>3. pub'[j] = 0 /\ Is(j, {"pending"})'
    BY <2>1, <2>2 DEF Is
  <2>4. CASE Push(j) /\ UNCHANGED sched
    <3>1. /\ Positions(j)' = Positions(j) \union {Len(queue) + 1}
          /\ \A i \in Jobs : i # j => Positions(i)' = Positions(i)
      BY <1>4, <2>4, Pushed
    <3>2. Positions(j)' = {Len(queue) + 1} /\ Only(j, {"queue"})'
      BY <1>2, <1>3, <2>2, <2>3, <2>4, <3>1 DEF Only
    <3>3. Place(j)'
      BY <2>3, <3>2 DEF Place
    <3>4. \A i \in Jobs \ {j} : Same(i)
      BY <1>2, <1>3, <2>1, <2>4, <3>1 DEF Same
    <3> QED
      BY <1>3, <3>3, <3>4, OneMoves DEF IInv
  <2>5. CASE sched' = [sched EXCEPT ![j] = "waiting"] /\ UNCHANGED queue
    <3>1. sched'[j] = "waiting" /\ \A i \in Jobs \ {j} : sched'[i] = sched[i]
      BY <1>4, <2>5
    <3>2. \A i \in Jobs : Positions(i)' = Positions(i)
      BY <2>5 DEF Positions
    <3>3. Only(j, {"sched"})' /\ Delays(j, {"waiting", "due"})'
      BY <1>2, <1>3, <2>2, <2>3, <3>1, <3>2 DEF Only, Delays
    <3>4. Place(j)'
      BY <2>3, <3>3 DEF Place
    <3>5. \A i \in Jobs \ {j} : Same(i)
      BY <1>2, <1>3, <2>1, <3>1, <3>2 DEF Same
    <3> QED
      BY <1>3, <3>4, <3>5, OneMoves DEF IInv
  <2> QED
    BY <2>1, <2>4, <2>5 DEF Write
<1> QED
  BY <1>1, <1>5, <1>6

\* A run_at that passes: no engine is still about to remove the lease.
LEMMA RunAtInv ==
    ASSUME OnlyCrash, IInv, TypeOK', NEW j \in Jobs, RunAtPasses(j)
    PROVE  IInv'
<1>1. /\ sched[j] = "waiting" /\ sched'[j] = "due" /\ \A i \in Jobs \ {j} : sched'[i] = sched[i]
      /\ UNCHANGED <<rows, queue, lease, promo, pub>> /\ UNCHANGED engineVars
  BY DEF RunAtPasses, BecomeDue, IInv, TypeOK, StoreTypeOK
<1>2. /\ UNCHANGED <<hand, task, reaper>>
      /\ Tidy' /\ Dict' /\ Reaped'
      /\ \A i \in Jobs : /\ Hands(i)' = Hands(i) /\ Futures(i)' = Futures(i)
                         /\ Reapers(i)' = Reapers(i)
  BY <1>1, EnginesStay
<1>3. ~BackingOff(j)
  BY Fault DEF RunAtPasses
<1>4. Only(j, {"sched"}) /\ Is(j, {"pending"}) /\ promo[j] = "none"
  <2>1. \A t \in Futures(j) : ~At(t, "scheduled") /\ ~At(t, "done")
    BY <1>3 DEF BackingOff, Futures, JobOf, At
  <2> QED
    BY <1>1, <2>1, AtSched DEF IInv, Places, Delays
<1>5. \A i \in Jobs : Positions(i)' = Positions(i)
  BY <1>1 DEF Positions
<1>6. Only(j, {"sched"})' /\ Is(j, {"pending"})' /\ Delays(j, {"waiting", "due"})'
  BY <1>1, <1>2, <1>4, <1>5 DEF Only, Is, Delays
<1>7. Place(j)'
  BY <1>6 DEF Place
<1>8. \A i \in Jobs \ {j} : Same(i)
  BY <1>1, <1>2, <1>5 DEF Same
<1> QED
  BY <1>2, <1>7, <1>8, OneMoves DEF IInv
-----------------------------------------------------------------------------
(* The invariant is one.                                                   *)

\* Nothing is published yet.
LEMMA InitInv == Init => IInv
<1> SUFFICES ASSUME Init PROVE IInv
  OBVIOUS
<1>1. TypeOK
  BY InitType
<1>2. /\ queue = <<>> /\ used = 0
      /\ \A j \in Jobs : /\ rows[j].status = "absent" /\ lease[j] = "none" /\ sched[j] = "none"
                         /\ promo[j] = "none" /\ pub[j] = 0
      /\ \A t \in Tasks : task[t] = NoTask
      /\ \A r \in Runners : /\ phase[r] = "up" /\ hand[r] = NoJob /\ active[r] = {}
                            /\ reaper[r] = IdleReaper /\ batch[r] = {}
  BY DEF Init, StoreInit, EngineInit, SchedulerInit, PublisherInit
<1>3. /\ NoTask.job = NoJob /\ NoTask.runner = NoRunner /\ NoTask.pc = "free"
      /\ IdleReaper.job = NoJob /\ IdleReaper.pc = "idle"
  BY DEF NoTask, IdleReaper
<1>4. Places
  <2> SUFFICES ASSUME NEW j \in Jobs PROVE Place(j)
    BY DEF Places
  <2>1. Positions(j) = {} /\ Hands(j) = {} /\ Futures(j) = {} /\ Reapers(j) = {}
    BY <1>2, <1>3 DEF Positions, Hands, Futures, Reapers
  <2> QED
    BY <1>2, <2>1 DEF Place, Only, Is
<1>5. Tidy
  BY <1>2, <1>3 DEF Tidy
<1>6. Dict
  <2> SUFFICES ASSUME NEW r \in Runners
               PROVE  /\ active[r] = {JobOf(t) : t \in TaskOf(r)}
                      /\ IsFiniteSet(active[r])
                      /\ Cardinality(active[r]) + (IF hand[r] # NoJob THEN 1 ELSE 0)
                            <= MaxWorkers
    BY DEF Dict
  <2>1. TaskOf(r) = {}
    BY <1>2, <1>3 DEF TaskOf
  <2>2. active[r] = {} /\ hand[r] = NoJob
    BY <1>2
  <2> QED
    BY <2>1, <2>2, FS_EmptySet
<1>7. Reaped
  BY <1>2, <1>3 DEF Reaped, Reaping
<1> QED
  BY <1>1, <1>4, <1>5, <1>6, <1>7 DEF IInv

\* Every step keeps it.
LEMMA StepInv ==
    ASSUME OnlyCrash, IInv, [Next]_vars
    PROVE  IInv'
<1>1. TypeOK'
  BY NextType DEF IInv
<1>2. CASE Engine
  <2>1. UNCHANGED <<promo, pub>>
    BY <1>2 DEF Engine
  <2>2. ASSUME NEW r \in Runners,
               \/ MainLoop(r) \/ PopLost(r) \/ Heartbeat(r)
               \/ Reap(r) \/ ReapFails(r) \/ Lifecycle(r)
        PROVE  IInv'
    BY <1>1, <2>1, <2>2, MainLoopInv, HeartbeatInv, ReapInv, LifecycleInv
  <2>3. ASSUME NEW t \in Tasks, Work(t) \/ WorkFails(t) PROVE IInv'
    BY <1>1, <2>1, <2>3, WorkInv, CompletedInv
  <2>4. ASSUME NEW j \in Jobs, LeaseAges(j) PROVE IInv'
    BY <1>1, <2>1, <2>4, LeaseAgesInv
  <2>5. ASSUME ReapLockExpires PROVE IInv'
    BY <1>1, <2>1, <2>5, ClockInv
  <2> QED
    BY <1>2, <2>2, <2>3, <2>4, <2>5 DEF Engine, EngineNext
<1>3. CASE Clock
  <2>1. ASSUME NEW j \in Jobs, ExpiryPasses(j) PROVE IInv'
    BY <1>1, <2>1, ClockInv DEF ExpiryPasses
  <2> QED
    BY <1>1, <1>3, <2>1, RunAtInv DEF Clock
<1>4. CASE UNCHANGED vars
  <2>1. UNCHANGED <<engineVars, lease, promo, pub, rows, queue, sched>>
    BY <1>4 DEF vars, storeVars
  <2> QED
    BY <1>1, <2>1, StaysInv DEF engineVars
<1> QED
  BY <1>1, <1>2, <1>3, <1>4, SchedulerInv, PublisherInv DEF Next

\* While engines crash between two moves of a job and nothing else fails, its
\* id is in one place and its row fits the place.
THEOREM Invariant == ASSUME OnlyCrash PROVE Spec => []IInv
<1>1. Init => IInv
  BY InitInv
<1>2. OnlyCrash /\ IInv /\ [Next]_vars => IInv'
  BY StepInv
<1> QED
  BY <1>1, <1>2, PTL DEF Spec
-----------------------------------------------------------------------------
(* What follows from it.                                                   *)

\* Two futures never hold one job: a job in the hands of a future is nowhere
\* else, so no second claim of it can be under way.
LEMMA Exclusive == IInv => ExclusiveExecution
<1> SUFFICES ASSUME IInv, NEW t \in Tasks, NEW u \in Tasks, Holds(t), Holds(u),
                    JobOf(t) = JobOf(u)
             PROVE  t = u
  BY DEF ExclusiveExecution
<1>1. PICK j \in Jobs : j = JobOf(t)
  BY DEF Holds, JobOf, IInv, TypeOK, EngineTypeOK, TaskTypeOK
<1>2. t \in Futures(j) /\ u \in Futures(j)
  BY <1>1 DEF Futures, JobOf
<1> QED
  BY <1>2, AtFuture DEF IInv, Places

\* One execution of a job at a time, through every crash and every reaper pass.
THEOREM ExclusiveHolds == ASSUME OnlyCrash PROVE Spec => []ExclusiveExecution
BY Invariant, Exclusive, PTL

\* The future that executes a job executes the attempt it claimed.
LEMMA OwnOne == IInv => OwnAttempt
<1> SUFFICES ASSUME IInv, NEW t \in Tasks, At(t, "run") \/ At(t, "save")
             PROVE  task[t].ran = task[t].att
  BY DEF OwnAttempt, At
<1>1. PICK j \in Jobs : j = task[t].job
  BY DEF At, IInv, TypeOK, EngineTypeOK, TaskTypeOK
<1>2. t \in Futures(j)
  BY <1>1 DEF Futures
<1>3. FutureFits(j, t)
  BY <1>2, AtFuture DEF IInv, Places
<1> QED
  BY <1>3 DEF FutureFits, At

\* Between a claim and the refresh that reads its attempt back, through every
\* crash and every reaper pass, nobody else claims the job.
THEOREM OwnAttemptHolds == ASSUME OnlyCrash PROVE Spec => []OwnAttempt
BY Invariant, OwnOne, PTL

\* An engine has no more futures than jobs in its dict, and keeps these and
\* the id in hand within its workers.
LEMMA Overclaim == IInv => NoOverclaim
<1> SUFFICES ASSUME IInv, NEW r \in Runners
             PROVE  Cardinality(TaskOf(r)) + (IF hand[r] # NoJob THEN 1 ELSE 0) <= MaxWorkers
  BY DEF NoOverclaim
<1>1. /\ active[r] = {JobOf(t) : t \in TaskOf(r)} /\ IsFiniteSet(active[r])
      /\ Cardinality(active[r]) + (IF hand[r] # NoJob THEN 1 ELSE 0) <= MaxWorkers
  BY DEF IInv, Dict
<1> DEFINE f == [t \in TaskOf(r) |-> JobOf(t)]
<1>2. \A t, u \in TaskOf(r) : JobOf(t) = JobOf(u) => t = u
  <2> SUFFICES ASSUME NEW t \in TaskOf(r), NEW u \in TaskOf(r), JobOf(t) = JobOf(u)
               PROVE  t = u
    OBVIOUS
  <2>1. JobOf(t) \in active[r] /\ active[r] \in SUBSET Jobs
    BY <1>1 DEF IInv, TypeOK, EngineTypeOK
  <2>2. PICK j \in Jobs : j = JobOf(t)
    BY <2>1
  <2>3. t \in Futures(j) /\ u \in Futures(j)
    BY <2>2 DEF Futures, JobOf, TaskOf
  <2> QED
    BY <2>3, AtFuture DEF IInv, Places
<1>3. f \in Injection(TaskOf(r), active[r])
  <2>1. f \in [TaskOf(r) -> active[r]]
    BY <1>1
  <2> QED
    BY <1>2, <2>1 DEF Injection, IsInjective
<1>4. IsFiniteSet(TaskOf(r)) /\ Cardinality(TaskOf(r)) <= Cardinality(active[r])
  BY <1>1, <1>3, FS_Injection
<1>5. Cardinality(TaskOf(r)) \in Nat /\ Cardinality(active[r]) \in Nat
  BY <1>1, <1>4, FS_CardinalityType
<1> QED
  BY <1>1, <1>4, <1>5

\* No engine claims more than it has workers for.
THEOREM OverclaimHolds == ASSUME OnlyCrash PROVE Spec => []NoOverclaim
BY Invariant, Overclaim, PTL

\* A pending row has its id somewhere.
LEMMA PendingSomewhere == IInv => PendingIsCarried
<1> SUFFICES ASSUME IInv, NEW j \in Jobs, Is(j, {"pending"}) PROVE Carried(j)
  BY DEF PendingIsCarried, Is
<1>1. Place(j)
  BY DEF IInv, Places
<1>2. ASSUME NEW t \in Tasks, Futures(j) = {t}, FutureFits(j, t) PROVE Carried(j)
  <2>1. \/ task[t].pc \in {"queued", "expire", "claim", "sched", "scheduled"}
        \/ sched[j] # "none" \/ promo[j] # "none"
    BY <1>2 DEF FutureFits, At, Is, Terminal, Delays
  <2>2. JobOf(t) = j
    BY <1>2 DEF Futures, JobOf
  <2> QED
    BY <2>1, <2>2 DEF Carried, InTask
<1>3. ASSUME NEW r \in Runners, Reapers(j) = {r}, ReaperFits(j, r) PROVE Carried(j)
  <2>1. reaper[r].pc \notin {"idle", "drop"}
    BY <1>3 DEF ReaperFits, ReapAt, Is, Terminal
  <2>2. reaper[r].job = j
    BY <1>3 DEF Reapers
  <2> QED
    BY <2>1, <2>2 DEF Carried, InReaper
<1>4. ASSUME NEW i \in Positions(j) PROVE Carried(j)
  BY <1>4 DEF Carried, InQueue, Positions
<1>5. ASSUME NEW r \in Runners, Hands(j) = {r} PROVE Carried(j)
  BY <1>5 DEF Carried, InHand, Hands
<1>6. ASSUME Delays(j, {"waiting", "due"}) \/ pub[j] = 1 \/ lease[j] # "none" PROVE Carried(j)
  BY <1>6 DEF Carried, Delays
<1> QED
  BY <1>1, <1>2, <1>3, <1>4, <1>5, <1>6 DEF Place, Is, Terminal

\* No pending job is forgotten.
THEOREM PendingHolds == ASSUME OnlyCrash PROVE Spec => []PendingIsCarried
BY Invariant, PendingSomewhere, PTL

\* A running row has a future, a reaper or a lease.
LEMMA RunningSomewhere == IInv => RunningIsRecoverable
<1> SUFFICES ASSUME IInv, NEW j \in Jobs, Is(j, {"running"})
             PROVE  \/ lease[j] # "none"
                    \/ InReaper(j)
                    \/ \E t \in Tasks : /\ JobOf(t) = j
                                        /\ task[t].pc \in {"refresh", "run", "save", "fail",
                                                           "retry", "giveup"}
  BY DEF RunningIsRecoverable, Is
<1>1. Place(j)
  BY DEF IInv, Places
<1>2. ASSUME NEW t \in Tasks, FutureFits(j, t) PROVE lease[j] # "none"
  BY <1>2 DEF FutureFits, Is, Terminal
<1>3. ASSUME NEW r \in Runners, Reapers(j) = {r}, ReaperFits(j, r) PROVE InReaper(j)
  <2>1. reaper[r].pc \notin {"idle", "drop"} /\ reaper[r].job = j
    BY <1>3 DEF ReaperFits, ReapAt, Is, Terminal, Reapers
  <2> QED
    BY <2>1 DEF InReaper
<1> QED
  BY <1>1, <1>2, <1>3 DEF Place, Is, Terminal

\* No running job is left behind by an engine that crashes.
THEOREM RunningHolds == ASSUME OnlyCrash PROVE Spec => []RunningIsRecoverable
BY Invariant, RunningSomewhere, PTL

\* While the entry of a retry is not due there is no second copy of the id.
LEMMA Waits == IInv => RetryWaits
<1> SUFFICES ASSUME IInv, NEW j \in Jobs, sched[j] = "waiting"
             PROVE  /\ ~InQueue(j) /\ ~InHand(j)
                    /\ \A t \in Tasks : JobOf(t) = j => task[t].pc \in {"scheduled", "done"}
  BY DEF RetryWaits
<1>1. Place(j)
  BY DEF IInv, Places
<1>2. Positions(j) = {} /\ Hands(j) = {}
  BY <1>1, AtQueue, AtHand DEF Only
<1>3. ~InQueue(j) /\ ~InHand(j)
  BY <1>2 DEF InQueue, InHand, Positions, Hands
<1>4. ASSUME NEW t \in Tasks, JobOf(t) = j PROVE task[t].pc \in {"scheduled", "done"}
  <2>1. t \in Futures(j)
    BY <1>4 DEF Futures, JobOf
  <2> QED
    BY <1>1, <2>1, AtSched DEF Only, At
<1> QED
  BY <1>3, <1>4

\* A retry waits its backoff out.
THEOREM WaitsHold == ASSUME OnlyCrash PROVE Spec => []RetryWaits
BY Invariant, Waits, PTL
-----------------------------------------------------------------------------
(* The rows implement the promise.                                         *)

\* What becomes of one row.
RowMoves(j) ==
    /\ rows'[j].attempt = rows[j].attempt
    /\ \/ rows[j].status = "absent" /\ rows'[j].status = "pending"
       \/ rows[j].status = "running" /\ rows'[j].status = "completed"
       \/ rows[j].status = "running" /\ rows'[j].status = "pending" /\ Retryable(j)
       \/ rows[j].status \in {"pending", "running"} /\ rows'[j].status = "failed" /\ ~Retryable(j)
       \/ rows[j].status \in {"pending", "running"} /\ rows'[j].status = "expired"

\* Or it is claimed.
RowClaimed(j) ==
    /\ rows[j].status = "pending" /\ rows'[j].status = "running"
    /\ rows'[j].attempt = rows[j].attempt + 1

OneRow ==
    \/ UNCHANGED rows
    \/ \E j \in Jobs : /\ RowMoves(j) \/ RowClaimed(j)
                       /\ \A i \in Jobs \ {j} : rows'[i] = rows[i]

\* A worker thread saves what its place in execute_job and the row allow.
LEMMA WorkRow ==
    ASSUME OnlyCrash, IInv, NEW t \in Tasks, Work(t) \/ WorkFails(t)
    PROVE  OneRow
<1>1. rows \in [Jobs -> Row]
  BY DEF IInv, TypeOK, StoreTypeOK
<1>2. CASE task[t].pc \notin {"expire", "claim", "save", "retry", "giveup"}
  <2>1. ~MarkExpired(t) /\ ~Claim(t) /\ ~SaveCompleted(t) /\ ~SaveRetry(t) /\ ~SaveFailed(t)
    BY <1>2 DEF MarkExpired, Claim, SaveCompleted, SaveRetry, SaveFailed, At
  <2>2. UNCHANGED rows
    BY <2>1 DEF Work, WorkFails, Load, ClaimLost, Refresh, HandlerReturns, HandlerRaises, Release,
       Account, ReadFailed, ScheduleRetry, Unlease, Completed, LoadFails, SaveRaises,
       AccountFails, HandlingRaises, storeVars
  <2> QED
    BY <2>2 DEF OneRow
<1>3. CASE task[t].pc \in {"expire", "claim", "save", "retry", "giveup"}
  <2>1. PICK j \in Jobs : j = task[t].job
    BY <1>3 DEF IInv, TypeOK, EngineTypeOK, TaskTypeOK
  <2>2. FutureFits(j, t)
    <3>1. t \in Futures(j)
      BY <2>1 DEF Futures
    <3> QED
      BY <3>1, AtFuture DEF IInv, Places
  <2>3. CASE MarkExpired(t)
    <3>1. /\ rows'[j].status = "expired" /\ rows'[j].attempt = rows[j].attempt
          /\ \A i \in Jobs : i # j => rows'[i] = rows[i]
      BY <1>1, <2>1, <2>3, Saved DEF MarkExpired, JobOf
    <3>2. rows[j].status = "pending"
      BY <2>2, <2>3 DEF MarkExpired, FutureFits, At, Is
    <3> QED
      BY <3>1, <3>2 DEF OneRow, RowMoves
  <2>4. CASE Claim(t)
    <3>1. /\ rows[j].status = "pending" /\ rows'[j].status = "running"
          /\ rows'[j].attempt = rows[j].attempt + 1
          /\ \A i \in Jobs : i # j => rows'[i] = rows[i]
      BY <1>1, <2>1, <2>4 DEF Claim, JobOf, Row
    <3> QED
      BY <3>1 DEF OneRow, RowClaimed
  <2>5. CASE SaveCompleted(t)
    <3>1. /\ rows'[j].status = "completed" /\ rows'[j].attempt = rows[j].attempt
          /\ \A i \in Jobs : i # j => rows'[i] = rows[i]
      BY <1>1, <2>1, <2>5, Saved DEF SaveCompleted, JobOf
    <3>2. rows[j].status = "running"
      BY <2>2, <2>5 DEF SaveCompleted, FutureFits, At, Is
    <3> QED
      BY <3>1, <3>2 DEF OneRow, RowMoves
  <2>6. CASE SaveRetry(t)
    <3>1. /\ rows'[j].status = "pending" /\ rows'[j].attempt = rows[j].attempt
          /\ \A i \in Jobs : i # j => rows'[i] = rows[i]
      BY <1>1, <2>1, <2>6, Saved DEF SaveRetry, JobOf
    <3>2. rows[j].status = "running" /\ Retryable(j)
      BY <2>2, <2>6 DEF SaveRetry, FutureFits, At, Is
    <3> QED
      BY <3>1, <3>2 DEF OneRow, RowMoves
  <2>7. CASE SaveFailed(t)
    <3>1. /\ rows'[j].status = "failed" /\ rows'[j].attempt = rows[j].attempt
          /\ \A i \in Jobs : i # j => rows'[i] = rows[i]
      BY <1>1, <2>1, <2>7, Saved DEF SaveFailed, JobOf
    <3>2. rows[j].status = "running" /\ ~Retryable(j)
      BY <2>2, <2>7 DEF SaveFailed, FutureFits, At, Is
    <3> QED
      BY <3>1, <3>2 DEF OneRow, RowMoves
  <2>8. ASSUME ~MarkExpired(t), ~Claim(t), ~SaveCompleted(t), ~SaveRetry(t), ~SaveFailed(t)
        PROVE  UNCHANGED rows
    BY <2>8 DEF Work, WorkFails, Load, ClaimLost, Refresh, HandlerReturns, HandlerRaises, Release,
       Account, ReadFailed, ScheduleRetry, Unlease, Completed, LoadFails, SaveRaises,
       AccountFails, HandlingRaises, storeVars
  <2> QED
    BY <2>3, <2>4, <2>5, <2>6, <2>7, <2>8 DEF OneRow
<1> QED
  BY <1>2, <1>3

\* A reaper saves what it has read, which still holds.
LEMMA ReapRow ==
    ASSUME OnlyCrash, IInv, NEW r \in Runners, Reap(r) \/ ReapFails(r)
    PROVE  OneRow
<1>1. rows \in [Jobs -> Row]
  BY DEF IInv, TypeOK, StoreTypeOK
<1>2. ASSUME reaper[r].pc # "idle"
      PROVE  \E j \in Jobs : j = reaper[r].job /\ ReaperFits(j, r)
  BY <1>2, ReapHas
<1>3. CASE ReapExpireSave(r)
  <2>1. PICK j \in Jobs : j = reaper[r].job /\ ReaperFits(j, r)
    BY <1>2, <1>3 DEF ReapExpireSave, ReapAt
  <2>2. /\ rows'[j].status = "expired" /\ rows'[j].attempt = rows[j].attempt
        /\ \A i \in Jobs : i # j => rows'[i] = rows[i]
    BY <1>1, <1>3, <2>1, Saved DEF ReapExpireSave
  <2>3. rows[j].status \in {"pending", "running"}
    BY <1>3, <2>1 DEF ReapExpireSave, ReaperFits, ReapAt, Is
  <2> QED
    BY <2>2, <2>3 DEF OneRow, RowMoves
<1>4. CASE ReapFailSave(r)
  <2>1. PICK j \in Jobs : j = reaper[r].job /\ ReaperFits(j, r)
    BY <1>2, <1>4 DEF ReapFailSave, ReapAt
  <2>2. /\ rows'[j].status = "failed" /\ rows'[j].attempt = rows[j].attempt
        /\ \A i \in Jobs : i # j => rows'[i] = rows[i]
    BY <1>1, <1>4, <2>1, Saved DEF ReapFailSave
  <2>3. rows[j].status \in {"pending", "running"} /\ ~Retryable(j)
    BY <1>4, <2>1 DEF ReapFailSave, ReaperFits, ReapAt, Is
  <2> QED
    BY <2>2, <2>3 DEF OneRow, RowMoves
<1>5. CASE ReapReset(r)
  <2>1. PICK j \in Jobs : j = reaper[r].job /\ ReaperFits(j, r)
    BY <1>2, <1>5 DEF ReapReset, ReapAt
  <2>2. /\ rows'[j].status = "pending" /\ rows'[j].attempt = rows[j].attempt
        /\ \A i \in Jobs : i # j => rows'[i] = rows[i]
    BY <1>1, <1>5, <2>1 DEF ReapReset, Row
  <2>3. rows[j].status = "running" /\ Retryable(j)
    BY <1>5, <2>1 DEF ReapReset, ReaperFits, ReapAt, Is
  <2> QED
    BY <2>2, <2>3 DEF OneRow, RowMoves
<1>6. ASSUME ~ReapExpireSave(r), ~ReapFailSave(r), ~ReapReset(r) PROVE UNCHANGED rows
  BY <1>6 DEF Reap, ReapFails, ReapFetch, ReapRead, ReapDrop, ReapExpireRemove, ReapFailRemove,
     ReapRequeueRemove, ReapRemove, ReapResetLost, ReapPush, ReapPushFails, ReapReadFails,
     ReapSaveFails, storeVars
<1> QED
  BY <1>3, <1>4, <1>5, <1>6 DEF OneRow

\* Nobody else but a publisher writes a row.
LEMMA StepRow ==
    ASSUME OnlyCrash, IInv, [Next]_vars
    PROVE  OneRow
<1>1. CASE Engine
  <2>1. ASSUME NEW r \in Runners,
               MainLoop(r) \/ PopLost(r) \/ Heartbeat(r) \/ Lifecycle(r)
        PROVE  UNCHANGED rows
    BY <2>1 DEF MainLoop, Pop, Track, SubmitRejected, PopLost, Heartbeat, SnapshotActive,
       TouchActive, EndPass, Lifecycle, Crash, Stop, Terminate, Exit, Start, Halt, storeVars
  <2>2. ASSUME (\E j \in Jobs : LeaseAges(j)) \/ ReapLockExpires PROVE UNCHANGED rows
    BY <2>2 DEF LeaseAges, ReapLockExpires
  <2> QED
    BY <1>1, <2>1, <2>2, WorkRow, ReapRow DEF Engine, EngineNext, OneRow
<1>2. CASE Scheduler
  <2>1. UNCHANGED rows
    BY <1>2 DEF Scheduler, SchedulerNext, PopScheduled, PopScheduledLost, AddBack, AddBackFails,
       SchedulerCrash, Promote, PromoteFails
  <2> QED
    BY <2>1 DEF OneRow
<1>3. CASE Publisher
  <2>1. PICK j \in Jobs : Publish(j) \/ Mirror(j)
    BY <1>3, Fault DEF Publisher, PublisherNext, Republish, MirrorFails, PublisherCrash
  <2>2. CASE Publish(j)
    <3>1. /\ rows[j].status = "absent" /\ rows'[j].status = "pending"
          /\ rows'[j].attempt = rows[j].attempt
          /\ \A i \in Jobs : i # j => rows'[i] = rows[i]
      BY <2>2, Saved DEF Publish, IInv, TypeOK, StoreTypeOK
    <3> QED
      BY <3>1 DEF OneRow, RowMoves
  <2> QED
    BY <2>1, <2>2 DEF Mirror, OneRow
<1>4. CASE Clock \/ UNCHANGED vars
  BY <1>4 DEF Clock, RunAtPasses, BecomeDue, ExpiryPasses, BecomeOverdue, vars, storeVars, OneRow
<1> QED
  BY <1>1, <1>2, <1>3, <1>4 DEF Next
\* A finished row is in none of the moves.
KeepsFinished ==
    \A j \in Jobs : rows[j].status \in Terminal => rows'[j].status = rows[j].status

\* So it stays as it is.
LEMMA StepKeepsFinished ==
    ASSUME OnlyCrash, IInv, [Next]_vars
    PROVE  KeepsFinished
<1>1. OneRow
  BY StepRow
<1> QED
  BY <1>1 DEF OneRow, RowMoves, RowClaimed, KeepsFinished, Terminal

\* A finished row stays finished: nobody saves over it from what it read
\* before.
THEOREM FinishedHolds == ASSUME OnlyCrash PROVE Spec => FinishedStaysFinished
<1>1. OnlyCrash /\ IInv /\ [Next]_vars => KeepsFinished
  BY StepKeepsFinished
<1>2. Spec => [][KeepsFinished]_vars
  BY <1>1, Invariant, PTL DEF Spec
<1> QED
  BY <1>2, PTL DEF FinishedStaysFinished, KeepsFinished

\* A step of the system is a step of one row, or none.
LEMMA StepOfRow ==
    ASSUME OnlyCrash, IInv, [Next]_vars
    PROVE  [Lifecycle1!Next]_(Lifecycle1!vars)
<1> DEFINE st == [j \in Jobs |-> rows[j].status]
           at == [j \in Jobs |-> rows[j].attempt]
<1>1. OneRow
  BY StepRow
<1>2. CASE UNCHANGED rows
  BY <1>2 DEF Lifecycle1!vars
<1>3. ASSUME NEW j \in Jobs, RowMoves(j) \/ RowClaimed(j),
             \A i \in Jobs \ {j} : rows'[i] = rows[i]
      PROVE  Lifecycle1!Next
  <2>1. st' = [st EXCEPT ![j] = rows'[j].status]
    BY <1>3
  <2>2. st[j] = rows[j].status /\ at[j] = rows[j].attempt
    OBVIOUS
  <2>3. (Retryable(j) <=> at[j] < MaxRetries[j])
    BY DEF Retryable
  <2>4. CASE RowClaimed(j)
    <3>1. at' = [at EXCEPT ![j] = at[j] + 1]
      BY <1>3, <2>4 DEF RowClaimed
    <3>2. st[j] = "pending" /\ rows'[j].status = "running"
      BY <2>2, <2>4 DEF RowClaimed
    <3> HIDE DEF st, at
    <3>3. st' = [st EXCEPT ![j] = "running"] /\ at' = [at EXCEPT ![j] = @ + 1]
      BY <2>1, <3>1, <3>2
    <3>4. Lifecycle1!Claim(j)
      BY <3>2, <3>3 DEF Lifecycle1!Claim, Lifecycle1!Move, st, at
    <3> QED
      BY <3>4 DEF Lifecycle1!Next
  <2>5. CASE RowMoves(j)
    <3>1. at' = at
      BY <1>3, <2>5 DEF RowMoves
    <3> HIDE DEF st, at
    <3>2. \A s : rows'[j].status = s => st' = [st EXCEPT ![j] = s]
      BY <2>1
    <3>3. CASE rows[j].status = "absent" /\ rows'[j].status = "pending"
      <4>1. Lifecycle1!Create(j)
        BY <2>2, <3>1, <3>2, <3>3 DEF Lifecycle1!Create, Lifecycle1!Move, st, at
      <4> QED
        BY <4>1 DEF Lifecycle1!Next
    <3>4. CASE rows[j].status = "running" /\ rows'[j].status = "completed"
      <4>1. Lifecycle1!Complete(j)
        BY <2>2, <3>1, <3>2, <3>4 DEF Lifecycle1!Complete, Lifecycle1!Move, st, at
      <4> QED
        BY <4>1 DEF Lifecycle1!Next
    <3>5. CASE rows[j].status = "running" /\ rows'[j].status = "pending" /\ Retryable(j)
      <4>1. Lifecycle1!Retry(j)
        BY <2>2, <2>3, <3>1, <3>2, <3>5
           DEF Lifecycle1!Retry, Lifecycle1!Retryable, Lifecycle1!Move, st, at
      <4> QED
        BY <4>1 DEF Lifecycle1!Next
    <3>6. CASE /\ rows[j].status \in {"pending", "running"}
               /\ rows'[j].status = "failed" /\ ~Retryable(j)
      <4>1. Lifecycle1!Fail(j)
        BY <2>2, <2>3, <3>1, <3>2, <3>6
           DEF Lifecycle1!Fail, Lifecycle1!Retryable, Lifecycle1!Move, st, at
      <4> QED
        BY <4>1 DEF Lifecycle1!Next
    <3>7. CASE rows[j].status \in {"pending", "running"} /\ rows'[j].status = "expired"
      <4>1. Lifecycle1!Expire(j)
        BY <2>2, <3>1, <3>2, <3>7 DEF Lifecycle1!Expire, Lifecycle1!Move, st, at
      <4> QED
        BY <4>1 DEF Lifecycle1!Next
    <3> QED
      BY <2>5, <3>3, <3>4, <3>5, <3>6, <3>7 DEF RowMoves
  <2> QED
    BY <1>3, <2>4, <2>5
<1> QED
  BY <1>1, <1>2, <1>3 DEF OneRow

\* The publisher, the scheduler and the engines together keep the promise made
\* of a row: only a claim counts an attempt, retries end, and what is finished
\* is left alone.
THEOREM PromiseHolds == ASSUME OnlyCrash PROVE Spec => Promise
<1>1. Init => Lifecycle1!Init
  BY DEF Init, StoreInit, Lifecycle1!Init
<1>2. OnlyCrash /\ IInv /\ [Next]_vars => [Lifecycle1!Next]_(Lifecycle1!vars)
  BY StepOfRow
<1> QED
  BY <1>1, <1>2, Invariant, PTL DEF Spec, Promise, Lifecycle1!Spec
=============================================================================
