------------------------- MODULE SchedulerLockProofs -------------------------
(***************************************************************************)
(* What holds of SchedulerLock for every set of schedulers and of jobs,    *)
(* whatever faults happen and however many.                                *)
(***************************************************************************)
EXTENDS SchedulerLock, FiniteSetTheorems, SequenceTheorems, TLAPS

USE StoreAssumption, LockAssumption

-----------------------------------------------------------------------------
(* The inductive invariant.                                                *)

\* Whoever does what a leader does has has_lock set, and entries are in memory
\* during a pass only.
Leading ==
    \A s \in Schedulers :
       /\ at[s] \in {"renew", "extend", "pass", "release", "delete"} => hasLock[s]
       /\ Held(s) # {} => at[s] = "pass"

\* Without an expiry between the GET and the DELETE of a release, the key is
\* its scheduler's until that one has looked or the key has expired.
KeyKept ==
    "lateDelete" \notin Faults =>
       \A s \in Schedulers :
          /\ hasLock[s] /\ s \notin lapsed => lock = s
          /\ at[s] = "delete" => lock = s

\* An entry is in the ZSET or in one memory.
Holders(j) == {s \in Schedulers : j \in Held(s)}
Spots(j) == {i \in 1..Len(queue) : queue[i] = j}
InSched(j) == IF sched[j] = "none" THEN 0 ELSE 1
Accounted ==
    \A j \in Jobs :
       /\ IsFiniteSet(Holders(j))
       /\ InSched(j) + Cardinality(Holders(j)) <= 1
       /\ Places(j) = copies[j]

IInv == TypeOK /\ Leading /\ KeyKept /\ Accounted

\* The initial states have it: no scheduler leads and nothing is scheduled.
LEMMA InitInv == Init => IInv
<1> SUFFICES ASSUME Init PROVE IInv
  OBVIOUS
<1> USE DEF Init, StoreInit
<1>1. TypeOK
  <2>1. StoreTypeOK
    BY DEF StoreTypeOK, Row, Status, Terminal
  <2> QED
    BY <2>1 DEF TypeOK, Empty
<1>2. Leading /\ KeyKept
  BY DEF Leading, KeyKept, Held, Empty
<1>3. Accounted
  <2> SUFFICES ASSUME NEW j \in Jobs
               PROVE  /\ IsFiniteSet(Holders(j))
                      /\ InSched(j) + Cardinality(Holders(j)) <= 1
                      /\ Places(j) = copies[j]
    BY DEF Accounted
  <2>1. Holders(j) = {} /\ Spots(j) = {} /\ InSched(j) = 0 /\ copies[j] = 0
    BY DEF Holders, Held, Empty, Spots, InSched
  <2> QED
    <3>1. Places(j) = InSched(j) + Cardinality(Holders(j)) + Cardinality(Spots(j))
      BY DEF Places, InSched, Holders, Spots
    <3> HIDE DEF Init, StoreInit
    <3> QED
      BY <2>1, <3>1, FS_EmptySet
<1> QED
  BY <1>1, <1>2, <1>3 DEF IInv

-----------------------------------------------------------------------------
(* Counting the places of an entry.                                        *)

Bit(b) == IF b THEN 1 ELSE 0

\* Places in the terms of the invariant.
LEMMA PlacesAre ==
    ASSUME NEW j \in Jobs
    PROVE  Places(j) = InSched(j) + Cardinality(Holders(j)) + Cardinality(Spots(j))
  BY DEF Places, InSched, Holders, Spots

\* The positions of an entry in the queue are finitely many.
LEMMA SpotsFinite ==
    ASSUME NEW q \in Seq(Jobs), NEW j
    PROVE  LET S == {i \in 1..Len(q) : q[i] = j} IN IsFiniteSet(S) /\ Cardinality(S) \in Nat
<1> DEFINE S == {i \in 1..Len(q) : q[i] = j}
<1>1. IsFiniteSet(1..Len(q)) /\ S \in SUBSET (1..Len(q))
  BY FS_Interval
<1>2. IsFiniteSet(S)
  BY <1>1, FS_Subset
<1> QED
  BY <1>2, FS_CardinalityType

\* A push adds one place to its entry, and leaves the others.
LEMMA PushCounts ==
    ASSUME queue \in Seq(Jobs), NEW k \in Jobs, Push(k), NEW j \in Jobs
    PROVE  /\ queue' \in Seq(Jobs)
           /\ Cardinality(Spots(j))' = Cardinality(Spots(j)) + Bit(j = k)
<1> DEFINE n == Len(queue) + 1
<1>1. /\ queue' \in Seq(Jobs) /\ Len(queue') = n /\ queue'[n] = k
      /\ \A i \in 1..Len(queue) : queue'[i] = queue[i]
  BY DEF Push
<1>2. Spots(j)' = IF j = k THEN Spots(j) \union {n} ELSE Spots(j)
  BY <1>1 DEF Spots
<1>3. n \notin Spots(j)
  BY DEF Spots
<1>4. IsFiniteSet(Spots(j)) /\ Cardinality(Spots(j)) \in Nat
  BY SpotsFinite DEF Spots
<1> HIDE DEF n
<1>5. Cardinality(Spots(j) \union {n}) = Cardinality(Spots(j)) + 1
  BY <1>3, <1>4, FS_AddElement
<1> QED
  BY <1>1, <1>2, <1>4, <1>5 DEF Bit

\* A pop takes one place from its entry.
LEMMA PopCounts ==
    ASSUME queue \in Seq(Jobs), queue # <<>>, PopTail, NEW j \in Jobs
    PROVE  /\ queue' \in Seq(Jobs) /\ Tail1 \in Jobs
           /\ Cardinality(Spots(j))' = Cardinality(Spots(j)) - Bit(j = Tail1)
<1> DEFINE n == Len(queue)
<1>1. n \in Nat \ {0} /\ Tail1 = queue[n] /\ Tail1 \in Jobs
  BY DEF Tail1
<1>2. /\ queue' \in Seq(Jobs) /\ Len(queue') = n - 1
      /\ \A i \in 1..(n - 1) : queue'[i] = queue[i]
  <2>1. \A i \in 1..(n - 1) : queue[i] \in Jobs
    BY <1>1
  <2>2. queue' = SubSeq(queue, 1, n - 1)
    BY DEF PopTail
  <2>3. n - 1 \in Nat
    BY <1>1
  <2> HIDE DEF n
  <2> DEFINE m == n - 1
  <2>4. m \in Int /\ \A i \in 1..m : queue[i] \in Jobs
    BY <2>1, <2>3
  <2> HIDE DEF m
  <2>5. /\ SubSeq(queue, 1, m) \in Seq(Jobs)
        /\ Len(SubSeq(queue, 1, m)) = IF 1 <= m THEN m - 1 + 1 ELSE 0
        /\ \A i \in 1..(m - 1 + 1) : SubSeq(queue, 1, m)[i] = queue[1 + i - 1]
    BY <2>4, SubSeqProperties
  <2> QED
    BY <2>2, <2>3, <2>5 DEF m
<1>3. Spots(j)' = Spots(j) \ {n}
  <2>1. 1..(n - 1) = (1..n) \ {n}
    BY <1>1
  <2>2. Spots(j)' = {i \in 1..(n - 1) : queue[i] = j}
    <3>1. Spots(j)' = {i \in 1..(n - 1) : queue'[i] = j}
      BY <1>2 DEF Spots
    <3> QED
      BY <1>2, <3>1
  <2>3. Spots(j) = {i \in 1..n : queue[i] = j}
    BY DEF Spots
  <2> HIDE DEF Spots, n
  <2> QED
    BY <2>1, <2>2, <2>3
<1>4. n \in Spots(j) <=> j = Tail1
  BY <1>1 DEF Spots
<1>5. IsFiniteSet(Spots(j)) /\ Cardinality(Spots(j)) \in Nat
  BY SpotsFinite DEF Spots
<1> HIDE DEF n
<1>6. Cardinality(Spots(j) \ {n}) =
         IF n \in Spots(j) THEN Cardinality(Spots(j)) - 1 ELSE Cardinality(Spots(j))
  BY <1>5, FS_RemoveElement
<1> QED
  BY <1>1, <1>2, <1>3, <1>4, <1>5, <1>6 DEF Bit

\* When one memory changes, so does one holder.
MemoryOf(s) ==
    /\ memory' \in [Schedulers -> [Jobs -> {"none", "waiting", "due", "readd"}]]
    /\ \A u \in Schedulers : u # s => memory'[u] = memory[u]

\* One scheduler takes a job into its memory or lets go of it: the others keep
\* theirs, so the number of holders changes by one at most.
LEMMA HoldersCount ==
    ASSUME TypeOK, NEW s \in Schedulers, MemoryOf(s), NEW j \in Jobs, IsFiniteSet(Holders(j))
    PROVE  /\ IsFiniteSet(Holders(j))'
           /\ Cardinality(Holders(j)) \in Nat /\ Cardinality(Holders(j))' \in Nat
           /\ Cardinality(Holders(j))' = Cardinality(Holders(j))
                  + Bit(memory'[s][j] # "none") - Bit(memory[s][j] # "none")
<1>1. Holders(j)' = IF memory'[s][j] # "none" THEN Holders(j) \union {s}
                    ELSE Holders(j) \ {s}
  BY DEF MemoryOf, Holders, Held
<1>2. s \in Holders(j) <=> memory[s][j] # "none"
  BY DEF Holders, Held
<1>3. Cardinality(Holders(j)) \in Nat
  BY FS_CardinalityType
<1>4. CASE memory'[s][j] # "none"
  <2>1. /\ IsFiniteSet(Holders(j) \union {s})
        /\ Cardinality(Holders(j) \union {s}) =
              IF s \in Holders(j) THEN Cardinality(Holders(j))
              ELSE Cardinality(Holders(j)) + 1
    BY FS_AddElement
  <2> QED
    BY <1>1, <1>2, <1>3, <1>4, <2>1 DEF Bit
<1>5. CASE memory'[s][j] = "none"
  <2>1. /\ IsFiniteSet(Holders(j) \ {s})
        /\ Cardinality(Holders(j) \ {s}) =
              IF s \in Holders(j) THEN Cardinality(Holders(j)) - 1
              ELSE Cardinality(Holders(j))
    BY FS_RemoveElement
  <2>2. Cardinality(Holders(j) \ {s}) \in Nat
    BY <2>1, FS_CardinalityType
  <2> QED
    BY <1>1, <1>2, <1>3, <1>5, <2>1, <2>2 DEF Bit
<1> QED
  BY <1>4, <1>5

\* What an entry's places are after a step that keeps the count.
LEMMA Counted ==
    ASSUME IInv, copies' \in [Jobs -> Int],
           queue' \in Seq(Jobs),
           \A j \in Jobs : /\ IsFiniteSet(Holders(j))'
                           /\ InSched(j)' + Cardinality(Holders(j))' <= 1
                           /\ copies'[j] = InSched(j)' + Cardinality(Holders(j))'
                                             + Cardinality(Spots(j))'
    PROVE  Accounted' /\ copies' \in [Jobs -> Nat]
<1> SUFFICES ASSUME NEW j \in Jobs
             PROVE  Places(j)' = copies'[j] /\ copies'[j] \in Nat
  BY DEF Accounted
<1>1. Places(j)' = InSched(j)' + Cardinality(Holders(j))' + Cardinality(Spots(j))'
  BY DEF Places, InSched, Holders, Spots
<1>2. Cardinality(Holders(j))' \in Nat
  BY FS_CardinalityType
<1>3. Cardinality(Spots(j))' \in Nat
  BY SpotsFinite DEF Spots
<1>4. InSched(j)' \in Nat
  BY DEF InSched
<1> QED
  BY <1>1, <1>2, <1>3, <1>4

-----------------------------------------------------------------------------
(* The key.                                                                *)

Places7 == {"top", "renew", "extend", "pass", "release", "delete", "down"}

\* One scheduler moves.
LEMMA GotoMoves ==
    ASSUME TypeOK, NEW s \in Schedulers, NEW place \in Places7, Goto(s, place)
    PROVE  /\ at' \in [Schedulers -> Places7]
           /\ at'[s] = place
           /\ \A u \in Schedulers : u # s => at'[u] = at[u]
  BY DEF TypeOK, Goto, Places7

\* One scheduler stops to count on the key.
LEMMA GiveUpGives ==
    ASSUME TypeOK, NEW s \in Schedulers, GiveUp(s)
    PROVE  /\ hasLock' \in [Schedulers -> BOOLEAN]
           /\ ~hasLock'[s]
           /\ \A u \in Schedulers : u # s => (hasLock'[u] <=> hasLock[u])
           /\ lapsed' = lapsed \ {s} /\ lapsed' \in SUBSET Schedulers
  BY DEF TypeOK, GiveUp

\* A fault that is counted.
LEMMA Spent == ASSUME TypeOK, NEW f, Spend(f) PROVE used' \in 0..MaxFaults
  BY DEF TypeOK, StoreTypeOK, Spend

\* What a step at the key leaves alone.
Aside == UNCHANGED <<rows, queue, lease, sched, overdue, memory, copies>>

\* A step at the key leaves the entries and what they are counted in as they are.
LEMMA AsideInv ==
    ASSUME IInv, Aside, used' \in 0..MaxFaults,
           lock' \in Schedulers \union {NoScheduler},
           hasLock' \in [Schedulers -> BOOLEAN],
           at' \in [Schedulers -> Places7],
           lapsed' \in SUBSET Schedulers,
           Leading', KeyKept'
    PROVE  IInv'
<1> USE DEF IInv, Aside
<1>1. TypeOK'
  BY DEF TypeOK, StoreTypeOK, Places7
<1>2. Accounted'
  BY DEF Accounted, Holders, Held, InSched, Places
<1> QED
  BY <1>1, <1>2

\* The key is had with NX, or has_lock is set already.
LEMMA AcquireInv ==
    ASSUME IInv, NEW s \in Schedulers, Acquire(s)
    PROVE  IInv'
<1> USE DEF IInv
<1>1. PICK place \in {"renew", "pass"} : Goto(s, place)
  BY DEF Acquire
<1>2. /\ at' \in [Schedulers -> Places7] /\ at'[s] = place
      /\ \A u \in Schedulers : u # s => at'[u] = at[u]
  BY <1>1, GotoMoves DEF Places7
<1>3. /\ hasLock' \in [Schedulers -> BOOLEAN] /\ hasLock'[s]
      /\ \A u \in Schedulers : u # s => (hasLock'[u] <=> hasLock[u])
  BY DEF Acquire, TypeOK
<1>4. Aside /\ used' \in 0..MaxFaults /\ lapsed' = lapsed
  BY DEF Acquire, storeVars, TypeOK, StoreTypeOK, Aside
<1>5. lock' \in Schedulers \union {NoScheduler} /\ lapsed' \in SUBSET Schedulers
  BY <1>4 DEF Acquire, TypeOK
<1>6. Leading'
  BY <1>2, <1>3, <1>4 DEF Leading, Held, Aside, Acquire
<1>7. KeyKept'
  <2> SUFFICES ASSUME "lateDelete" \notin Faults, NEW u \in Schedulers
               PROVE  /\ hasLock'[u] /\ u \notin lapsed' => lock' = u
                      /\ at'[u] = "delete" => lock' = u
    BY DEF KeyKept
  <2>1. CASE hasLock[s]
    <3>1. lock' = lock
      BY <2>1 DEF Acquire
    <3> QED
      BY <1>2, <1>3, <1>4, <2>1, <3>1 DEF KeyKept, Acquire
  <2>2. CASE ~hasLock[s]
    <3>1. lock = NoScheduler /\ lock' = s
      BY <2>2 DEF Acquire
    <3> QED
      BY <1>2, <1>3, <1>4, <3>1 DEF KeyKept
  <2> QED
    BY <2>1, <2>2
<1> QED
  BY <1>2, <1>3, <1>4, <1>5, <1>6, <1>7, AsideInv

\* The SET reached Redis and its reply was lost: the key is held, and nobody
\* leads.
LEMMA AcquireFailsInv ==
    ASSUME IInv, NEW s \in Schedulers, AcquireFails(s)
    PROVE  IInv'
<1> USE DEF IInv
<1>1. Aside /\ used' \in 0..MaxFaults /\ UNCHANGED <<hasLock, at, lapsed>>
  BY Spent DEF AcquireFails, idleVars, Aside
<1>2. lock = NoScheduler /\ lock' = s /\ at[s] = "top" /\ ~hasLock[s]
  BY DEF AcquireFails
<1>3. /\ lock' \in Schedulers \union {NoScheduler} /\ hasLock' \in [Schedulers -> BOOLEAN]
      /\ at' \in [Schedulers -> Places7] /\ lapsed' \in SUBSET Schedulers
  BY <1>1, <1>2 DEF TypeOK, Places7
<1>4. Leading' /\ KeyKept'
  BY <1>1, <1>2 DEF Leading, KeyKept, Held, Aside
<1> QED
  BY <1>1, <1>3, <1>4, AsideInv

\* Whoever finds another value, or nothing, or an error, does not lead on.
LEMMA GiveUpInv ==
    ASSUME IInv, NEW s \in Schedulers, NEW place \in {"top", "down"},
           Goto(s, place), GiveUp(s), Held(s) = {}, Aside, used' \in 0..MaxFaults,
           lock' = lock \/ (at[s] = "delete" /\ lock' = NoScheduler)
    PROVE  IInv'
<1> USE DEF IInv
<1>1. /\ at' \in [Schedulers -> Places7] /\ at'[s] = place
      /\ \A u \in Schedulers : u # s => at'[u] = at[u]
  BY GotoMoves DEF Places7
<1>2. /\ hasLock' \in [Schedulers -> BOOLEAN] /\ ~hasLock'[s]
      /\ \A u \in Schedulers : u # s => (hasLock'[u] <=> hasLock[u])
      /\ lapsed' = lapsed \ {s} /\ lapsed' \in SUBSET Schedulers
  BY GiveUpGives
<1>3. lock' \in Schedulers \union {NoScheduler}
  BY DEF TypeOK
<1>4. Leading'
  BY <1>1, <1>2 DEF Leading, Held, Aside
<1>5. KeyKept'
  BY <1>1, <1>2 DEF KeyKept
<1> QED
  BY <1>1, <1>2, <1>3, <1>4, <1>5, AsideInv

\* A scheduler that goes on with has_lock set.
LEMMA GoOnInv ==
    ASSUME IInv, NEW s \in Schedulers, NEW place \in {"extend", "pass", "delete", "top"},
           Goto(s, place), Held(s) = {}, Aside, UNCHANGED <<used, lock, hasLock, lapsed>>,
           hasLock[s], place = "delete" => lock = s
    PROVE  IInv'
<1> USE DEF IInv
<1>1. /\ at' \in [Schedulers -> Places7] /\ at'[s] = place
      /\ \A u \in Schedulers : u # s => at'[u] = at[u]
  BY GotoMoves DEF Places7
<1>2. /\ lock' \in Schedulers \union {NoScheduler} /\ hasLock' \in [Schedulers -> BOOLEAN]
      /\ lapsed' \in SUBSET Schedulers /\ used' \in 0..MaxFaults
  BY DEF TypeOK, StoreTypeOK
<1>3. Leading' /\ KeyKept'
  BY <1>1 DEF Leading, KeyKept, Held, Aside
<1> QED
  BY <1>1, <1>2, <1>3, AsideInv

\* The renewal and the release, call by call.
LEMMA KeyInv ==
    ASSUME IInv, NEW s \in Schedulers,
           \/ RenewLock(s) \/ Extend(s) \/ RenewFails(s)
           \/ ReleaseLock(s) \/ Delete(s) \/ ReleaseFails(s)
    PROVE  IInv'
<1>1. Held(s) = {} /\ hasLock[s]
  BY DEF IInv, Leading, RenewLock, Extend, RenewFails, ReleaseLock, Delete, ReleaseFails
<1>2. Aside /\ used' \in 0..MaxFaults
  BY Spent DEF IInv, TypeOK, StoreTypeOK, RenewLock, Extend, RenewFails, ReleaseLock, Delete,
               ReleaseFails, storeVars, idleVars, Aside
<1>3. CASE RenewLock(s) \/ ReleaseLock(s) \/ Extend(s)
  BY <1>1, <1>2, <1>3, GiveUpInv, GoOnInv DEF RenewLock, ReleaseLock, Extend, storeVars
<1>4. CASE RenewFails(s) \/ ReleaseFails(s) \/ Delete(s)
  BY <1>1, <1>2, <1>4, GiveUpInv DEF RenewFails, ReleaseFails, Delete
<1> QED
  BY <1>3, <1>4

\* The time to live runs out: who counts on the key is known to have lapsed.
LEMMA ExpiresInv ==
    ASSUME IInv, LockExpires
    PROVE  IInv'
<1> USE DEF IInv
<1>1. lock \in Schedulers /\ lock' = NoScheduler /\ UNCHANGED <<hasLock, at>>
  BY DEF LockExpires, TypeOK
<1>2. Aside
  BY DEF LockExpires, idleVars, Aside
<1>3. used' \in 0..MaxFaults
  BY Spent DEF LockExpires, TypeOK, StoreTypeOK
<1>4. /\ lapsed' = IF hasLock[lock] THEN lapsed \union {lock} ELSE lapsed
      /\ lapsed' \in SUBSET Schedulers
  BY DEF LockExpires, TypeOK
<1>5. hasLock[lock] /\ at[lock] = "delete" => "lateDelete" \in Faults
  BY DEF LockExpires, Spend
<1>6. Leading'
  BY <1>1, <1>2 DEF Leading, Held, Aside
<1>7. KeyKept'
  BY <1>1, <1>4, <1>5 DEF KeyKept, Leading
<1>8. /\ lock' \in Schedulers \union {NoScheduler} /\ hasLock' \in [Schedulers -> BOOLEAN]
      /\ at' \in [Schedulers -> Places7]
  BY <1>1 DEF TypeOK, Places7
<1> QED
  BY <1>2, <1>3, <1>4, <1>6, <1>7, <1>8, AsideInv

\* A new process leads nothing.
LEMMA StartInv ==
    ASSUME IInv, NEW s \in Schedulers, Start(s)
    PROVE  IInv'
<1> USE DEF IInv
<1>1. /\ at' \in [Schedulers -> Places7] /\ at'[s] = "top" /\ at[s] = "down"
      /\ \A u \in Schedulers : u # s => at'[u] = at[u]
  BY GotoMoves DEF Start, Places7
<1>2. Aside /\ UNCHANGED <<used, lock, hasLock, lapsed>>
  BY DEF Start, storeVars, Aside
<1>3. /\ lock' \in Schedulers \union {NoScheduler} /\ hasLock' \in [Schedulers -> BOOLEAN]
      /\ lapsed' \in SUBSET Schedulers /\ used' \in 0..MaxFaults
  BY <1>2 DEF TypeOK, StoreTypeOK
<1>4. Leading' /\ KeyKept'
  BY <1>1, <1>2 DEF Leading, KeyKept, Held, Aside
<1> QED
  BY <1>1, <1>2, <1>3, <1>4, AsideInv
-----------------------------------------------------------------------------
(* The pass.                                                               *)

Kinds == {"none", "waiting", "due", "readd"}
ZSet == [Jobs -> {"none", "waiting", "due"}]

\* A memory that is replaced.
LEMMA SetMemory ==
    ASSUME TypeOK, NEW s \in Schedulers, NEW m \in [Jobs -> Kinds],
           memory' = [memory EXCEPT ![s] = m]
    PROVE  MemoryOf(s) /\ memory'[s] = m
  BY DEF TypeOK, MemoryOf, Kinds

\* Where one scheduler and the ZSET have an entry.
Here(s, j) == InSched(j) + Bit(memory[s][j] # "none")

\* The sums of the lemma below.
LEMMA Sums ==
    ASSUME NEW s, NEW j,
           InSched(j) \in Nat, InSched(j)' \in Nat,
           Cardinality(Holders(j)) \in Nat, Cardinality(Holders(j))' \in Nat,
           Cardinality(Spots(j)) \in Nat, Cardinality(Spots(j))' \in Nat,
           Bit(memory[s][j] # "none") \in Nat, Bit(memory'[s][j] # "none") \in Nat,
           InSched(j) + Cardinality(Holders(j)) <= 1,
           copies[j] = InSched(j) + Cardinality(Holders(j)) + Cardinality(Spots(j)),
           Cardinality(Holders(j))' = Cardinality(Holders(j))
               + Bit(memory'[s][j] # "none") - Bit(memory[s][j] # "none"),
           Here(s, j)' <= Here(s, j),
           copies'[j] = copies[j] + (Here(s, j)' - Here(s, j))
                          + (Cardinality(Spots(j))' - Cardinality(Spots(j)))
    PROVE  /\ InSched(j)' + Cardinality(Holders(j))' <= 1
           /\ copies'[j] = InSched(j)' + Cardinality(Holders(j))' + Cardinality(Spots(j))'
<1>1. /\ Here(s, j) = InSched(j) + Bit(memory[s][j] # "none")
      /\ Here(s, j)' = InSched(j)' + Bit(memory'[s][j] # "none")
  BY DEF Here
<1>2. InSched(j)' + Cardinality(Holders(j))' <= 1
  BY <1>1
<1> QED
  BY <1>1, <1>2

\* A step that changes one memory, the ZSET, the queue or the count, and takes
\* nothing out of nowhere.
LEMMA PassInv ==
    ASSUME IInv, NEW s \in Schedulers, MemoryOf(s),
           UNCHANGED <<rows, lease, overdue, lock>>, used' \in 0..MaxFaults,
           sched' \in ZSet, queue' \in Seq(Jobs), copies' \in [Jobs -> Int],
           hasLock' \in [Schedulers -> BOOLEAN],
           at' \in [Schedulers -> Places7],
           lapsed' \in SUBSET Schedulers,
           Leading', KeyKept',
           \A j \in Jobs :
              /\ Here(s, j)' <= Here(s, j)
              /\ copies'[j] = copies[j] + (Here(s, j)' - Here(s, j))
                                + (Cardinality(Spots(j))' - Cardinality(Spots(j)))
    PROVE  IInv'
<1> USE DEF IInv
<1>1. ASSUME NEW j \in Jobs
      PROVE  /\ IsFiniteSet(Holders(j))'
             /\ InSched(j)' + Cardinality(Holders(j))' <= 1
             /\ copies'[j] = InSched(j)' + Cardinality(Holders(j))' + Cardinality(Spots(j))'
  <2>1. /\ IsFiniteSet(Holders(j)) /\ InSched(j) + Cardinality(Holders(j)) <= 1
        /\ copies[j] = InSched(j) + Cardinality(Holders(j)) + Cardinality(Spots(j))
    BY PlacesAre DEF Accounted
  <2>2. /\ IsFiniteSet(Holders(j))'
        /\ Cardinality(Holders(j)) \in Nat /\ Cardinality(Holders(j))' \in Nat
        /\ Cardinality(Holders(j))' = Cardinality(Holders(j))
               + Bit(memory'[s][j] # "none") - Bit(memory[s][j] # "none")
    BY <2>1, HoldersCount
  <2>3. Cardinality(Spots(j)) \in Nat /\ Cardinality(Spots(j))' \in Nat
    <3>1. queue \in Seq(Jobs)
      BY DEF TypeOK, StoreTypeOK
    <3> QED
      BY <3>1, SpotsFinite DEF Spots
  <2>4. InSched(j) \in Nat /\ InSched(j)' \in Nat
    BY DEF InSched
  <2>5. Bit(memory'[s][j] # "none") \in Nat /\ Bit(memory[s][j] # "none") \in Nat
    BY DEF Bit
  <2>6. /\ InSched(j)' + Cardinality(Holders(j))' <= 1
        /\ copies'[j] = InSched(j)' + Cardinality(Holders(j))' + Cardinality(Spots(j))'
    BY <2>1, <2>2, <2>3, <2>4, <2>5, Sums
  <2> QED
    BY <2>2, <2>6
<1>2. Accounted' /\ copies' \in [Jobs -> Nat]
  BY <1>1, Counted
<1>3. TypeOK'
  BY <1>2 DEF TypeOK, StoreTypeOK, MemoryOf, ZSet, Places7
<1> QED
  BY <1>2, <1>3
\* An entry in a memory is nowhere else but in the queue.
LEMMA OnePlace ==
    ASSUME IInv, NEW s \in Schedulers, NEW j \in Jobs, memory[s][j] # "none"
    PROVE  /\ sched[j] = "none"
           /\ \A u \in Schedulers : memory[u][j] # "none" => u = s
<1>1. IsFiniteSet(Holders(j)) /\ InSched(j) + Cardinality(Holders(j)) <= 1
  BY DEF IInv, Accounted
<1>2. Cardinality(Holders(j)) \in Nat /\ InSched(j) \in Nat
  BY <1>1, FS_CardinalityType DEF InSched
<1>3. s \in Holders(j)
  BY DEF Holders, Held
<1>4. Cardinality(Holders(j) \ {s}) = Cardinality(Holders(j)) - 1
      /\ IsFiniteSet(Holders(j) \ {s})
  BY <1>1, <1>3, FS_RemoveElement
<1>5. Cardinality(Holders(j) \ {s}) \in Nat
  BY <1>4, FS_CardinalityType
<1>6. InSched(j) = 0 /\ Cardinality(Holders(j) \ {s}) = 0
  BY <1>1, <1>2, <1>4, <1>5
<1>7. Holders(j) \ {s} = {}
  BY <1>4, <1>6, FS_EmptySet
<1> QED
  BY <1>6, <1>7 DEF InSched, Holders, Held

\* What is counted are numbers.
LEMMA AreCounts ==
    ASSUME TypeOK, NEW s \in Schedulers, NEW j \in Jobs
    PROVE  Cardinality(Spots(j)) \in Nat /\ copies[j] \in Nat /\ Here(s, j) \in Nat
<1>1. queue \in Seq(Jobs) /\ copies[j] \in Nat
  BY DEF TypeOK, StoreTypeOK
<1>2. Here(s, j) \in Nat
  BY DEF Here, InSched, Bit
<1> QED
  BY <1>1, <1>2, SpotsFinite DEF Spots

\* Entries in memory, the lock as it was.
LEMMA StaysLeader ==
    ASSUME IInv, NEW s \in Schedulers, MemoryOf(s), UNCHANGED <<lock, hasLock, lapsed>>,
           \/ UNCHANGED at /\ at[s] = "pass"
           \/ Held(s)' = {} /\ \E place \in {"top", "release", "down"} :
                  Goto(s, place) /\ (place = "release" => hasLock[s])
    PROVE  /\ hasLock' \in [Schedulers -> BOOLEAN] /\ at' \in [Schedulers -> Places7]
           /\ lapsed' \in SUBSET Schedulers
           /\ Leading' /\ KeyKept'
<1> USE DEF IInv
<1>1. hasLock' \in [Schedulers -> BOOLEAN] /\ lapsed' \in SUBSET Schedulers
  BY DEF TypeOK
<1>2. \A u \in Schedulers : u # s => Held(u)' = Held(u)
  BY DEF MemoryOf, Held
<1>3. CASE UNCHANGED at /\ at[s] = "pass"
  BY <1>1, <1>2, <1>3 DEF Leading, KeyKept, TypeOK, Places7
<1>4. ASSUME Held(s)' = {}, NEW place \in {"top", "release", "down"}, Goto(s, place),
             place = "release" => hasLock[s]
      PROVE  at' \in [Schedulers -> Places7] /\ Leading' /\ KeyKept'
  <2>1. /\ at' \in [Schedulers -> Places7] /\ at'[s] = place
        /\ \A u \in Schedulers : u # s => at'[u] = at[u]
    BY <1>4, GotoMoves DEF Places7
  <2> QED
    BY <1>2, <1>4, <2>1 DEF Leading, KeyKept
<1> QED
  BY <1>1, <1>3, <1>4

\* The pop moves the ZSET into a memory.
LEMMA ZPopMinInv ==
    ASSUME IInv, NEW s \in Schedulers, ZPopMin(s)
    PROVE  IInv'
<1>1. MemoryOf(s) /\ memory'[s] = sched
  <2>1. sched \in [Jobs -> Kinds]
    BY DEF IInv, TypeOK, StoreTypeOK, Kinds
  <2> QED
    BY <2>1, SetMemory DEF ZPopMin, IInv
<1>2. /\ UNCHANGED <<rows, lease, overdue, lock, hasLock, lapsed, queue, copies>>
      /\ used' \in 0..MaxFaults /\ sched' = Empty /\ sched' \in ZSet
      /\ queue' \in Seq(Jobs) /\ copies' \in [Jobs -> Int] /\ at[s] = "pass"
  BY DEF ZPopMin, idleVars, IInv, TypeOK, StoreTypeOK, Empty, ZSet
<1>3. UNCHANGED at \/ (Held(s)' = {} /\ Goto(s, "top"))
  BY <1>1 DEF ZPopMin, Held, Empty
<1>4. /\ hasLock' \in [Schedulers -> BOOLEAN] /\ at' \in [Schedulers -> Places7]
      /\ lapsed' \in SUBSET Schedulers
      /\ Leading' /\ KeyKept'
  BY <1>1, <1>2, <1>3, StaysLeader
<1>5. ASSUME NEW j \in Jobs
      PROVE  /\ Here(s, j)' <= Here(s, j)
             /\ copies'[j] = copies[j] + (Here(s, j)' - Here(s, j))
                                + (Cardinality(Spots(j))' - Cardinality(Spots(j)))
  <2>1. Here(s, j)' = Here(s, j) /\ Here(s, j) \in Int
    BY <1>1, <1>2 DEF Here, InSched, Bit, Empty, ZPopMin, Held
  <2>2. Spots(j)' = Spots(j)
    BY <1>2 DEF Spots
  <2>3. Cardinality(Spots(j)) \in Nat /\ copies[j] \in Nat
    BY AreCounts DEF IInv
  <2> QED
    BY <1>2, <2>1, <2>2, <2>3
<1> QED
  BY <1>1, <1>2, <1>4, <1>5, PassInv

\* The conclusion of the steps below that leave the queue alone.
LEMMA QueueStays ==
    ASSUME IInv, NEW s \in Schedulers, MemoryOf(s),
           UNCHANGED <<rows, lease, overdue, lock, queue>>,
           used' \in 0..MaxFaults, sched' \in ZSet, copies' \in [Jobs -> Int],
           hasLock' \in [Schedulers -> BOOLEAN], at' \in [Schedulers -> Places7],
           lapsed' \in SUBSET Schedulers, Leading', KeyKept',
           \A j \in Jobs : /\ Here(s, j)' <= Here(s, j)
                           /\ copies'[j] = copies[j] + (Here(s, j)' - Here(s, j))
    PROVE  IInv'
<1>1. queue' \in Seq(Jobs)
  BY DEF IInv, TypeOK, StoreTypeOK
<1>2. ASSUME NEW j \in Jobs
      PROVE  /\ Here(s, j)' <= Here(s, j)
             /\ copies'[j] = copies[j] + (Here(s, j)' - Here(s, j))
                                + (Cardinality(Spots(j))' - Cardinality(Spots(j)))
  <2>1. Spots(j)' = Spots(j)
    BY DEF Spots
  <2>2. /\ Cardinality(Spots(j)) \in Nat /\ copies[j] \in Nat
        /\ Here(s, j) \in Nat /\ Here(s, j)' \in Nat
    BY AreCounts DEF IInv, Here, InSched, Bit
  <2> QED
    BY <2>1, <2>2
<1> QED
  BY <1>1, <1>2, PassInv

\* The reply of the pop is lost: the entries are nowhere.
LEMMA ZPopMinFailsInv ==
    ASSUME IInv, NEW s \in Schedulers, ZPopMinFails(s)
    PROVE  IInv'
<1>1. MemoryOf(s) /\ memory' = memory /\ Held(s) = {} /\ at[s] = "pass"
  BY DEF ZPopMinFails, MemoryOf, IInv, TypeOK
<1>2. /\ UNCHANGED <<rows, lease, overdue, lock, hasLock, lapsed, queue>>
      /\ used' \in 0..MaxFaults /\ sched' = Empty /\ sched' \in ZSet
  BY Spent DEF ZPopMinFails, idleVars, IInv, Empty, ZSet
<1>3. copies' \in [Jobs -> Int]
  BY DEF ZPopMinFails, Forget, IInv, TypeOK
<1>4. Held(s)' = {} /\ Goto(s, "top")
  BY <1>1 DEF ZPopMinFails, Held
<1>5. /\ hasLock' \in [Schedulers -> BOOLEAN] /\ at' \in [Schedulers -> Places7]
      /\ lapsed' \in SUBSET Schedulers
      /\ Leading' /\ KeyKept'
  BY <1>1, <1>2, <1>4, StaysLeader
<1>6. ASSUME NEW j \in Jobs
      PROVE  /\ Here(s, j)' <= Here(s, j)
             /\ copies'[j] = copies[j] + (Here(s, j)' - Here(s, j))
  <2>1. copies'[j] = copies[j] - IF sched[j] # "none" THEN 1 ELSE 0
    BY DEF ZPopMinFails, Forget
  <2>2. memory[s][j] = "none" /\ memory'[s][j] = "none" /\ copies[j] \in Nat
    BY <1>1 DEF Held, IInv, TypeOK
  <2> QED
    BY <1>2, <2>1, <2>2 DEF Here, InSched, Bit, Empty
<1> QED
  BY <1>1, <1>2, <1>3, <1>5, <1>6, QueueStays

\* One entry of a memory changes.
LEMMA SetEntry ==
    ASSUME TypeOK, NEW s \in Schedulers, NEW j \in Jobs, NEW kind \in Kinds,
           memory' = [memory EXCEPT ![s][j] = kind]
    PROVE  /\ MemoryOf(s) /\ memory'[s][j] = kind
           /\ \A k \in Jobs : k # j => memory'[s][k] = memory[s][k]
  BY DEF TypeOK, MemoryOf, Kinds

\* The push of a due entry, counted or not.
LEMMA EnqueueInv ==
    ASSUME IInv, NEW s \in Schedulers, Enqueue(s)
    PROVE  IInv'
<1>1. PICK j \in Jobs : memory[s][j] = "due" /\ Push(j)
                        /\ memory' = [memory EXCEPT ![s][j] = "none"]
  BY DEF Enqueue
<1>2. /\ MemoryOf(s) /\ memory'[s][j] = "none"
      /\ \A k \in Jobs : k # j => memory'[s][k] = memory[s][k]
  BY <1>1, SetEntry DEF IInv, Kinds
<1>3. /\ UNCHANGED <<rows, lease, overdue, lock, hasLock, lapsed, sched, copies, at>>
      /\ used' \in 0..MaxFaults /\ sched' \in ZSet /\ copies' \in [Jobs -> Int]
  BY DEF Enqueue, idleVars, IInv, TypeOK, StoreTypeOK, ZSet
<1>4. at[s] = "pass"
  BY <1>1 DEF IInv, Leading, Held
<1>5. /\ hasLock' \in [Schedulers -> BOOLEAN] /\ at' \in [Schedulers -> Places7]
      /\ lapsed' \in SUBSET Schedulers
      /\ Leading' /\ KeyKept'
  BY <1>2, <1>3, <1>4, StaysLeader
<1>6. queue \in Seq(Jobs)
  BY DEF IInv, TypeOK, StoreTypeOK
<1>7. queue' \in Seq(Jobs)
  BY <1>1, <1>6, PushCounts
<1>8. ASSUME NEW k \in Jobs
      PROVE  /\ Here(s, k)' <= Here(s, k)
             /\ copies'[k] = copies[k] + (Here(s, k)' - Here(s, k))
                               + (Cardinality(Spots(k))' - Cardinality(Spots(k)))
  <2>1. Cardinality(Spots(k))' = Cardinality(Spots(k)) + Bit(k = j)
    BY <1>1, <1>6, PushCounts
  <2>2. Here(s, k)' = Here(s, k) - Bit(k = j)
    BY <1>1, <1>2, <1>3 DEF Here, InSched, Bit
  <2>3. Cardinality(Spots(k)) \in Nat /\ copies[k] \in Nat /\ Here(s, k) \in Nat
    BY AreCounts DEF IInv
  <2>4. Bit(k = j) \in {0, 1}
    BY DEF Bit
  <2> QED
    BY <1>3, <2>1, <2>2, <2>3, <2>4
<1> QED
  BY <1>2, <1>3, <1>5, <1>7, <1>8, PassInv

\* The push that raises, and may have been applied.
LEMMA EnqueueFailsInv ==
    ASSUME IInv, NEW s \in Schedulers, EnqueueFails(s)
    PROVE  IInv'
<1>1. PICK j \in Jobs :
         /\ memory[s][j] = "due" /\ memory' = [memory EXCEPT ![s][j] = "readd"]
         /\ \/ Spend("redis") /\ UNCHANGED <<queue, copies>>
            \/ Spend("lostReply") /\ Push(j) /\ copies' = [copies EXCEPT ![j] = @ + 1]
  BY DEF EnqueueFails
<1>2. /\ MemoryOf(s) /\ memory'[s][j] = "readd"
      /\ \A k \in Jobs : k # j => memory'[s][k] = memory[s][k]
  <2>1. TypeOK /\ memory' = [memory EXCEPT ![s][j] = "readd"] /\ "readd" \in Kinds
    BY <1>1 DEF IInv, Kinds
  <2> QED
    BY <2>1, SetEntry
<1>3. /\ UNCHANGED <<rows, lease, overdue, lock, hasLock, lapsed, sched, at>>
      /\ sched' \in ZSet
  BY DEF EnqueueFails, idleVars, IInv, TypeOK, StoreTypeOK, ZSet
<1>4. used' \in 0..MaxFaults
  BY <1>1, Spent DEF IInv
<1>5. at[s] = "pass"
  BY <1>1 DEF IInv, Leading, Held
<1>6. /\ hasLock' \in [Schedulers -> BOOLEAN] /\ at' \in [Schedulers -> Places7]
      /\ lapsed' \in SUBSET Schedulers
      /\ Leading' /\ KeyKept'
  BY <1>2, <1>3, <1>5, StaysLeader
<1>7. queue \in Seq(Jobs) /\ copies \in [Jobs -> Nat]
  BY DEF IInv, TypeOK, StoreTypeOK
<1>8. \A k \in Jobs : /\ Here(s, k)' = Here(s, k) /\ Here(s, k) \in Nat
                        /\ Cardinality(Spots(k)) \in Nat /\ copies[k] \in Nat
  <2> TAKE k \in Jobs
  <2>1. Here(s, k)' = Here(s, k)
    BY <1>1, <1>2, <1>3 DEF Here, InSched, Bit
  <2> QED
    BY <2>1, AreCounts DEF IInv
<1>9. CASE UNCHANGED <<queue, copies>>
  <2>1. copies' \in [Jobs -> Int]
    BY <1>7, <1>9
  <2>2. ASSUME NEW k \in Jobs
        PROVE  /\ Here(s, k)' <= Here(s, k)
               /\ copies'[k] = copies[k] + (Here(s, k)' - Here(s, k))
    BY <1>8, <1>9
  <2> QED
    BY <1>2, <1>3, <1>4, <1>6, <1>9, <2>1, <2>2, QueueStays
<1>10. CASE Push(j) /\ copies' = [copies EXCEPT ![j] = @ + 1]
  <2>1. copies' \in [Jobs -> Int] /\ \A k \in Jobs : copies'[k] = copies[k] + Bit(k = j)
    BY <1>7, <1>10 DEF Bit
  <2>2. queue' \in Seq(Jobs)
    BY <1>7, <1>10, PushCounts
  <2>3. ASSUME NEW k \in Jobs
        PROVE  /\ Here(s, k)' <= Here(s, k)
               /\ copies'[k] = copies[k] + (Here(s, k)' - Here(s, k))
                                 + (Cardinality(Spots(k))' - Cardinality(Spots(k)))
    <3>1. Cardinality(Spots(k))' = Cardinality(Spots(k)) + Bit(k = j)
      BY <1>7, <1>10, PushCounts
    <3>2. Bit(k = j) \in {0, 1}
      BY DEF Bit
    <3> QED
      BY <1>8, <2>1, <3>1, <3>2
  <2> QED
    BY <1>2, <1>3, <1>4, <1>6, <2>1, <2>2, <2>3, PassInv
<1> QED
  BY <1>1, <1>9, <1>10

\* The entries that were not pushed go back: the places in the ZSET are free.
LEMMA ZAddBackInv ==
    ASSUME IInv, NEW s \in Schedulers, ZAddBack(s)
    PROVE  IInv'
<1>1. Empty \in [Jobs -> Kinds]
  BY DEF Empty, Kinds
<1>2. MemoryOf(s) /\ memory'[s] = Empty
  BY <1>1, SetMemory DEF ZAddBack, IInv
<1>3. /\ UNCHANGED <<rows, lease, overdue, lock, hasLock, lapsed, queue, copies>>
      /\ used' \in 0..MaxFaults /\ copies' \in [Jobs -> Int]
  BY DEF ZAddBack, idleVars, IInv, TypeOK, StoreTypeOK
<1>4. sched' \in ZSet
  BY DEF ZAddBack, IInv, TypeOK, StoreTypeOK, ZSet
<1>5. Held(s)' = {} /\ Goto(s, "top")
  BY <1>2 DEF ZAddBack, Held, Empty
<1>6. /\ hasLock' \in [Schedulers -> BOOLEAN] /\ at' \in [Schedulers -> Places7]
      /\ lapsed' \in SUBSET Schedulers
      /\ Leading' /\ KeyKept'
  BY <1>2, <1>3, <1>5, StaysLeader
<1>7. ASSUME NEW j \in Jobs
      PROVE  /\ Here(s, j)' <= Here(s, j)
             /\ copies'[j] = copies[j] + (Here(s, j)' - Here(s, j))
  <2>1. copies[j] \in Nat /\ memory'[s][j] = "none" /\ memory[s][j] \in Kinds
    BY <1>2 DEF IInv, TypeOK, Empty, Kinds
  <2>2. CASE memory[s][j] = "none"
    <3>1. sched'[j] = sched[j]
      BY <2>2 DEF ZAddBack
    <3> QED
      BY <1>3, <2>1, <2>2, <3>1 DEF Here, InSched, Bit
  <2>3. CASE memory[s][j] # "none"
    <3>1. sched[j] = "none"
      BY <2>3, OnePlace
    <3>2. sched'[j] # "none"
      BY <2>1, <2>3 DEF ZAddBack, Kinds
    <3> QED
      BY <1>3, <2>1, <2>3, <3>1, <3>2 DEF Here, InSched, Bit
  <2> QED
    BY <2>2, <2>3
<1> QED
  BY <1>2, <1>3, <1>4, <1>6, <1>7, QueueStays

\* A memory is lost.
LEMMA Spilled ==
    ASSUME IInv, NEW s \in Schedulers, Spill(s)
    PROVE  /\ MemoryOf(s) /\ memory'[s] = Empty /\ Held(s)' = {}
           /\ copies' \in [Jobs -> Int]
           /\ sched' = sched =>
                \A j \in Jobs : /\ Here(s, j)' <= Here(s, j)
                               /\ copies'[j] = copies[j] + (Here(s, j)' - Here(s, j))
<1>1. Empty \in [Jobs -> Kinds]
  BY DEF Empty, Kinds
<1>2. MemoryOf(s) /\ memory'[s] = Empty
  BY <1>1, SetMemory DEF Spill, IInv
<1>3. copies' \in [Jobs -> Int]
  BY DEF Spill, Forget, IInv, TypeOK
<1>4. ASSUME sched' = sched, NEW j \in Jobs
      PROVE  /\ Here(s, j)' <= Here(s, j)
             /\ copies'[j] = copies[j] + (Here(s, j)' - Here(s, j))
  <2>1. copies'[j] = copies[j] - IF j \in Held(s) THEN 1 ELSE 0
    BY DEF Spill, Forget
  <2>2. copies[j] \in Nat /\ memory'[s][j] = "none"
    BY <1>2 DEF IInv, TypeOK, Empty
  <2> QED
    BY <1>4, <2>1, <2>2 DEF Here, InSched, Bit, Held
<1> QED
  BY <1>2, <1>3, <1>4 DEF Held, Empty

\* The pass is abandoned, or the process told to stop: what is in memory is lost.
LEMMA SpillInv ==
    ASSUME IInv, NEW s \in Schedulers, ZAddBackFails(s) \/ Stop(s)
    PROVE  IInv'
<1>1. /\ UNCHANGED <<rows, lease, overdue, lock, hasLock, lapsed, queue, sched>>
      /\ Spill(s)
  BY DEF ZAddBackFails, Stop, idleVars
<1>2. used' \in 0..MaxFaults
  BY Spent DEF ZAddBackFails, Stop, SpendCrash, IInv
<1>3. /\ MemoryOf(s) /\ Held(s)' = {} /\ copies' \in [Jobs -> Int]
      /\ \A j \in Jobs : /\ Here(s, j)' <= Here(s, j)
                         /\ copies'[j] = copies[j] + (Here(s, j)' - Here(s, j))
  BY <1>1, Spilled
<1>4. \E place \in {"top", "release", "down"} :
         Goto(s, place) /\ (place = "release" => hasLock[s])
  BY DEF ZAddBackFails, Stop
<1>5. /\ hasLock' \in [Schedulers -> BOOLEAN] /\ at' \in [Schedulers -> Places7]
      /\ lapsed' \in SUBSET Schedulers
      /\ Leading' /\ KeyKept'
  BY <1>1, <1>3, <1>4, StaysLeader
<1>6. sched' \in ZSet
  BY <1>1 DEF IInv, TypeOK, StoreTypeOK, ZSet
<1> QED
  BY <1>1, <1>2, <1>3, <1>5, <1>6, QueueStays

\* The process dies, and its key stays.
LEMMA CrashInv ==
    ASSUME IInv, NEW s \in Schedulers, Crash(s)
    PROVE  IInv'
<1>1. /\ UNCHANGED <<rows, lease, overdue, lock, queue, sched>>
      /\ Spill(s) /\ Goto(s, "down") /\ GiveUp(s)
  BY DEF Crash, idleVars
<1>2. used' \in 0..MaxFaults
  BY Spent DEF Crash, SpendCrash, IInv
<1>3. /\ MemoryOf(s) /\ Held(s)' = {} /\ copies' \in [Jobs -> Int]
      /\ \A j \in Jobs : /\ Here(s, j)' <= Here(s, j)
                         /\ copies'[j] = copies[j] + (Here(s, j)' - Here(s, j))
  BY <1>1, Spilled
<1>4. /\ at' \in [Schedulers -> Places7] /\ at'[s] = "down"
      /\ \A u \in Schedulers : u # s => at'[u] = at[u]
  BY <1>1, GotoMoves DEF IInv, Places7
<1>5. /\ hasLock' \in [Schedulers -> BOOLEAN] /\ ~hasLock'[s]
      /\ \A u \in Schedulers : u # s => (hasLock'[u] <=> hasLock[u])
      /\ lapsed' = lapsed \ {s} /\ lapsed' \in SUBSET Schedulers
  BY <1>1, GiveUpGives DEF IInv
<1>6. \A u \in Schedulers : u # s => Held(u)' = Held(u)
  BY <1>3 DEF MemoryOf, Held
<1>7. Leading'
  BY <1>3, <1>4, <1>5, <1>6 DEF IInv, Leading
<1>8. KeyKept'
  BY <1>1, <1>4, <1>5 DEF IInv, KeyKept
<1>9. sched' \in ZSet
  BY <1>1 DEF IInv, TypeOK, StoreTypeOK, ZSet
<1> QED
  BY <1>1, <1>2, <1>3, <1>4, <1>5, <1>7, <1>8, <1>9, QueueStays

-----------------------------------------------------------------------------
(* The rest of the system.                                                 *)

\* A step of the store: the schedulers stay where they are.
Elsewhere == UNCHANGED <<rows, lease, overdue, used, lock, hasLock, at, memory, lapsed>>

\* The store adds an entry to sched or queue, or drops one, and keeps account of it.
LEMMA ElsewhereInv ==
    ASSUME IInv, Elsewhere, sched' \in ZSet, queue' \in Seq(Jobs), copies' \in [Jobs -> Int],
           \A j \in Jobs :
              /\ InSched(j)' + Cardinality(Holders(j)) <= 1
              /\ copies'[j] = InSched(j)' + Cardinality(Holders(j)) + Cardinality(Spots(j))'
    PROVE  IInv'
<1> USE DEF IInv, Elsewhere
<1>1. \A j \in Jobs : Holders(j)' = Holders(j)
  BY DEF Holders, Held
<1>2. \A j \in Jobs : IsFiniteSet(Holders(j))
  BY DEF Accounted
<1>3. Accounted' /\ copies' \in [Jobs -> Nat]
  BY <1>1, <1>2, Counted
<1>4. TypeOK'
  BY <1>3 DEF TypeOK, StoreTypeOK, ZSet
<1>5. Leading' /\ KeyKept'
  BY DEF Leading, KeyKept, Held
<1> QED
  BY <1>3, <1>4, <1>5

\* An entry that is nowhere is put in the ZSET.
LEMMA DelayInv ==
    ASSUME IInv, NEW j \in Jobs, Delay(j)
    PROVE  IInv'
<1>1. Elsewhere /\ queue' = queue
  BY DEF Delay, idleVars, Elsewhere
<1>2. /\ sched \in ZSet /\ queue \in Seq(Jobs) /\ copies \in [Jobs -> Nat]
      /\ sched' = [sched EXCEPT ![j] = "waiting"] /\ copies' = [copies EXCEPT ![j] = 1]
      /\ copies[j] = 0
  BY DEF Delay, IInv, TypeOK, StoreTypeOK, ZSet
<1>3. sched' \in ZSet /\ copies' \in [Jobs -> Int]
  BY <1>2 DEF ZSet
<1>4. ASSUME NEW k \in Jobs
      PROVE  /\ InSched(k)' + Cardinality(Holders(k)) <= 1
             /\ copies'[k] = InSched(k)' + Cardinality(Holders(k)) + Cardinality(Spots(k))'
  <2>1. /\ IsFiniteSet(Holders(k)) /\ InSched(k) + Cardinality(Holders(k)) <= 1
        /\ copies[k] = InSched(k) + Cardinality(Holders(k)) + Cardinality(Spots(k))
    BY PlacesAre DEF IInv, Accounted
  <2>2. Cardinality(Holders(k)) \in Nat /\ Cardinality(Spots(k)) \in Nat /\ InSched(k) \in Nat
    BY <1>2, <2>1, FS_CardinalityType, SpotsFinite DEF Spots, InSched
  <2>3. Spots(k)' = Spots(k)
    BY <1>1 DEF Spots
  <2>4. CASE k = j
    <3>1. InSched(k)' = 1 /\ copies'[k] = 1
      BY <1>2, <2>4 DEF InSched, ZSet
    <3>2. Cardinality(Holders(k)) = 0 /\ Cardinality(Spots(k)) = 0
      BY <1>2, <2>1, <2>2, <2>4
    <3> QED
      BY <2>3, <3>1, <3>2
  <2>5. CASE k # j
    BY <1>2, <2>1, <2>3, <2>5 DEF InSched, ZSet
  <2> QED
    BY <2>4, <2>5
<1> QED
  BY <1>1, <1>2, <1>3, <1>4, ElsewhereInv

\* Its time comes.
LEMMA DueInv ==
    ASSUME IInv, NEW j \in Jobs, Due(j)
    PROVE  IInv'
<1>1. Elsewhere /\ queue' = queue /\ copies' = copies
  BY DEF Due, BecomeDue, lockVars, Elsewhere
<1>2. /\ sched \in ZSet /\ queue' \in Seq(Jobs) /\ copies' \in [Jobs -> Int]
      /\ sched[j] = "waiting" /\ sched' = [sched EXCEPT ![j] = "due"]
  BY <1>1 DEF Due, BecomeDue, IInv, TypeOK, StoreTypeOK, ZSet
<1>3. sched' \in ZSet
  BY <1>2 DEF ZSet
<1>4. ASSUME NEW k \in Jobs
      PROVE  /\ InSched(k)' + Cardinality(Holders(k)) <= 1
             /\ copies'[k] = InSched(k)' + Cardinality(Holders(k)) + Cardinality(Spots(k))'
  <2>1. /\ InSched(k) + Cardinality(Holders(k)) <= 1
        /\ copies[k] = InSched(k) + Cardinality(Holders(k)) + Cardinality(Spots(k))
    BY PlacesAre DEF IInv, Accounted
  <2>2. Spots(k)' = Spots(k)
    BY <1>1 DEF Spots
  <2>3. InSched(k)' = InSched(k)
    BY <1>2 DEF InSched, ZSet
  <2> QED
    BY <1>1, <2>1, <2>2, <2>3
<1> QED
  BY <1>1, <1>2, <1>3, <1>4, ElsewhereInv

\* An engine takes an entry from the queue.
LEMMA ConsumeInv ==
    ASSUME IInv, Consume
    PROVE  IInv'
<1>1. Elsewhere /\ sched' = sched /\ queue # <<>> /\ PopTail
      /\ copies' = [copies EXCEPT ![Tail1] = @ - 1]
  BY DEF Consume, idleVars, Elsewhere
<1>2. sched' \in ZSet /\ queue \in Seq(Jobs) /\ copies \in [Jobs -> Nat]
  BY <1>1 DEF IInv, TypeOK, StoreTypeOK, ZSet
<1>3. queue' \in Seq(Jobs) /\ copies' \in [Jobs -> Int]
  <2>1. CASE Jobs = {}
    BY <1>1, <1>2, <2>1
  <2>2. CASE Jobs # {}
    BY <1>1, <1>2, <2>2, PopCounts
  <2> QED
    BY <2>1, <2>2
<1>4. ASSUME NEW k \in Jobs
      PROVE  /\ InSched(k)' + Cardinality(Holders(k)) <= 1
             /\ copies'[k] = InSched(k)' + Cardinality(Holders(k)) + Cardinality(Spots(k))'
  <2>1. /\ IsFiniteSet(Holders(k)) /\ InSched(k) + Cardinality(Holders(k)) <= 1
        /\ copies[k] = InSched(k) + Cardinality(Holders(k)) + Cardinality(Spots(k))
    BY PlacesAre DEF IInv, Accounted
  <2>2. Tail1 \in Jobs /\ Cardinality(Spots(k))' = Cardinality(Spots(k)) - Bit(k = Tail1)
    BY <1>1, <1>2, PopCounts
  <2>3. copies'[k] = copies[k] - Bit(k = Tail1)
    BY <1>1, <1>2, <2>2 DEF Bit
  <2>4. InSched(k)' = InSched(k)
    BY <1>1 DEF InSched
  <2>5. /\ Cardinality(Holders(k)) \in Nat /\ Cardinality(Spots(k)) \in Nat
        /\ InSched(k) \in Nat /\ Bit(k = Tail1) \in {0, 1}
    BY <1>2, <2>1, FS_CardinalityType, SpotsFinite DEF Spots, InSched, Bit
  <2> QED
    BY <2>1, <2>2, <2>3, <2>4, <2>5
<1> QED
  BY <1>1, <1>2, <1>3, <1>4, ElsewhereInv

-----------------------------------------------------------------------------
(* The theorems.                                                           *)

\* Nothing happens.
LEMMA StutterInv == IInv /\ UNCHANGED vars => IInv'
<1> SUFFICES ASSUME IInv, UNCHANGED vars PROVE IInv'
  OBVIOUS
<1>1. Aside /\ UNCHANGED <<used, lock, hasLock, at, lapsed>>
  BY DEF vars, storeVars, lockVars, Aside
<1>2. /\ used' \in 0..MaxFaults /\ lock' \in Schedulers \union {NoScheduler}
      /\ hasLock' \in [Schedulers -> BOOLEAN] /\ at' \in [Schedulers -> Places7]
      /\ lapsed' \in SUBSET Schedulers
  BY <1>1 DEF IInv, TypeOK, StoreTypeOK, Places7
<1>3. Leading' /\ KeyKept'
  BY <1>1 DEF IInv, Leading, KeyKept, Held, Aside
<1> QED
  BY <1>1, <1>2, <1>3, AsideInv

\* Every step keeps the inductive invariant.
LEMMA StepInv == IInv /\ [Next]_vars => IInv'
<1> SUFFICES ASSUME IInv, [Next]_vars PROVE IInv'
  OBVIOUS
<1>1. ASSUME NEW s \in Schedulers, Run(s) PROVE IInv'
  BY <1>1, AcquireInv, KeyInv, ZPopMinInv, EnqueueInv, ZAddBackInv DEF Run
<1>2. ASSUME NEW s \in Schedulers, Fails(s) PROVE IInv'
  BY <1>2, AcquireFailsInv, KeyInv, ZPopMinFailsInv, EnqueueFailsInv, SpillInv DEF Fails
<1>3. ASSUME NEW s \in Schedulers, Stop(s) \/ Crash(s) \/ Start(s) PROVE IInv'
  BY <1>3, SpillInv, CrashInv, StartInv
<1>4. CASE LockExpires
  BY <1>4, ExpiresInv
<1>5. CASE Environment
  BY <1>5, ConsumeInv, DelayInv, DueInv DEF Environment
<1>6. CASE UNCHANGED vars
  BY <1>6, StutterInv
<1> QED
  BY <1>1, <1>2, <1>3, <1>4, <1>5, <1>6 DEF Next

\* The inductive invariant holds of every behaviour.
THEOREM Invariant == Spec => []IInv
  BY InitInv, StepInv, PTL DEF Spec

\* Every variable keeps its type; copies never goes below zero.
THEOREM TypeCorrect == Spec => []TypeOK
<1>1. IInv => TypeOK
  BY DEF IInv
<1> QED
  BY Invariant, <1>1, PTL

\* Every entry is in the ZSET, a memory or the queue as often as it is due to
\* be, with any number of schedulers, leaders and faults: ZPOPMIN hands an
\* entry to one scheduler, and what that one adds back or pushes it has alone.
THEOREM AccountedHolds == Spec => []EntriesAccounted
<1>1. IInv => EntriesAccounted
  BY DEF IInv, Accounted, EntriesAccounted
<1> QED
  BY Invariant, <1>1, PTL

\* Two lead at once only while one of them has let the key expire and not
\* looked since, unless a DELETE of release_lock removes a key its scheduler
\* has lost since the GET, which the run SchedRelease shows to be enough.
THEOREM LeaderHolds ==
    ASSUME "lateDelete" \notin Faults
    PROVE  Spec => []OneLeader
<1>1. IInv => OneLeader
  BY DEF IInv, KeyKept, OneLeader
<1> QED
  BY Invariant, <1>1, PTL

-----------------------------------------------------------------------------
(* The schedulers act as the one of JobScheduler while no key lapses.      *)

\* What the memories make together.
MergedOf(m) == [j \in Jobs |->
    IF \E s \in Schedulers : j \in {k \in Jobs : m[s][k] # "none"}
    THEN m[CHOOSE s \in Schedulers : j \in {k \in Jobs : m[s][k] # "none"}][j]
    ELSE "none"]

\* When one scheduler has entries at most, they are all there is.
LEMMA MergedIsOne ==
    ASSUME NEW m \in [Schedulers -> [Jobs -> Kinds]], NEW s \in Schedulers,
           \A u \in Schedulers : u # s => m[u] = Empty
    PROVE  MergedOf(m) = m[s]
<1> SUFFICES ASSUME NEW j \in Jobs PROVE MergedOf(m)[j] = m[s][j]
  <2>1. m[s] \in [Jobs -> Kinds]
    OBVIOUS
  <2> QED
    BY <2>1 DEF MergedOf
<1> DEFINE P(u) == j \in {k \in Jobs : m[u][k] # "none"}
<1>1. \A u \in Schedulers : P(u) => u = s
  BY DEF Empty
<1>2. MergedOf(m)[j] = IF \E u \in Schedulers : P(u)
                       THEN m[CHOOSE u \in Schedulers : P(u)][j] ELSE "none"
  BY DEF MergedOf
<1>3. CASE P(s)
  <2>1. (CHOOSE u \in Schedulers : P(u)) \in Schedulers /\ P(CHOOSE u \in Schedulers : P(u))
    <3> HIDE DEF P
    <3> QED
      BY <1>3
  <2>2. (CHOOSE u \in Schedulers : P(u)) = s
    <3> HIDE DEF P
    <3> QED
      BY <1>1, <2>1
  <2> HIDE DEF P
  <2> QED
    BY <1>2, <1>3, <2>2
<1>4. CASE ~P(s)
  <2>1. m[s][j] = "none"
    BY <1>4
  <2> HIDE DEF P
  <2> QED
    BY <1>1, <1>2, <1>4, <2>1
<1> QED
  BY <1>3, <1>4

\* While no key lapses, nobody but the one that leads has entries.
LEMMA OthersEmpty ==
    ASSUME IInv, "lateDelete" \notin Faults, lapsed = {},
           NEW s \in Schedulers, hasLock[s]
    PROVE  Merged = memory[s] /\ \A u \in Schedulers : u # s => memory[u] = Empty
<1>1. memory \in [Schedulers -> [Jobs -> Kinds]]
  BY DEF IInv, TypeOK, Kinds
<1>2. ASSUME NEW u \in Schedulers, u # s PROVE memory[u] = Empty
  <2>1. ~hasLock[u]
    BY <1>2 DEF IInv, KeyKept
  <2>2. Held(u) = {}
    BY <2>1 DEF IInv, Leading
  <2>3. memory[u] \in [Jobs -> Kinds] /\ \A j \in Jobs : memory[u][j] = "none"
    BY <1>1, <2>2 DEF Held
  <2> QED
    BY <2>3 DEF Empty
<1>3. MergedOf(memory) = memory[s]
  BY <1>1, <1>2, MergedIsOne
<1>4. Merged = MergedOf(memory)
  BY DEF Merged, MergedOf, Held
<1> QED
  BY <1>2, <1>3, <1>4

\* The same after a step of that one.
LEMMA OthersEmptyAfter ==
    ASSUME NEW s \in Schedulers, MemoryOf(s),
           \A u \in Schedulers : u # s => memory[u] = Empty
    PROVE  Merged' = memory'[s]
<1>1. MergedOf(memory') = memory'[s]
  <2>1. memory' \in [Schedulers -> [Jobs -> Kinds]]
    BY DEF MemoryOf, Kinds
  <2>2. \A u \in Schedulers : u # s => memory'[u] = Empty
    BY DEF MemoryOf
  <2> QED
    BY <2>1, <2>2, MergedIsOne
<1>2. Merged' = MergedOf(memory')
  BY DEF Merged, MergedOf, Held
<1> QED
  BY <1>1, <1>2

\* A step of the pass, seen from outside.
AsOne == Single!SchedulerNext \/ UNCHANGED <<Merged, sched, queue>>

\* The pop is the pop of the one, and the end of the pass a stutter.
LEMMA PopAsOne ==
    ASSUME IInv, "lateDelete" \notin Faults, lapsed = {},
           NEW s \in Schedulers, ZPopMin(s) \/ ZPopMinFails(s)
    PROVE  AsOne
<1>1. at[s] = "pass" /\ Held(s) = {} /\ hasLock[s]
  BY DEF ZPopMin, ZPopMinFails, IInv, Leading
<1>2. Merged = memory[s] /\ \A u \in Schedulers : u # s => memory[u] = Empty
  BY <1>1, OthersEmpty
<1>3. /\ memory[s] = Empty /\ ~Single!Holding
      /\ sched \in [Jobs -> Kinds] /\ memory \in [Schedulers -> [Jobs -> Kinds]]
  <2>1. sched \in [Jobs -> Kinds] /\ memory \in [Schedulers -> [Jobs -> Kinds]]
    BY DEF IInv, TypeOK, StoreTypeOK, Kinds
  <2>2. memory[s] \in [Jobs -> Kinds] /\ \A j \in Jobs : memory[s][j] = "none"
    BY <1>1, <2>1 DEF Held
  <2> QED
    BY <1>2, <2>1, <2>2 DEF Empty, Single!Holding
<1>4. sched' = Empty /\ UNCHANGED <<rows, queue, lease, overdue>>
  BY DEF ZPopMin, ZPopMinFails, idleVars
<1>5. CASE sched = Empty
  <2>1. memory' = memory
    BY <1>3, <1>5 DEF ZPopMin, ZPopMinFails
  <2> QED
    BY <1>4, <1>5, <2>1 DEF AsOne, Merged, Held
<1>6. CASE sched # Empty
  <2>1. \E j \in Jobs : sched[j] # "none"
    BY <1>3, <1>6 DEF Empty
  <2>2. CASE ZPopMin(s)
    <3>1. MemoryOf(s) /\ memory'[s] = sched
      BY <1>3, <2>2, SetMemory DEF ZPopMin, IInv
    <3>2. Merged' = sched
      BY <1>2, <3>1, OthersEmptyAfter
    <3>3. Single!PopScheduled
      BY <1>3, <1>4, <2>1, <2>2, <3>2 DEF Single!PopScheduled, Empty, ZPopMin
    <3> QED
      BY <3>3 DEF AsOne, Single!SchedulerNext
  <2>3. CASE ZPopMinFails(s)
    <3>1. memory' = memory /\ Spend("lostReply")
      BY <2>3 DEF ZPopMinFails
    <3>2. Merged' = Merged
      BY <3>1 DEF Merged, Held
    <3>3. Single!PopScheduledLost
      BY <1>3, <1>4, <2>1, <3>1, <3>2 DEF Single!PopScheduledLost, Empty, Single!Spend, Spend
    <3> QED
      BY <3>3 DEF AsOne, Single!SchedulerNext
  <2> QED
    BY <2>2, <2>3
<1> QED
  BY <1>5, <1>6

\* The push of an entry is its promotion.
LEMMA EnqueueAsOne ==
    ASSUME IInv, "lateDelete" \notin Faults, lapsed = {},
           NEW s \in Schedulers, Enqueue(s) \/ EnqueueFails(s)
    PROVE  AsOne
<1>1. PICK j \in Jobs, kind \in {"none", "readd"} :
         /\ memory[s][j] = "due" /\ memory' = [memory EXCEPT ![s][j] = kind]
         /\ kind = "none" => Push(j) /\ UNCHANGED used
         /\ kind = "readd" => \/ Spend("redis") /\ UNCHANGED queue
                              \/ Spend("lostReply") /\ Push(j)
  BY DEF Enqueue, EnqueueFails
<1>2. UNCHANGED <<rows, lease, sched, overdue>>
  BY DEF Enqueue, EnqueueFails, idleVars
<1>3. hasLock[s]
  BY <1>1 DEF IInv, Leading, Held
<1>4. Merged = memory[s] /\ \A u \in Schedulers : u # s => memory[u] = Empty
  BY <1>3, OthersEmpty
<1>5. MemoryOf(s) /\ memory'[s] = [memory[s] EXCEPT ![j] = kind]
  <2>1. memory \in [Schedulers -> [Jobs -> Kinds]] /\ kind \in Kinds
    BY DEF IInv, TypeOK, Kinds
  <2> QED
    BY <1>1, <2>1 DEF MemoryOf, Kinds
<1>6. Merged' = [Merged EXCEPT ![j] = kind]
  BY <1>4, <1>5, OthersEmptyAfter
<1>7. CASE kind = "none"
  <2>1. Single!Promote(j)
    BY <1>1, <1>2, <1>4, <1>6, <1>7 DEF Single!Promote, Single!Push, Push
  <2> QED
    BY <2>1 DEF AsOne, Single!SchedulerNext
<1>8. CASE kind = "readd"
  <2>1. Single!PromoteFails(j)
    BY <1>1, <1>2, <1>4, <1>6, <1>8
       DEF Single!PromoteFails, Single!Push, Push, Single!Spend, Spend
  <2> QED
    BY <2>1 DEF AsOne, Single!SchedulerNext
<1> QED
  BY <1>7, <1>8

\* What empties a memory is the end of the pass, its failure or a crash.
LEMMA EmptyAsOne ==
    ASSUME IInv, "lateDelete" \notin Faults, lapsed = {},
           NEW s \in Schedulers,
           ZAddBack(s) \/ ZAddBackFails(s) \/ Stop(s) \/ Crash(s)
    PROVE  AsOne
<1>1. /\ memory' = [memory EXCEPT ![s] = Empty]
      /\ UNCHANGED <<rows, queue, lease, overdue>>
  BY DEF ZAddBack, ZAddBackFails, Stop, Crash, Spill, idleVars
<1>2. /\ Empty \in [Jobs -> Kinds] /\ memory \in [Schedulers -> [Jobs -> Kinds]]
  BY DEF IInv, TypeOK, Empty, Kinds
<1>3. CASE Held(s) = {}
  <2>1. memory[s] \in [Jobs -> Kinds] /\ \A j \in Jobs : memory[s][j] = "none"
    BY <1>2, <1>3 DEF Held
  <2>2. memory[s] = Empty
    BY <2>1 DEF Empty
  <2>3. memory' = memory /\ sched' = sched
    BY <1>1, <1>2, <1>3, <2>2 DEF ZAddBack, ZAddBackFails, NothingDue, Stop, Crash
  <2> QED
    BY <1>1, <2>3 DEF AsOne, Merged, Held
<1>4. CASE Held(s) # {}
  <2>1. hasLock[s]
    BY <1>4 DEF IInv, Leading
  <2>2. Merged = memory[s] /\ \A u \in Schedulers : u # s => memory[u] = Empty
    BY <2>1, OthersEmpty
  <2>3. Merged' = Empty
    <3>1. MemoryOf(s) /\ memory'[s] = Empty
      BY <1>1, <1>2, SetMemory DEF IInv
    <3> QED
      BY <2>2, <3>1, OthersEmptyAfter
  <2>4. Single!Holding
    BY <1>4, <2>2 DEF Single!Holding, Held
  <2>5. CASE ZAddBack(s)
    <3>1. Single!NothingDue
      BY <2>2, <2>4, <2>5 DEF Single!NothingDue, ZAddBack, NothingDue
    <3>2. Single!AddBack
      BY <1>1, <2>2, <2>3, <2>5, <3>1 DEF Single!AddBack, ZAddBack, Empty
    <3> QED
      BY <3>2 DEF AsOne, Single!SchedulerNext
  <2>6. CASE ZAddBackFails(s)
    <3>1. Single!NothingDue
      BY <2>2, <2>4, <2>6 DEF Single!NothingDue, ZAddBackFails, NothingDue
    <3>2. Single!AddBackFails
      BY <1>1, <2>3, <2>6, <3>1
      DEF Single!AddBackFails, ZAddBackFails, Empty, Single!Spend, Spend
    <3> QED
      BY <3>2 DEF AsOne, Single!SchedulerNext
  <2>7. CASE Stop(s) \/ Crash(s)
    <3>1. Spend("windowCrash") /\ sched' = sched
      BY <1>4, <2>7 DEF Stop, Crash, SpendCrash
    <3>2. Single!SchedulerCrash
      BY <1>1, <2>3, <2>4, <3>1 DEF Single!SchedulerCrash, Empty, Single!Spend, Spend
    <3> QED
      BY <3>2 DEF AsOne, Single!SchedulerNext
  <2> QED
    BY <2>5, <2>6, <2>7
<1> QED
  BY <1>3, <1>4

\* Every step of the schedulers is one of JobScheduler while no key lapses.
OneStep == [lapsed = {} => Single!SchedulerNext \/ Environment]_<<Merged, sched, queue>>

\* A step of any scheduler is one of the only scheduler there could be, or one
\* of the store, until a key lapses.
LEMMA StepAsOne ==
    ASSUME "lateDelete" \notin Faults
    PROVE  IInv /\ [Next]_vars => OneStep
<1> SUFFICES ASSUME IInv, [Next]_vars, lapsed = {}
             PROVE  AsOne \/ Environment
  BY DEF OneStep, AsOne
<1>1. ASSUME UNCHANGED <<memory, sched, queue>> PROVE AsOne
  BY <1>1 DEF AsOne, Merged, Held
<1>2. ASSUME NEW s \in Schedulers, Run(s) \/ Fails(s) PROVE AsOne
  <2>1. CASE \/ Acquire(s) \/ RenewLock(s) \/ Extend(s) \/ ReleaseLock(s) \/ Delete(s)
             \/ AcquireFails(s) \/ RenewFails(s) \/ ReleaseFails(s)
    BY <1>1, <2>1 DEF Acquire, RenewLock, Extend, ReleaseLock, Delete, AcquireFails, RenewFails,
                      ReleaseFails, storeVars
  <2> QED
    BY <1>2, <2>1, PopAsOne, EnqueueAsOne, EmptyAsOne DEF Run, Fails
<1>3. ASSUME NEW s \in Schedulers, Stop(s) \/ Crash(s) \/ Start(s) PROVE AsOne
  BY <1>1, <1>3, EmptyAsOne DEF Start, storeVars
<1>4. CASE LockExpires \/ UNCHANGED vars
  BY <1>1, <1>4 DEF LockExpires, vars, storeVars, lockVars
<1> QED
  BY <1>2, <1>3, <1>4 DEF Next

\* While no key lapses, the schedulers of all boxes act as the one scheduler
\* of JobScheduler: only the holder of the key has entries in memory, so that
\* their passes never overlap.
THEOREM ActsAsOne ==
    ASSUME "lateDelete" \notin Faults
    PROVE  Spec => ActAsOne
<1>1. Spec => [][OneStep]_<<Merged, sched, queue>>
  BY Invariant, StepAsOne, PTL DEF Spec
<1> QED
  BY <1>1, PTL DEF ActAsOne, OneStep
=============================================================================
