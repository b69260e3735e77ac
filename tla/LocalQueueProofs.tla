--------------------------- MODULE LocalQueueProofs ---------------------------
(***************************************************************************)
(* What holds of LocalQueue for any number of jobs, callers, threads,      *)
(* objects and stops.                                                      *)
(***************************************************************************)
EXTENDS LocalQueue, FiniteSetTheorems, SequenceTheorems, TLAPS

USE LocalAssumption

-----------------------------------------------------------------------------
(* The inductive invariant.                                                *)

\* A caller that has got further than get_queue has an object, a thread that
\* was started has one too, and a job from its first item on.
Equipped ==
    /\ \A j \in Jobs : caller[j].pc # "new" => caller[j].queue \in Queues
    /\ \A w \in Workers :
          /\ worker[w].pc # "none" => worker[w].queue \in Queues
          /\ worker[w].pc \in {"sleep", "run", "count"} => worker[w].job \in Jobs

\* The lock of an object is held by the stop() of that object.
Stopping ==
    /\ stopper.pc # "idle" =>
          stopper.queue \in Queues /\ lq[stopper.queue].started
          /\ stopper.queue \in signalled
    /\ \A q \in Queues : lq[q].locked <=> (stopper.pc # "idle" /\ stopper.queue = q)
    /\ timedOut \subseteq signalled

\* Only a stop() sets stop_event or puts the sentinel.
Signals ==
    \A q \in Queues \ signalled :
       /\ ~lq[q].event
       /\ \A k \in 1..Len(lq[q].items) : lq[q].items[k] # Sentinel

\* Unless join() has timed out, an object's thread is the only one at it.
ThreadOf(q) ==
    /\ lq[q].started =>
          /\ lq[q].thread \in Workers
          /\ worker[lq[q].thread].queue = q /\ worker[lq[q].thread].pc # "none"
          /\ q \notin signalled => worker[lq[q].thread].pc # "exited"
    /\ q \notin timedOut =>
          \A w \in Live(q) : lq[q].started /\ w = lq[q].thread
Threads == \A q \in Queues : ThreadOf(q)

\* A job is taken once.
In(a, j) == \E i \in 1..Len(a) : a[i] = j
Before(a, j, k) == \A i, m \in 1..Len(a) : a[i] = j /\ a[m] = k => i < m
Once ==
    \A q \in Queues :
       /\ \A i \in 1..Len(accepted[q]) :
             /\ caller[accepted[q][i]].pc = "accepted"
             /\ caller[accepted[q][i]].queue = q
       /\ \A i, m \in 1..Len(accepted[q]) : accepted[q][i] = accepted[q][m] => i = m

\* What is begun comes before what the thread sleeps on, and that before what
\* is queued, each in the order in which it was taken.
Sleepers(q) == {u \in Workers : worker[u].queue = q /\ worker[u].pc = "sleep"}
Naps(q) == {worker[w].job : w \in Sleepers(q)}
Chain(a, b, J, s) ==
    /\ \A i \in 1..Len(b) :
          /\ In(a, b[i])
          /\ \A k \in 1..(i - 1) : Before(a, b[k], b[i])
          /\ \A h \in J : Before(a, b[i], h)
          /\ \A k \in 1..Len(s) : s[k] # Sentinel => Before(a, b[i], s[k])
    /\ \A h \in J :
          /\ In(a, h)
          /\ \A k \in 1..Len(s) : s[k] # Sentinel => Before(a, h, s[k])
    /\ \A k \in 1..Len(s) : s[k] # Sentinel =>
          /\ In(a, s[k])
          /\ \A i \in 1..(k - 1) : s[i] # Sentinel => Before(a, s[i], s[k])
Ordered ==
    \A q \in Queues \ timedOut : Chain(accepted[q], begun[q], Naps(q), lq[q].items)

\* Where nobody stopped, nothing is missing.
Tiles(a, b, n, s) ==
    /\ Len(a) = Len(b) + n + Len(s)
    /\ \A i \in 1..Len(b) : a[i] = b[i]
    /\ \A k \in 1..Len(s) : a[Len(b) + n + k] = s[k]
Whole(a, b, J, s) ==
    /\ Tiles(a, b, IF J = {} THEN 0 ELSE 1, s)
    /\ \A h \in J : a[Len(b) + 1] = h
Complete ==
    \A q \in Queues \ signalled : Whole(accepted[q], begun[q], Naps(q), lq[q].items)

IInv == /\ TypeOK /\ Equipped /\ Stopping /\ Signals /\ Threads
        /\ Once /\ Ordered /\ Complete

\* The initial states have it: there is no object and no thread.
LEMMA InitInv == Init => IInv
<1> SUFFICES ASSUME Init PROVE IInv
  OBVIOUS
<1> USE DEF Init
<1>1. TypeOK
  BY DEF TypeOK, Object, Thread, Caller, Stopper
<1>2. Equipped /\ Stopping /\ Signals
  BY DEF Equipped, Stopping, Signals
<1>3. Threads
  BY DEF Threads, ThreadOf, Live
<1>4. Once
  BY DEF Once
<1>5. \A q \in Queues : Naps(q) = {}
  BY DEF Naps, Sleepers
<1>6. Ordered
  BY <1>5 DEF Ordered, Chain
<1>7. Complete
  BY <1>5 DEF Complete, Whole, Tiles
<1> QED
  BY <1>1, <1>2, <1>3, <1>4, <1>6, <1>7 DEF IInv

-----------------------------------------------------------------------------
(* Sequences laid end to end.                                              *)

\* What a sequence is with one element more.
LEMMA Appended ==
    ASSUME NEW S, NEW s \in Seq(S), NEW e
    PROVE  /\ Len(s) \in Nat /\ Len(Append(s, e)) = Len(s) + 1
           /\ Append(s, e)[Len(s) + 1] = e
           /\ \A i \in 1..Len(s) : Append(s, e)[i] = s[i]
           /\ 1..Len(Append(s, e)) = (1..Len(s)) \union {Len(s) + 1}
<1>1. /\ Len(s) \in Nat /\ Len(Append(s, e)) = Len(s) + 1
      /\ Append(s, e)[Len(s) + 1] = e
      /\ \A i \in 1..Len(s) : Append(s, e)[i] = s[i]
  OBVIOUS
<1> QED
  BY <1>1

\* What it is without its first.
LEMMA Tailed ==
    ASSUME NEW S, NEW s \in Seq(S), s # <<>>
    PROVE  /\ Len(s) \in Nat \ {0} /\ Len(Tail(s)) = Len(s) - 1 /\ Tail(s) \in Seq(S)
           /\ Head(s) = s[1] /\ Head(s) \in S
           /\ \A k \in 1..(Len(s) - 1) : Tail(s)[k] = s[k + 1]
  BY HeadTailProperties

\* A job is appended at both ends.
LEMMA TilesPut ==
    ASSUME NEW S, NEW T, NEW a \in Seq(S), NEW b \in Seq(S), NEW s \in Seq(T), NEW n \in Nat,
           NEW e, Tiles(a, b, n, s)
    PROVE  Tiles(Append(a, e), b, n, Append(s, e))
<1> DEFINE a2 == Append(a, e)  s2 == Append(s, e)
<1>1. /\ Len(a) \in Nat /\ Len(a2) = Len(a) + 1 /\ a2[Len(a) + 1] = e
      /\ \A i \in 1..Len(a) : a2[i] = a[i]
  BY Appended
<1>2. /\ Len(s) \in Nat /\ Len(s2) = Len(s) + 1 /\ s2[Len(s) + 1] = e
      /\ \A i \in 1..Len(s) : s2[i] = s[i]
      /\ 1..Len(s2) = (1..Len(s)) \union {Len(s) + 1}
  BY Appended
<1> HIDE DEF a2, s2
<1>3. Len(b) \in Nat
  OBVIOUS
<1>4. \A i \in 1..Len(b) : a2[i] = b[i]
  BY <1>1, <1>2, <1>3 DEF Tiles
<1>5. \A k \in 1..Len(s) : a2[Len(b) + n + k] = s2[k]
  BY <1>1, <1>2, <1>3 DEF Tiles
<1>6. a2[Len(b) + n + (Len(s) + 1)] = s2[Len(s) + 1]
  BY <1>1, <1>2, <1>3 DEF Tiles
<1>7. Len(a2) = Len(b) + n + Len(s2)
  BY <1>1, <1>2, <1>3 DEF Tiles
<1>8. Tiles(a2, b, n, s2)
  BY <1>2, <1>4, <1>5, <1>6, <1>7 DEF Tiles
<1> QED
  BY <1>8 DEF a2, s2

\* The oldest is taken, to sleep on it or to begin it.
LEMMA TilesGet ==
    ASSUME NEW S, NEW T, NEW a \in Seq(S), NEW b \in Seq(S), NEW s \in Seq(T), s # <<>>,
           Tiles(a, b, 0, s)
    PROVE  /\ a[Len(b) + 1] = Head(s)
           /\ Tiles(a, b, 1, Tail(s))
           /\ Tiles(a, Append(b, Head(s)), 0, Tail(s))
<1> DEFINE t == Tail(s)  b2 == Append(b, Head(s))
<1>1. /\ Len(s) \in Nat \ {0} /\ Len(t) = Len(s) - 1 /\ Head(s) = s[1]
      /\ \A k \in 1..(Len(s) - 1) : t[k] = s[k + 1]
  BY Tailed
<1>2. /\ Len(b) \in Nat /\ Len(b2) = Len(b) + 1 /\ b2[Len(b) + 1] = Head(s)
      /\ \A i \in 1..Len(b) : b2[i] = b[i]
      /\ 1..Len(b2) = (1..Len(b)) \union {Len(b) + 1}
  BY Appended
<1> HIDE DEF t, b2
<1>3. a[Len(b) + 1] = Head(s)
  <2>1. 1 \in 1..Len(s) /\ Len(b) + 0 + 1 = Len(b) + 1
    BY <1>1, <1>2
  <2> QED
    BY <1>1, <2>1 DEF Tiles
<1>4. \A k \in 1..Len(t) : a[Len(b) + 1 + k] = t[k]
  <2> TAKE k \in 1..Len(t)
  <2>1. k + 1 \in 1..Len(s) /\ Len(b) + 0 + (k + 1) = Len(b) + 1 + k /\ t[k] = s[k + 1]
    BY <1>1, <1>2
  <2> QED
    BY <2>1 DEF Tiles
<1>5. Len(a) = Len(b) + 1 + Len(t) /\ Len(a) = Len(b2) + 0 + Len(t)
  BY <1>1, <1>2 DEF Tiles
<1>6. Tiles(a, b, 1, t)
  BY <1>4, <1>5 DEF Tiles
<1>7. \A i \in 1..Len(b2) : a[i] = b2[i]
  BY <1>2, <1>3 DEF Tiles
<1>8. \A k \in 1..Len(t) : a[Len(b2) + 0 + k] = t[k]
  BY <1>1, <1>2, <1>4
<1>9. Tiles(a, b2, 0, t)
  BY <1>5, <1>7, <1>8 DEF Tiles
<1> QED
  BY <1>3, <1>6, <1>9 DEF t, b2

\* What was slept on begins.
LEMMA TilesWake ==
    ASSUME NEW S, NEW T, NEW a \in Seq(S), NEW b \in Seq(S), NEW s \in Seq(T),
           NEW h, a[Len(b) + 1] = h, Tiles(a, b, 1, s)
    PROVE  Tiles(a, Append(b, h), 0, s)
<1> DEFINE b2 == Append(b, h)
<1>1. /\ Len(b) \in Nat /\ Len(b2) = Len(b) + 1 /\ b2[Len(b) + 1] = h
      /\ \A i \in 1..Len(b) : b2[i] = b[i]
      /\ 1..Len(b2) = (1..Len(b)) \union {Len(b) + 1}
  BY Appended
<1> HIDE DEF b2
<1>2. Len(a) = Len(b2) + 0 + Len(s) /\ Len(b2) + 0 = Len(b) + 1
  BY <1>1 DEF Tiles
<1>3. \A i \in 1..Len(b2) : a[i] = b2[i]
  BY <1>1 DEF Tiles
<1>4. Tiles(a, b2, 0, s)
  BY <1>2, <1>3 DEF Tiles
<1> QED
  BY <1>4 DEF b2

\* The same with what the thread sleeps on.
LEMMA WholePut ==
    ASSUME NEW S, NEW T, NEW a \in Seq(S), NEW b \in Seq(S), NEW s \in Seq(T), NEW J,
           NEW e, Whole(a, b, J, s)
    PROVE  Whole(Append(a, e), b, J, Append(s, e))
<1> DEFINE n == IF J = {} THEN 0 ELSE 1
           a2 == Append(a, e)
<1>1. n \in Nat /\ Tiles(a, b, n, s)
  BY DEF Whole
<1>2. Tiles(a2, b, n, Append(s, e))
  <2> HIDE DEF n
  <2> QED
    BY <1>1, TilesPut
<1>3. ASSUME NEW h \in J PROVE a2[Len(b) + 1] = h
  <2>1. n = 1
    OBVIOUS
  <2>2. Len(b) \in Nat /\ Len(s) \in Nat /\ Len(a) \in Nat
    OBVIOUS
  <2>3. Len(a) = Len(b) + 1 + Len(s)
    <3>1. Tiles(a, b, 1, s)
      BY <1>1, <2>1
    <3> QED
      BY <3>1 DEF Tiles
  <2>4. Len(b) + 1 \in 1..Len(a)
    BY <2>2, <2>3
  <2>5. \A i \in 1..Len(a) : a2[i] = a[i]
    BY Appended
  <2> HIDE DEF a2
  <2> QED
    BY <2>4, <2>5 DEF Whole
<1> QED
  BY <1>2, <1>3 DEF Whole

-----------------------------------------------------------------------------
(* Sequences in order.                                                     *)

\* A new element comes after those that are there.
LEMMA InAppend ==
    ASSUME NEW S, NEW a \in Seq(S), NEW e, ~In(a, e)
    PROVE  /\ In(Append(a, e), e)
           /\ \A x : In(a, x) => In(Append(a, e), x) /\ Before(Append(a, e), x, e)
           /\ \A x, y : In(a, x) /\ In(a, y) /\ Before(a, x, y) => Before(Append(a, e), x, y)
<1> DEFINE n == Len(a)  a2 == Append(a, e)
<1>1. /\ n \in Nat /\ Len(a2) = n + 1 /\ a2[n + 1] = e
      /\ \A i \in 1..n : a2[i] = a[i]
      /\ 1..Len(a2) = (1..n) \union {n + 1}
      /\ \A i \in 1..n : a[i] # e
  BY Appended DEF In
<1>2. In(a2, e)
  <2> HIDE DEF n, a2
  <2> QED
    BY <1>1 DEF In
<1>3. ASSUME NEW x, In(a, x) PROVE In(a2, x) /\ Before(a2, x, e)
  <2>1. PICK k \in 1..n : a[k] = x
    BY <1>3 DEF In
  <2> HIDE DEF n, a2
  <2>2. In(a2, x) /\ x # e
    BY <1>1, <2>1 DEF In
  <2>3. Before(a2, x, e)
    BY <1>1, <2>2 DEF Before
  <2> QED
    BY <2>2, <2>3
<1>4. ASSUME NEW x, NEW y, In(a, x), In(a, y), Before(a, x, y)
      PROVE  Before(a2, x, y)
  <2>1. x # e /\ y # e
    BY <1>4
  <2>2. \A i, m \in 1..n : a[i] = x /\ a[m] = y => i < m
    BY <1>4 DEF Before
  <2> HIDE DEF n, a2
  <2> QED
    BY <1>1, <2>1, <2>2 DEF Before
<1> HIDE DEF a2
<1>5. In(a2, e) /\ (\A x : In(a, x) => In(a2, x) /\ Before(a2, x, e))
      /\ (\A x, y : In(a, x) /\ In(a, y) /\ Before(a, x, y) => Before(a2, x, y))
  BY <1>2, <1>3, <1>4
<1> QED
  BY <1>5 DEF a2

\* The newest is queued last.
LEMMA ChainPut ==
    ASSUME NEW S, NEW T, NEW a \in Seq(S), NEW b, NEW s \in Seq(T), NEW J,
           NEW e, ~In(a, e), Chain(a, b, J, s)
    PROVE  Chain(Append(a, e), b, J, Append(s, e))
<1> DEFINE a2 == Append(a, e)  s2 == Append(s, e)  m == Len(s)
<1>1. /\ In(a2, e)
      /\ \A x : In(a, x) => In(a2, x) /\ Before(a2, x, e)
      /\ \A x, y : In(a, x) /\ In(a, y) /\ Before(a, x, y) => Before(a2, x, y)
  BY InAppend
<1>2. /\ m \in Nat /\ s2[m + 1] = e /\ \A k \in 1..m : s2[k] = s[k]
      /\ 1..Len(s2) = (1..m) \union {m + 1}
  BY Appended
<1> HIDE DEF a2, s2
<1>3. ASSUME NEW i \in 1..Len(b)
      PROVE  /\ In(a2, b[i])
             /\ \A k \in 1..(i - 1) : Before(a2, b[k], b[i])
             /\ \A h \in J : Before(a2, b[i], h)
             /\ \A k \in 1..Len(s2) : s2[k] # Sentinel => Before(a2, b[i], s2[k])
  <2>1. In(a, b[i]) /\ In(a2, b[i]) /\ Before(a2, b[i], e)
    BY <1>1 DEF Chain
  <2>2. \A k \in 1..(i - 1) : Before(a2, b[k], b[i])
    <3>1. \A k \in 1..(i - 1) : k \in 1..Len(b) /\ Before(a, b[k], b[i])
      BY DEF Chain
    <3>2. \A k \in 1..(i - 1) : In(a, b[k])
      BY <3>1 DEF Chain
    <3> QED
      BY <1>1, <2>1, <3>1, <3>2
  <2>3. \A h \in J : In(a, h) /\ Before(a, b[i], h)
    BY DEF Chain
  <2>4. \A k \in 1..m : s[k] # Sentinel => In(a, s[k]) /\ Before(a, b[i], s[k])
    BY DEF Chain
  <2>5. \A h \in J : Before(a2, b[i], h)
    BY <1>1, <2>1, <2>3
  <2>6. \A k \in 1..m : s2[k] # Sentinel => Before(a2, b[i], s2[k])
    BY <1>1, <1>2, <2>1, <2>4
  <2> QED
    BY <1>2, <2>1, <2>2, <2>5, <2>6
<1>4. \A h \in J :
          /\ In(a2, h)
          /\ \A k \in 1..Len(s2) : s2[k] # Sentinel => Before(a2, h, s2[k])
  BY <1>1, <1>2 DEF Chain
<1>5. ASSUME NEW k \in 1..Len(s2), s2[k] # Sentinel
      PROVE  /\ In(a2, s2[k])
             /\ \A i \in 1..(k - 1) : s2[i] # Sentinel => Before(a2, s2[i], s2[k])
  <2>1. \A i \in 1..m : s2[i] # Sentinel => In(a, s2[i])
    BY <1>2 DEF Chain
  <2>2. CASE k = m + 1
    <3>1. \A i \in 1..(k - 1) : i \in 1..m
      BY <1>2, <2>2
    <3> QED
      BY <1>1, <1>2, <2>1, <2>2, <3>1
  <2>3. CASE k \in 1..m
    <3>1. \A i \in 1..(k - 1) : i \in 1..m
      BY <1>2, <2>3
    <3>2. \A i \in 1..(k - 1) : s2[i] # Sentinel => Before(a, s2[i], s2[k])
      BY <1>2, <1>5, <2>3, <3>1 DEF Chain
    <3> QED
      BY <1>1, <1>5, <2>1, <2>3, <3>1, <3>2
  <2> QED
    BY <1>2, <2>2, <2>3
<1>6. Chain(a2, b, J, s2)
  BY <1>3, <1>4, <1>5 DEF Chain
<1> QED
  BY <1>6 DEF a2, s2

\* The sentinel has no part in it.
LEMMA ChainStop ==
    ASSUME NEW T, NEW a, NEW b, NEW s \in Seq(T), NEW J, Chain(a, b, J, s)
    PROVE  Chain(a, b, J, Append(s, Sentinel))
<1> DEFINE s2 == Append(s, Sentinel)  m == Len(s)
<1>1. /\ m \in Nat /\ s2[m + 1] = Sentinel /\ \A k \in 1..m : s2[k] = s[k]
      /\ 1..Len(s2) = (1..m) \union {m + 1}
  BY Appended
<1> HIDE DEF s2
<1>2. \A k \in 1..Len(s2) : s2[k] # Sentinel => k \in 1..Len(s) /\ s2[k] = s[k]
  BY <1>1
<1>3. \A k \in 1..Len(s) : \A i \in 1..(k - 1) : i \in 1..Len(s)
  BY <1>1
<1>4. ASSUME NEW k \in 1..Len(s2), s2[k] # Sentinel
      PROVE  /\ In(a, s2[k])
             /\ \A i \in 1..(k - 1) : s2[i] # Sentinel => Before(a, s2[i], s2[k])
  <2>1. k \in 1..Len(s) /\ s2[k] = s[k]
    BY <1>2, <1>4
  <2>2. \A i \in 1..(k - 1) : s2[i] = s[i]
    BY <1>1, <1>3, <2>1
  <2>3. /\ In(a, s[k])
        /\ \A i \in 1..(k - 1) : s[i] # Sentinel => Before(a, s[i], s[k])
    BY <1>4, <2>1 DEF Chain
  <2> QED
    BY <2>1, <2>2, <2>3
<1>5. Chain(a, b, J, s2)
  BY <1>2, <1>4 DEF Chain
<1> QED
  BY <1>5 DEF s2

\* The first item goes, whatever it is; the thread sleeps on fewer jobs.
LEMMA ChainTail ==
    ASSUME NEW T, NEW a, NEW b, NEW s \in Seq(T), s # <<>>, NEW J, Chain(a, b, J, s)
    PROVE  Chain(a, b, J, Tail(s))
<1> DEFINE t == Tail(s)
<1>1. /\ Len(s) \in Nat \ {0} /\ Len(t) = Len(s) - 1
      /\ \A k \in 1..(Len(s) - 1) : t[k] = s[k + 1]
  BY Tailed
<1> HIDE DEF t
<1>2. \A k \in 1..Len(t) : k + 1 \in 1..Len(s) /\ t[k] = s[k + 1]
  BY <1>1
<1>3. ASSUME NEW k \in 1..Len(t), t[k] # Sentinel
      PROVE  /\ In(a, t[k])
             /\ \A i \in 1..(k - 1) : t[i] # Sentinel => Before(a, t[i], t[k])
  <2>1. k + 1 \in 1..Len(s) /\ t[k] = s[k + 1] /\ s[k + 1] # Sentinel
    BY <1>2, <1>3
  <2>2. \A i \in 1..(k - 1) : i + 1 \in 1..((k + 1) - 1) /\ t[i] = s[i + 1]
    BY <1>1, <1>2
  <2>3. /\ In(a, s[k + 1])
        /\ \A i \in 1..((k + 1) - 1) : s[i] # Sentinel => Before(a, s[i], s[k + 1])
    BY <2>1 DEF Chain
  <2> QED
    BY <2>1, <2>2, <2>3
<1>4. Chain(a, b, J, t)
  BY <1>2, <1>3 DEF Chain
<1> QED
  BY <1>4 DEF t

\* A sleep that is cut short.
LEMMA ChainDrop ==
    ASSUME NEW a, NEW b, NEW s, NEW J, NEW K, K \subseteq J, Chain(a, b, J, s)
    PROVE  Chain(a, b, K, s)
  BY DEF Chain

\* The first item is what the thread sleeps on.
LEMMA ChainSleep ==
    ASSUME NEW T, NEW a, NEW b, NEW s \in Seq(T), s # <<>>, Head(s) # Sentinel,
           Chain(a, b, {}, s)
    PROVE  Chain(a, b, {Head(s)}, Tail(s))
<1> DEFINE t == Tail(s)  h == Head(s)
<1>1. /\ Len(s) \in Nat \ {0} /\ Len(t) = Len(s) - 1 /\ h = s[1]
      /\ \A k \in 1..(Len(s) - 1) : t[k] = s[k + 1]
  BY Tailed
<1>2. Chain(a, b, {}, t)
  BY ChainTail
<1>3. h # Sentinel
  OBVIOUS
<1> HIDE DEF t, h
<1>4. 1 \in 1..Len(s) /\ s[1] # Sentinel
  BY <1>1, <1>3
<1>5. In(a, h) /\ \A i \in 1..Len(b) : Before(a, b[i], h)
  BY <1>1, <1>4 DEF Chain
<1>6. ASSUME NEW k \in 1..Len(t), t[k] # Sentinel PROVE Before(a, h, t[k])
  <2>1. k + 1 \in 1..Len(s) /\ t[k] = s[k + 1] /\ 1 \in 1..((k + 1) - 1)
    BY <1>1
  <2> QED
    BY <1>1, <1>4, <1>6, <2>1 DEF Chain
<1>7. Chain(a, b, {h}, t)
  BY <1>2, <1>5, <1>6 DEF Chain
<1> QED
  BY <1>7 DEF t, h

\* What the thread slept on begins.
LEMMA ChainBegin ==
    ASSUME NEW S, NEW a, NEW b \in Seq(S), NEW s, NEW J, NEW h \in J, Chain(a, b, J, s)
    PROVE  Chain(a, Append(b, h), {}, s)
<1> DEFINE b2 == Append(b, h)  m == Len(b)
<1>1. /\ m \in Nat /\ b2[m + 1] = h /\ \A k \in 1..m : b2[k] = b[k]
      /\ 1..Len(b2) = (1..m) \union {m + 1}
  BY Appended
<1> HIDE DEF b2
<1>2. ASSUME NEW i \in 1..Len(b2)
      PROVE  /\ In(a, b2[i])
             /\ \A k \in 1..(i - 1) : Before(a, b2[k], b2[i])
             /\ \A k \in 1..Len(s) : s[k] # Sentinel => Before(a, b2[i], s[k])
  <2>1. CASE i = m + 1
    <3>1. \A k \in 1..(i - 1) : k \in 1..m
      BY <1>1, <2>1
    <3>2. \A k \in 1..m : Before(a, b[k], h)
      BY DEF Chain
    <3>3. In(a, h) /\ \A k \in 1..Len(s) : s[k] # Sentinel => Before(a, h, s[k])
      BY DEF Chain
    <3> QED
      BY <1>1, <2>1, <3>1, <3>2, <3>3
  <2>2. CASE i \in 1..m
    <3>1. \A k \in 1..(i - 1) : k \in 1..m
      BY <1>1, <2>2
    <3> QED
      BY <1>1, <2>2, <3>1 DEF Chain
  <2> QED
    BY <1>1, <2>1, <2>2
<1>3. Chain(a, b2, {}, s)
  BY <1>2 DEF Chain
<1> QED
  BY <1>3 DEF b2

-----------------------------------------------------------------------------
(* Frames.                                                                 *)

Pcs == {"none", "loop", "get", "sleep", "run", "count", "exited"}

\* What the order of an object's jobs is made of.
SameOrder(q) ==
    /\ accepted'[q] = accepted[q] /\ begun'[q] = begun[q]
    /\ lq'[q].items = lq[q].items
    /\ Naps(q)' = Naps(q)

\* A step that neither takes a job nor begins one.
Sequel ==
    /\ UNCHANGED history
    /\ \A q \in Queues : lq'[q].items = lq[q].items
    /\ \A w \in Workers : worker'[w].pc = "sleep" <=> worker[w].pc = "sleep"
    /\ \A w \in Workers : worker[w].pc = "sleep" => worker'[w] = worker[w]
    /\ \A j \in Jobs : caller[j].pc = "accepted" => caller'[j] = caller[j]
    /\ signalled \subseteq signalled' /\ timedOut \subseteq timedOut'

\* Such a step leaves the order as it is.
LEMMA SequelOrder ==
    ASSUME IInv, Sequel
    PROVE  Once' /\ Ordered' /\ Complete'
<1> USE DEF IInv, Sequel
<1>1. UNCHANGED <<accepted, begun>>
  BY DEF history
<1>2. Once'
  BY <1>1 DEF Once, TypeOK
<1>3. \A q \in Queues : SameOrder(q)
  <2> SUFFICES ASSUME NEW q \in Queues PROVE Naps(q)' = Naps(q)
    BY <1>1 DEF SameOrder
  <2> QED
    BY DEF Naps, Sleepers
<1>4. Ordered' /\ Complete'
  BY <1>3 DEF Ordered, Complete, SameOrder
<1> QED
  BY <1>2, <1>4

\* A thread goes on to another place.
LEMMA Goes ==
    ASSUME TypeOK, NEW w \in Workers, NEW pc \in Pcs, Go(w, pc)
    PROVE  /\ worker' \in [Workers -> Thread]
           /\ worker'[w].pc = pc /\ worker'[w].queue = worker[w].queue
           /\ worker'[w].job = worker[w].job
           /\ \A u \in Workers : u # w => worker'[u] = worker[u]
<1> DEFINE x == [worker[w] EXCEPT !.pc = pc]
<1>1. worker[w] \in Thread /\ worker \in [Workers -> Thread]
  BY DEF TypeOK
<1>2. x \in Thread /\ x.pc = pc /\ x.queue = worker[w].queue /\ x.job = worker[w].job
  BY <1>1 DEF Thread, Pcs
<1>3. worker' = [worker EXCEPT ![w] = x]
  BY <1>1 DEF Go
<1> HIDE DEF x
<1> QED
  BY <1>1, <1>2, <1>3

\* What only a caller changes.
LEMMA CallerInv ==
    ASSUME IInv, UNCHANGED <<lq, worker, stopVars, history>>,
           current' \in Queues \union {NoQueue},
           NEW j \in Jobs, NEW c \in Caller, c.pc # "new" => c.queue \in Queues,
           caller' = [caller EXCEPT ![j] = c], caller[j].pc # "accepted"
    PROVE  IInv'
<1> USE DEF IInv, stopVars
<1>1. /\ caller' \in [Jobs -> Caller] /\ caller'[j] = c
      /\ \A k \in Jobs : k # j => caller'[k] = caller[k]
  BY DEF TypeOK
<1>2. TypeOK'
  BY <1>1 DEF TypeOK, history
<1>3. Equipped' /\ Stopping' /\ Signals' /\ Threads'
  BY <1>1 DEF Equipped, Stopping, Signals, Threads, ThreadOf, Live
<1>4. Sequel
  BY <1>1 DEF Sequel
<1> QED
  BY <1>2, <1>3, <1>4, SequelOrder

\* get_queue: the process' object, or a new one.
LEMMA GetQueueInv ==
    ASSUME IInv, NEW j \in Jobs, GetQueue(j)
    PROVE  IInv'
<1>1. current' \in Queues
  BY DEF GetQueue, NewQueue, Unused, IInv, TypeOK
<1> DEFINE c == [pc |-> "got", queue |-> current']
<1>2. c \in Caller /\ c.queue \in Queues
  BY <1>1 DEF Caller
<1> HIDE DEF c
<1>3. caller' = [caller EXCEPT ![j] = c] /\ caller[j].pc # "accepted"
      /\ UNCHANGED <<lq, worker, stopVars, history>>
  BY DEF GetQueue, c
<1> QED
  BY <1>1, <1>2, <1>3, CallerInv

\* The test of `started` without the lock.
LEMMA CheckInv ==
    ASSUME IInv, NEW j \in Jobs, Check(j)
    PROVE  IInv'
<1> DEFINE p == IF lq[caller[j].queue].started THEN "put" ELSE "start"
           c == [caller[j] EXCEPT !.pc = p]
<1>1. caller[j] \in Caller /\ caller[j].queue \in Queues
  BY DEF Check, IInv, TypeOK, Equipped
<1>2. c \in Caller /\ c.queue \in Queues
  BY <1>1 DEF Caller
<1>3. caller' = [caller EXCEPT ![j] = c] /\ caller[j].pc # "accepted"
      /\ UNCHANGED <<lq, worker, stopVars, history>> /\ current' = current
  BY DEF Check, IInv, TypeOK
<1> HIDE DEF c
<1>4. current' \in Queues \union {NoQueue}
  BY <1>3 DEF IInv, TypeOK
<1> QED
  BY <1>2, <1>3, <1>4, CallerInv

\* One object changes.
ObjectOf(q, x) ==
    /\ lq' \in [Queues -> Object] /\ lq'[q] = x
    /\ \A r \in Queues : r # q => lq'[r] = lq[r]

\* An object that is replaced.
LEMMA SetObject ==
    ASSUME TypeOK, NEW q \in Queues, NEW x \in Object, lq' = [lq EXCEPT ![q] = x]
    PROVE  ObjectOf(q, x)
  BY DEF TypeOK, ObjectOf

\* The caller starts the thread of an object that has none, under its lock.
LEMMA StartInv ==
    ASSUME IInv, NEW j \in Jobs, Start(j)
    PROVE  IInv'
<1> USE DEF IInv
<1>0. caller[j] \in Caller /\ caller[j].queue \in Queues
  BY DEF Start, TypeOK, Equipped
<1>1. PICK q \in Queues : q = caller[j].queue
  BY <1>0
<1> DEFINE c == [caller[j] EXCEPT !.pc = "put"]
<1>2. c \in Caller /\ c.queue \in Queues /\ c.pc = "put"
  BY <1>0 DEF Caller
<1>3. caller' = [caller EXCEPT ![j] = c] /\ caller[j].pc # "accepted"
      /\ UNCHANGED <<stopVars, history>> /\ current' = current
  BY DEF Start, TypeOK
<1>4. current' \in Queues \union {NoQueue}
  BY <1>3 DEF TypeOK
<1>5. CASE lq[q].started
  <2>1. UNCHANGED <<lq, worker>>
    BY <1>1, <1>5 DEF Start
  <2> HIDE DEF c
  <2> QED
    BY <1>2, <1>3, <1>4, <2>1, CallerInv
<1>6. CASE ~lq[q].started
  <2>1. ~lq[q].locked /\ StartThread(q)
    BY <1>1, <1>6 DEF Start
  <2> HIDE DEF c
  <2>2. PICK w \in Workers :
           /\ worker[w].pc = "none"
           /\ worker' = [worker EXCEPT ![w] = [pc |-> "loop", queue |-> q, job |-> NoJob]]
           /\ lq' = [lq EXCEPT ![q].started = TRUE, ![q].event = FALSE, ![q].thread = w]
    BY <2>1 DEF StartThread, Idle
  <2> DEFINE t == [pc |-> "loop", queue |-> q, job |-> NoJob]
             x == [lq[q] EXCEPT !.started = TRUE, !.event = FALSE, !.thread = w]
  <2>3. t \in Thread /\ t.pc = "loop" /\ t.queue = q
    BY <1>1 DEF Thread
  <2>4. lq[q] \in Object
    BY <1>1 DEF TypeOK
  <2>5. /\ x \in Object /\ x.started /\ ~x.event /\ x.thread = w
        /\ x.items = lq[q].items /\ x.locked = lq[q].locked
    BY <2>4 DEF Object
  <2>6. worker' = [worker EXCEPT ![w] = t] /\ lq' = [lq EXCEPT ![q] = x]
    BY <2>2, <1>1 DEF TypeOK
  <2> HIDE DEF t, x
  <2>7. /\ worker' \in [Workers -> Thread] /\ worker'[w] = t
        /\ \A u \in Workers : u # w => worker'[u] = worker[u]
    BY <2>3, <2>6 DEF TypeOK
  <2>8. ObjectOf(q, x)
    BY <1>1, <2>5, <2>6, SetObject
  <2>9. /\ caller' \in [Jobs -> Caller] /\ caller'[j] = c
        /\ \A k \in Jobs : k # j => caller'[k] = caller[k]
    BY <1>2, <1>3 DEF TypeOK
  <2>10. \A r \in Queues : lq'[r].items = lq[r].items
    BY <2>5, <2>8 DEF ObjectOf
  <2>11. TypeOK'
    BY <1>3, <1>4, <2>7, <2>8, <2>9, <2>10 DEF TypeOK, ObjectOf, stopVars, history
  <2>12. Equipped'
    BY <1>2, <2>3, <2>7, <2>9 DEF Equipped
  <2>13. Stopping'
    BY <1>3, <2>5, <2>8 DEF Stopping, ObjectOf, stopVars
  <2>14. Signals'
    BY <1>3, <2>5, <2>8 DEF Signals, ObjectOf, stopVars
  <2>15. Threads'
    <3>1. \A r \in Queues : r # q => Live(r)' = Live(r)
      BY <2>2, <2>3, <2>7 DEF Live
    <3>2. q \notin timedOut => Live(q)' \subseteq {w}
      <4>1. q \notin timedOut => Live(q) = {}
        BY <1>6 DEF Threads, ThreadOf
      <4> QED
        BY <2>7, <4>1 DEF Live
    <3>3. \A r \in Queues : lq[r].started => worker'[lq[r].thread] = worker[lq[r].thread]
      BY <2>2, <2>7 DEF Threads, ThreadOf
    <3>4. UNCHANGED <<signalled, timedOut>>
      BY <1>3 DEF stopVars
    <3> SUFFICES ASSUME NEW r \in Queues PROVE ThreadOf(r)'
      BY DEF Threads
    <3>5. CASE r = q
      BY <2>3, <2>5, <2>7, <2>8, <3>2, <3>4, <3>5 DEF ObjectOf, ThreadOf
    <3>6. CASE r # q
      <4>1. lq'[r] = lq[r] /\ Live(r)' = Live(r)
        BY <2>8, <3>1, <3>6 DEF ObjectOf
      <4> QED
        BY <3>3, <3>4, <4>1 DEF Threads, ThreadOf
    <3> QED
      BY <3>5, <3>6
  <2>16. Sequel
    BY <1>3, <2>2, <2>3, <2>7, <2>9, <2>10 DEF Sequel, stopVars
  <2> QED
    BY <2>11, <2>12, <2>13, <2>14, <2>15, <2>16, SequelOrder
<1> QED
  BY <1>5, <1>6

\* A thread at work moves, or ends where its object has been stopped.
LEMMA ThreadMoves ==
    ASSUME IInv, NEW w \in Workers, worker' \in [Workers -> Thread],
           worker[w].pc \notin {"none", "exited"}, worker'[w].pc # "none",
           worker'[w].pc = "exited" => worker[w].queue \in signalled,
           worker'[w].queue = worker[w].queue,
           \A u \in Workers : u # w => worker'[u] = worker[u],
           \A q \in Queues : lq'[q].started = lq[q].started /\ lq'[q].thread = lq[q].thread,
           UNCHANGED <<signalled, timedOut>>
    PROVE  Threads'
<1>1. \A q \in Queues : Live(q)' \subseteq Live(q)
  BY DEF Live
<1>2. ASSUME NEW q \in Queues, lq[q].started
      PROVE  /\ lq[q].thread \in Workers
             /\ worker'[lq[q].thread].queue = q /\ worker'[lq[q].thread].pc # "none"
             /\ q \notin signalled => worker'[lq[q].thread].pc # "exited"
  <2>1. /\ lq[q].thread \in Workers
        /\ worker[lq[q].thread].queue = q /\ worker[lq[q].thread].pc # "none"
        /\ q \notin signalled => worker[lq[q].thread].pc # "exited"
    BY <1>2 DEF IInv, Threads, ThreadOf
  <2> QED
    BY <2>1
<1>3. \A q \in Queues : q \notin timedOut =>
         \A u \in Live(q) : lq[q].started /\ u = lq[q].thread
  BY DEF IInv, Threads, ThreadOf
<1> QED
  BY <1>1, <1>2, <1>3 DEF Threads, ThreadOf

\* A thread that neither takes an item nor begins a job.
LEMMA GoInv ==
    ASSUME IInv, NEW w \in Workers, worker' \in [Workers -> Thread],
           worker[w].pc \notin {"none", "exited", "sleep"},
           worker'[w].pc \in {"loop", "get", "count", "exited"},
           worker'[w].pc = "exited" => worker[w].queue \in signalled,
           worker'[w].pc = "count" => worker'[w].job \in Jobs,
           worker'[w].queue = worker[w].queue,
           \A u \in Workers : u # w => worker'[u] = worker[u],
           UNCHANGED <<callVars, lq, stopVars, history>>
    PROVE  IInv'
<1> USE DEF IInv, callVars, stopVars
<1>1. TypeOK'
  BY DEF TypeOK, history
<1>2. Equipped'
  BY DEF Equipped
<1>3. Stopping' /\ Signals'
  BY DEF Stopping, Signals
<1>4. Threads'
  BY ThreadMoves
<1>5. Sequel
  BY DEF Sequel
<1> QED
  BY <1>1, <1>2, <1>3, <1>4, <1>5, SequelOrder

\* The test of stop_event, the end of a job, and its count.
LEMMA LoopInv ==
    ASSUME IInv, NEW w \in Workers, Loop(w) \/ Return(w) \/ Count(w)
    PROVE  IInv'
<1>1. worker[w].queue \in Queues /\ TypeOK
  BY DEF IInv, Equipped, Loop, Return, Count
<1>2. CASE Loop(w)
  <2>1. Own(w).event => worker[w].queue \in signalled
    BY <1>1 DEF IInv, Signals, Own
  <2>2. PICK pc \in {"get", "exited"} : Go(w, pc) /\ (pc = "exited" => Own(w).event)
    BY <1>2 DEF Loop
  <2>3. UNCHANGED <<callVars, lq, stopVars, history>> /\ worker[w].pc = "loop"
    BY <1>2 DEF Loop
  <2>4. /\ worker' \in [Workers -> Thread]
        /\ worker'[w].pc = pc /\ worker'[w].queue = worker[w].queue
        /\ \A u \in Workers : u # w => worker'[u] = worker[u]
    BY <1>1, <2>2, Goes DEF Pcs
  <2> QED
    BY <2>1, <2>2, <2>3, <2>4, GoInv
<1>3. CASE Return(w)
  <2>1. UNCHANGED <<callVars, lq, stopVars, history>> /\ worker[w].pc = "run"
    BY <1>3 DEF Return
  <2>2. /\ worker' \in [Workers -> Thread]
        /\ worker'[w].pc = "count" /\ worker'[w].queue = worker[w].queue
        /\ worker'[w].job = worker[w].job
        /\ \A u \in Workers : u # w => worker'[u] = worker[u]
    BY <1>1, <1>3, Goes DEF Pcs, Return
  <2>3. worker'[w].job \in Jobs
    BY <2>1, <2>2 DEF IInv, Equipped
  <2> QED
    BY <2>1, <2>2, <2>3, GoInv
<1>4. CASE Count(w)
  <2>1. UNCHANGED <<callVars, lq, stopVars, history>> /\ worker[w].pc = "count"
    BY <1>4 DEF Count
  <2> DEFINE t == [worker[w] EXCEPT !.pc = "loop", !.job = NoJob]
  <2>2. worker[w] \in Thread /\ worker \in [Workers -> Thread]
    BY <1>1 DEF TypeOK
  <2>3. t \in Thread /\ t.pc = "loop" /\ t.queue = worker[w].queue
    BY <2>2 DEF Thread
  <2>4. worker' = [worker EXCEPT ![w] = t]
    BY <1>4, <2>2 DEF Count
  <2> HIDE DEF t
  <2>5. /\ worker' \in [Workers -> Thread] /\ worker'[w] = t
        /\ \A u \in Workers : u # w => worker'[u] = worker[u]
    BY <2>2, <2>3, <2>4
  <2> QED
    BY <2>1, <2>3, <2>5, GoInv
<1> QED
  BY <1>2, <1>3, <1>4

-----------------------------------------------------------------------------
(* stop_queue.                                                             *)

\* What a step of stop_queue that touches no item leaves alone.
LEMMA StopOrder ==
    ASSUME IInv, UNCHANGED <<caller, worker, history>>,
           \A q \in Queues : lq'[q].items = lq[q].items,
           signalled \subseteq signalled', timedOut \subseteq timedOut'
    PROVE  Once' /\ Ordered' /\ Complete'
  BY SequelOrder DEF Sequel

\* The threads of objects that are started or not as before.
LEMMA ThreadsStay ==
    ASSUME IInv, UNCHANGED worker,
           \A q \in Queues : lq'[q].started = lq[q].started /\ lq'[q].thread = lq[q].thread,
           signalled \subseteq signalled', timedOut \subseteq timedOut'
    PROVE  Threads'
<1> SUFFICES ASSUME NEW r \in Queues PROVE ThreadOf(r)'
  BY DEF Threads
<1>1. ThreadOf(r) /\ Live(r)' = Live(r)
  BY DEF IInv, Threads, Live
<1>2. lq'[r].started = lq[r].started /\ lq'[r].thread = lq[r].thread
  OBVIOUS
<1> QED
  BY <1>1, <1>2 DEF ThreadOf

\* The signal, under both locks.
LEMMA StopSignalInv ==
    ASSUME IInv, StopSignal
    PROVE  IInv'
<1> USE DEF IInv
<1>0. PICK q \in Queues : q = current
  BY DEF StopSignal, TypeOK
<1>1. /\ stopper.pc = "idle" /\ stops' \in 0..MaxStops
      /\ UNCHANGED <<caller, worker, timedOut, history>>
  BY DEF StopSignal, TypeOK
<1>2. CASE ~lq[q].started
  <2>1. current' = NoQueue /\ UNCHANGED <<lq, stopper, signalled>>
    BY <1>0, <1>2 DEF StopSignal
  <2>2. TypeOK'
    BY <1>1, <2>1 DEF TypeOK, history
  <2>3. Equipped' /\ Stopping' /\ Signals' /\ Threads'
    BY <1>1, <2>1 DEF Equipped, Stopping, Signals, Threads, ThreadOf, Live
  <2> QED
    BY <1>1, <2>1, <2>2, <2>3, StopOrder
<1>3. CASE lq[q].started
  <2>1. /\ lq' = [lq EXCEPT ![q].event = TRUE, ![q].locked = TRUE]
        /\ stopper' = [pc |-> "sentinel", queue |-> q]
        /\ signalled' = signalled \union {q} /\ current' = current
    BY <1>0, <1>3 DEF StopSignal
  <2> DEFINE x == [lq[q] EXCEPT !.event = TRUE, !.locked = TRUE]
  <2>2. lq[q] \in Object
    BY <1>1 DEF TypeOK
  <2>3. /\ x \in Object /\ x.started = lq[q].started /\ x.event /\ x.thread = lq[q].thread
        /\ x.items = lq[q].items /\ x.locked
    BY <2>2 DEF Object
  <2>4. lq' = [lq EXCEPT ![q] = x]
    BY <1>1, <2>1 DEF TypeOK
  <2> HIDE DEF x
  <2>5. ObjectOf(q, x)
    BY <1>1, <2>3, <2>4, SetObject
  <2>6. \A r \in Queues : /\ lq'[r].items = lq[r].items /\ lq'[r].started = lq[r].started
                          /\ lq'[r].thread = lq[r].thread
    BY <2>3, <2>5 DEF ObjectOf
  <2>7. stopper' \in Stopper /\ stopper'.pc # "idle" /\ stopper'.queue = q
    BY <1>1, <2>1 DEF Stopper
  <2>8. TypeOK'
    BY <1>0, <1>1, <2>1, <2>5, <2>6, <2>7 DEF TypeOK, ObjectOf, history
  <2>9. Equipped'
    BY <1>1 DEF Equipped
  <2>10. Stopping'
    BY <1>1, <1>3, <2>1, <2>3, <2>5, <2>7 DEF Stopping, ObjectOf
  <2>11. Signals'
    BY <2>1, <2>5 DEF Signals, ObjectOf
  <2>12. Threads'
    BY <1>1, <2>1, <2>6, ThreadsStay
  <2> QED
    BY <1>1, <2>1, <2>6, <2>8, <2>9, <2>10, <2>11, <2>12, StopOrder
<1> QED
  BY <1>2, <1>3

\* The sentinel, where there is room for it.
LEMMA StopSentinelInv ==
    ASSUME IInv, StopSentinel
    PROVE  IInv'
<1> USE DEF IInv
<1>1. PICK q \in Queues : /\ q = stopper.queue /\ stopper.pc = "sentinel" /\ q \in signalled
                          /\ lq[q].started /\ stopper \in Stopper
  BY DEF StopSentinel, Stopping, TypeOK
<1>2. /\ UNCHANGED <<callVars, worker, stops, signalled, timedOut, history>>
      /\ stopper' \in Stopper /\ stopper'.pc = "join" /\ stopper'.queue = q
  BY <1>1 DEF StopSentinel, Stopper
<1>3. lq[q] \in Object
  BY DEF TypeOK
<1>4. PICK x \in Object :
         /\ ObjectOf(q, x) /\ x.started = lq[q].started /\ x.event = lq[q].event
         /\ x.thread = lq[q].thread /\ x.locked = lq[q].locked
         /\ Len(x.items) <= MaxSize
         /\ x.items = lq[q].items \/ x.items = Append(lq[q].items, Sentinel)
  <2>1. CASE Len(lq[q].items) < MaxSize
    <3> DEFINE s == Append(lq[q].items, Sentinel)
               x == [lq[q] EXCEPT !.items = s]
    <3>0. s \in Seq(Jobs \union {Sentinel}) /\ lq[q].items \in Seq(Jobs \union {Sentinel})
      BY <1>3 DEF Object
    <3>1. /\ x \in Object /\ x.started = lq[q].started /\ x.event = lq[q].event
          /\ x.thread = lq[q].thread /\ x.locked = lq[q].locked
          /\ x.items = s
      <4> HIDE DEF s
      <4> QED
        BY <1>3, <3>0 DEF Object
    <3>2. Len(x.items) = Len(lq[q].items) + 1 /\ Len(lq[q].items) \in Nat
      <4> HIDE DEF x
      <4> QED
        BY <3>0, <3>1
    <3>3. lq' = [lq EXCEPT ![q] = x]
      BY <1>1, <2>1 DEF StopSentinel, TypeOK
    <3> HIDE DEF x
    <3>4. ObjectOf(q, x)
      BY <3>1, <3>3, SetObject
    <3> QED
      BY <2>1, <3>1, <3>2, <3>4
  <2>2. CASE ~(Len(lq[q].items) < MaxSize)
    <3>1. lq' = lq
      BY <1>1, <2>2 DEF StopSentinel
    <3>2. ObjectOf(q, lq[q]) /\ Len(lq[q].items) <= MaxSize
      BY <3>1 DEF ObjectOf, TypeOK
    <3> QED
      BY <1>3, <3>2
  <2> QED
    BY <2>1, <2>2
<1>5. \A r \in Queues : /\ lq'[r].started = lq[r].started /\ lq'[r].event = lq[r].event
                        /\ lq'[r].thread = lq[r].thread /\ lq'[r].locked = lq[r].locked
                        /\ r # q => lq'[r] = lq[r]
  BY <1>4 DEF ObjectOf
<1>6. TypeOK'
  <2>1. \A r \in Queues : Len(lq'[r].items) <= MaxSize
    BY <1>4 DEF ObjectOf, TypeOK
  <2> QED
    BY <1>2, <1>4, <2>1 DEF TypeOK, ObjectOf, callVars, history
<1>7. Equipped' /\ Stopping' /\ Signals'
  BY <1>1, <1>2, <1>5 DEF Equipped, Stopping, Signals, callVars
<1>8. Threads'
  BY <1>2, <1>5, ThreadsStay
<1>9. Once'
  BY <1>2 DEF Once, callVars, history
<1>10. \A r \in Queues : /\ accepted'[r] = accepted[r] /\ begun'[r] = begun[r]
                          /\ Naps(r)' = Naps(r)
  BY <1>2 DEF history, Naps, Sleepers
<1>11. Complete'
  BY <1>1, <1>2, <1>5, <1>10 DEF Complete
<1>12. Ordered'
  <2> SUFFICES ASSUME NEW r \in Queues \ timedOut
               PROVE  Chain(accepted[r], begun[r], Naps(r), lq'[r].items)
    BY <1>2, <1>10 DEF Ordered
  <2>1. Chain(accepted[r], begun[r], Naps(r), lq[r].items)
    BY DEF Ordered
  <2>2. CASE lq'[r].items = lq[r].items
    BY <2>1, <2>2
  <2>3. CASE r = q /\ lq'[r].items = Append(lq[r].items, Sentinel)
    <3>1. lq[r].items \in Seq(Jobs \union {Sentinel})
      BY <1>3, <2>3 DEF Object
    <3> QED
      BY <2>1, <2>3, <3>1, ChainStop
  <2> QED
    BY <1>4, <1>5, <2>2, <2>3 DEF ObjectOf
<1> QED
  BY <1>6, <1>7, <1>8, <1>9, <1>11, <1>12

\* The thread has ended or is given up: the object is as before its start.
LEMMA JoinInv ==
    ASSUME IInv, Join \/ JoinTimesOut
    PROVE  IInv'
<1> USE DEF IInv
<1>1. PICK q \in Queues : /\ q = stopper.queue /\ stopper.pc = "join" /\ q \in signalled
                          /\ lq[q].started /\ stopper \in Stopper
  BY DEF Join, JoinTimesOut, Stopping, TypeOK
<1>2. /\ Stopped(q)
      /\ \/ worker[lq[q].thread].pc = "exited" /\ timedOut' = timedOut
         \/ timedOut' = timedOut \union {q}
  BY <1>1 DEF Join, JoinTimesOut
<1>3. /\ UNCHANGED <<caller, worker, stops, signalled, history>> /\ current' = NoQueue
      /\ stopper' \in Stopper /\ stopper'.pc = "idle"
  BY <1>2 DEF Stopped, Stopper
<1> DEFINE x == [lq[q] EXCEPT !.started = FALSE, !.locked = FALSE]
<1>4. lq[q] \in Object
  BY DEF TypeOK
<1>5. /\ x \in Object /\ ~x.started /\ ~x.locked /\ x.event = lq[q].event
      /\ x.thread = lq[q].thread /\ x.items = lq[q].items
  BY <1>4 DEF Object
<1>6. lq' = [lq EXCEPT ![q] = x]
  BY <1>2 DEF Stopped, TypeOK
<1> HIDE DEF x
<1>7. ObjectOf(q, x)
  BY <1>5, <1>6, SetObject
<1>8. \A r \in Queues : lq'[r].items = lq[r].items /\ lq'[r].event = lq[r].event
  BY <1>5, <1>7 DEF ObjectOf
<1>9. TypeOK'
  <2>1. timedOut' \in SUBSET Queues
    BY <1>2 DEF TypeOK
  <2> QED
    BY <1>3, <1>7, <1>8, <2>1 DEF TypeOK, ObjectOf, history
<1>10. Equipped' /\ Signals'
  BY <1>3, <1>8 DEF Equipped, Signals
<1>11. Stopping'
  BY <1>1, <1>2, <1>3, <1>5, <1>7 DEF Stopping, ObjectOf
<1>12. Threads'
  <2> SUFFICES ASSUME NEW r \in Queues PROVE ThreadOf(r)'
    BY DEF Threads
  <2>1. ThreadOf(r) /\ Live(r)' = Live(r)
    BY <1>3 DEF Threads, Live
  <2>2. CASE r # q
    <3>1. /\ lq'[r] = lq[r] /\ worker' = worker
          /\ signalled' = signalled /\ timedOut \subseteq timedOut'
      BY <1>2, <1>3, <1>7, <2>2 DEF ObjectOf
    <3> QED
      BY <2>1, <3>1 DEF ThreadOf
  <2>3. CASE r = q
    <3>1. ~lq'[r].started
      BY <1>5, <1>7, <2>3 DEF ObjectOf
    <3>2. r \notin timedOut' => Live(r) = {}
      BY <1>2, <2>1, <2>3 DEF ThreadOf, Live
    <3> QED
      BY <2>1, <3>1, <3>2 DEF ThreadOf
  <2> QED
    BY <2>2, <2>3
<1>13. Once' /\ Ordered' /\ Complete'
  BY <1>2, <1>3, <1>8, StopOrder
<1> QED
  BY <1>9, <1>10, <1>11, <1>12, <1>13

-----------------------------------------------------------------------------
(* A job is taken.                                                         *)

\* put_nowait: the job is the newest, or there is no room.
LEMMA PutInv ==
    ASSUME IInv, NEW j \in Jobs, Put(j)
    PROVE  IInv'
<1> USE DEF IInv
<1>0. /\ caller[j] \in Caller /\ caller[j].queue \in Queues /\ caller[j].pc = "put"
      /\ UNCHANGED <<current, worker, stopVars, begun>> /\ current \in Queues \union {NoQueue}
  BY DEF Put, TypeOK, Equipped
<1>1. PICK q \in Queues : q = caller[j].queue
  BY <1>0
<1>2. CASE ~(Len(lq[q].items) < MaxSize)
  <2> DEFINE c == [caller[j] EXCEPT !.pc = "rejected"]
  <2>1. c \in Caller /\ c.queue \in Queues
    BY <1>0 DEF Caller
  <2>2. caller' = [caller EXCEPT ![j] = c] /\ UNCHANGED <<lq, accepted>>
    BY <1>1, <1>2 DEF Put, TypeOK
  <2> HIDE DEF c
  <2>3. current' \in Queues \union {NoQueue}
    BY <1>0
  <2> QED
    BY <1>0, <2>1, <2>2, <2>3, CallerInv DEF history
<1>3. CASE Len(lq[q].items) < MaxSize
  <2>1. /\ lq' = [lq EXCEPT ![q].items = Append(@, j)]
        /\ accepted' = [accepted EXCEPT ![q] = Append(@, j)]
        /\ caller' = [caller EXCEPT ![j].pc = "accepted"]
    BY <1>1, <1>3 DEF Put
  <2> DEFINE c == [caller[j] EXCEPT !.pc = "accepted"]
             s == Append(lq[q].items, j)
             x == [lq[q] EXCEPT !.items = s]
             m == Len(lq[q].items)
             a == accepted[q]
             n == Len(a)
  <2>2. c \in Caller /\ c.queue = q /\ c.pc = "accepted"
    BY <1>0, <1>1 DEF Caller
  <2>3. lq[q] \in Object /\ lq[q].items \in Seq(Jobs \union {Sentinel})
    BY DEF TypeOK, Object
  <2>4. /\ s \in Seq(Jobs \union {Sentinel}) /\ m \in Nat /\ Len(s) = m + 1 /\ s[m + 1] = j
        /\ \A k \in 1..m : s[k] = lq[q].items[k]
        /\ 1..Len(s) = (1..m) \union {m + 1}
    BY <2>3, Appended
  <2>5. /\ x \in Object /\ x.started = lq[q].started /\ x.event = lq[q].event
        /\ x.thread = lq[q].thread /\ x.locked = lq[q].locked /\ x.items = s
    <3> HIDE DEF s
    <3> QED
      BY <2>3, <2>4 DEF Object
  <2>6. lq' = [lq EXCEPT ![q] = x] /\ caller' = [caller EXCEPT ![j] = c]
    BY <2>1 DEF TypeOK
  <2> HIDE DEF c, x
  <2>7. ObjectOf(q, x)
    BY <2>5, <2>6, SetObject
  <2>8. /\ caller' \in [Jobs -> Caller] /\ caller'[j] = c
        /\ \A k \in Jobs : k # j => caller'[k] = caller[k]
    BY <2>2, <2>6 DEF TypeOK
  <2>9. \A r \in Queues : /\ lq'[r].started = lq[r].started /\ lq'[r].event = lq[r].event
                          /\ lq'[r].thread = lq[r].thread /\ lq'[r].locked = lq[r].locked
                          /\ r # q => lq'[r] = lq[r]
    BY <2>5, <2>7 DEF ObjectOf
  <2>10. lq'[q].items = s
    BY <2>5, <2>7 DEF ObjectOf
  <2>11. UNCHANGED <<worker, stopper, stops, signalled, timedOut, begun, current>>
    BY <1>0 DEF stopVars
  <2>12. /\ accepted \in [Queues -> Seq(Jobs)] /\ accepted' \in [Queues -> Seq(Jobs)]
         /\ a \in Seq(Jobs) /\ accepted'[q] = Append(a, j)
         /\ \A r \in Queues : r # q => accepted'[r] = accepted[r]
    BY <2>1 DEF TypeOK
  <2>13. TypeOK'
    <3>1. Len(lq'[q].items) <= MaxSize
      <4> HIDE DEF s, m
      <4> QED
        BY <1>3, <2>4, <2>10 DEF m
    <3>2. \A r \in Queues : Len(lq'[r].items) <= MaxSize
      BY <2>9, <3>1 DEF TypeOK
    <3> QED
      BY <1>0, <2>7, <2>8, <2>11, <2>12, <3>2 DEF TypeOK, ObjectOf
  <2>14. Equipped' /\ Stopping'
    BY <2>2, <2>8, <2>9, <2>11 DEF Equipped, Stopping
  <2>15. Signals'
    <3> SUFFICES ASSUME NEW r \in Queues \ signalled
                 PROVE  /\ ~lq'[r].event
                        /\ \A k \in 1..Len(lq'[r].items) : lq'[r].items[k] # Sentinel
      BY <2>11 DEF Signals
    <3>1. /\ ~lq[r].event /\ \A k \in 1..Len(lq[r].items) : lq[r].items[k] # Sentinel
      BY DEF Signals
    <3>2. CASE r # q
      BY <2>9, <3>1, <3>2
    <3>3. CASE r = q
      <4>1. j # Sentinel
        OBVIOUS
      <4> HIDE DEF s
      <4> QED
        BY <2>4, <2>9, <2>10, <3>1, <3>3, <4>1
    <3> QED
      BY <3>2, <3>3
  <2>16. Threads'
    BY <2>9, <2>11, ThreadsStay
  <2>17. \A r \in Queues : \A i \in 1..Len(accepted[r]) : accepted[r][i] # j
    BY <1>0 DEF Once
  <2>18. Once'
    <3>1. \A r \in Queues : \A i \in 1..Len(accepted[r]) :
             caller'[accepted[r][i]] = caller[accepted[r][i]]
      BY <2>8, <2>12, <2>17
    <3> SUFFICES ASSUME NEW r \in Queues
                 PROVE /\ \A i \in 1..Len(accepted'[r]) :
                              /\ caller'[accepted'[r][i]].pc = "accepted"
                              /\ caller'[accepted'[r][i]].queue = r
                       /\ \A i, k \in 1..Len(accepted'[r]) :
                              accepted'[r][i] = accepted'[r][k] => i = k
      BY DEF Once
    <3>2. /\ \A i \in 1..Len(accepted[r]) :
                /\ caller'[accepted[r][i]].pc = "accepted"
                /\ caller'[accepted[r][i]].queue = r
          /\ \A i, k \in 1..Len(accepted[r]) : accepted[r][i] = accepted[r][k] => i = k
      BY <3>1 DEF Once
    <3>3. CASE r # q
      BY <2>12, <3>2, <3>3
    <3>4. CASE r = q
      <4> DEFINE a2 == Append(a, j)
      <4>1. /\ n \in Nat /\ Len(a2) = n + 1 /\ a2[n + 1] = j
            /\ \A i \in 1..n : a2[i] = a[i]
            /\ 1..Len(a2) = (1..n) \union {n + 1}
        BY <2>12, Appended
      <4>2. /\ accepted'[r] = a2 /\ accepted[r] = a /\ \A i \in 1..n : a[i] # j
        BY <2>12, <2>17, <3>4
      <4>3. /\ \A i \in 1..n : caller'[a[i]].pc = "accepted" /\ caller'[a[i]].queue = r
            /\ \A i, k \in 1..n : a[i] = a[k] => i = k
        BY <3>2, <4>2
      <4> HIDE DEF a2, a, n
      <4>4. \A i \in 1..Len(a2) : caller'[a2[i]].pc = "accepted" /\ caller'[a2[i]].queue = r
        BY <2>2, <2>8, <3>4, <4>1, <4>3
      <4>5. \A i, k \in 1..Len(a2) : a2[i] = a2[k] => i = k
        BY <4>1, <4>2, <4>3
      <4> QED
        BY <4>2, <4>4, <4>5
    <3> QED
      BY <3>3, <3>4
  <2>19. \A r \in Queues : Naps(r)' = Naps(r)
    BY <2>11 DEF Naps, Sleepers
  <2>20. Complete'
    <3> SUFFICES ASSUME NEW r \in Queues \ signalled
                 PROVE  Whole(accepted'[r], begun[r], Naps(r), lq'[r].items)
      BY <2>11, <2>19 DEF Complete
    <3>1. Whole(accepted[r], begun[r], Naps(r), lq[r].items)
      BY DEF Complete
    <3>2. CASE r # q
      BY <2>9, <2>12, <3>1, <3>2
    <3>3. CASE r = q
      <4>1. begun[q] \in Seq(Jobs)
        BY DEF TypeOK
      <4> QED
        <5>1. Whole(a, begun[q], Naps(q), lq[q].items)
          BY <3>1, <3>3
        <5> HIDE DEF a
        <5>2. Whole(Append(a, j), begun[q], Naps(q), Append(lq[q].items, j))
          BY <2>3, <2>12, <4>1, <5>1, WholePut
        <5> QED
          BY <2>10, <2>12, <3>3, <5>2
    <3> QED
      BY <3>2, <3>3
  <2>21. Ordered'
    <3> SUFFICES ASSUME NEW r \in Queues \ timedOut
                 PROVE  Chain(accepted'[r], begun[r], Naps(r), lq'[r].items)
      BY <2>11, <2>19 DEF Ordered
    <3>1. Chain(accepted[r], begun[r], Naps(r), lq[r].items)
      BY DEF Ordered
    <3>2. CASE r # q
      BY <2>9, <2>12, <3>1, <3>2
    <3>3. CASE r = q
      <4>1. ~In(a, j)
        BY <2>17 DEF In
      <4> QED
        <5>1. Chain(a, begun[q], Naps(q), lq[q].items)
          BY <3>1, <3>3
        <5> HIDE DEF a
        <5>2. Chain(Append(a, j), begun[q], Naps(q), Append(lq[q].items, j))
          BY <2>3, <2>12, <4>1, <5>1, ChainPut
        <5> QED
          BY <2>10, <2>12, <3>3, <5>2
    <3> QED
      BY <3>2, <3>3
  <2> QED
    BY <2>13, <2>14, <2>15, <2>16, <2>18, <2>20, <2>21
<1> QED
  BY <1>2, <1>3

-----------------------------------------------------------------------------
(* A job is begun.                                                         *)

\* Unless join() has timed out, no other thread sleeps at the same object.
LEMMA SleepsAlone ==
    ASSUME IInv, NEW w \in Workers, worker[w].pc \notin {"none", "exited"},
           worker[w].queue \notin timedOut,
           NEW u \in Workers, u # w, worker[u].queue = worker[w].queue
    PROVE  worker[u].pc # "sleep"
<1>1. PICK q \in Queues : q = worker[w].queue
  BY DEF IInv, Equipped
<1>2. w \in Live(q) /\ \A v \in Live(q) : v = lq[q].thread
  BY <1>1 DEF IInv, Threads, ThreadOf, Live
<1> QED
  BY <1>1, <1>2 DEF Live

\* A thread at work takes the oldest item, begins a job, or ends.
LEMMA WorkInv ==
    ASSUME IInv, NEW w \in Workers, NEW q \in Queues, q = worker[w].queue,
           NEW t \in Thread, worker' = [worker EXCEPT ![w] = t],
           worker[w].pc \notin {"none", "exited"}, t.pc # "none", t.queue = q,
           t.pc = "exited" => q \in signalled,
           t.pc \in {"sleep", "run", "count"} => t.job \in Jobs,
           NEW s \in Seq(Jobs \union {Sentinel}), lq' = [lq EXCEPT ![q].items = s],
           \/ s = lq[q].items
           \/ lq[q].items # <<>> /\ s = Tail(lq[q].items),
           NEW b \in Seq(Jobs), begun' = [begun EXCEPT ![q] = b],
           UNCHANGED <<callVars, stopVars, accepted>>,
           LET J == IF t.pc = "sleep" THEN {t.job} ELSE {}
               K == IF worker[w].pc = "sleep" THEN {worker[w].job} ELSE {}
           IN  /\ Chain(accepted[q], begun[q], K, lq[q].items) => Chain(accepted[q], b, J, s)
               /\ q \notin signalled =>
                     (Whole(accepted[q], begun[q], K, lq[q].items)
                        => Whole(accepted[q], b, J, s))
    PROVE  IInv'
<1> USE DEF IInv, callVars, stopVars
<1>1. /\ worker' \in [Workers -> Thread] /\ worker'[w] = t
      /\ \A u \in Workers : u # w => worker'[u] = worker[u]
  BY DEF TypeOK
<1>2. lq[q] \in Object /\ lq[q].items \in Seq(Jobs \union {Sentinel})
  BY DEF TypeOK, Object
<1>3. PICK x \in Object : /\ x.items = s /\ x.started = lq[q].started /\ x.event = lq[q].event
                          /\ x.thread = lq[q].thread /\ x.locked = lq[q].locked
                          /\ lq' = [lq EXCEPT ![q] = x]
  <2> DEFINE x == [lq[q] EXCEPT !.items = s]
  <2>1. /\ x \in Object /\ x.items = s /\ x.started = lq[q].started /\ x.event = lq[q].event
        /\ x.thread = lq[q].thread /\ x.locked = lq[q].locked
    BY <1>2 DEF Object
  <2>2. lq' = [lq EXCEPT ![q] = x]
    BY DEF TypeOK
  <2> HIDE DEF x
  <2> QED
    BY <2>1, <2>2
<1>4. ObjectOf(q, x)
  BY <1>3, SetObject
<1>5. /\ lq'[q].items = s
      /\ \A r \in Queues : /\ lq'[r].started = lq[r].started /\ lq'[r].event = lq[r].event
                           /\ lq'[r].thread = lq[r].thread /\ lq'[r].locked = lq[r].locked
                           /\ r # q => lq'[r] = lq[r]
  BY <1>3, <1>4 DEF ObjectOf
<1>6. begun' \in [Queues -> Seq(Jobs)] /\ begun'[q] = b
      /\ \A r \in Queues : r # q => begun'[r] = begun[r]
  BY DEF TypeOK
<1>7. /\ Len(s) <= Len(lq[q].items)
      /\ q \notin signalled => \A k \in 1..Len(s) : s[k] # Sentinel
  <2>1. Len(lq[q].items) \in Nat
    BY <1>2
  <2>2. q \notin signalled => \A k \in 1..Len(lq[q].items) : lq[q].items[k] # Sentinel
    BY DEF Signals
  <2>3. CASE s = lq[q].items
    BY <2>1, <2>2, <2>3
  <2>4. CASE lq[q].items # <<>> /\ s = Tail(lq[q].items)
    <3> DEFINE i == lq[q].items  m == Len(i)
    <3>1. Len(s) = m - 1 /\ \A k \in 1..(m - 1) : s[k] = i[k + 1]
      BY <1>2, <2>4, Tailed
    <3>2. m \in Nat /\ (q \notin signalled => \A k \in 1..m : i[k] # Sentinel)
      BY <2>1, <2>2
    <3> HIDE DEF i, m
    <3>3. Len(s) <= m /\ \A k \in 1..Len(s) : k + 1 \in 1..m /\ s[k] = i[k + 1]
      BY <3>1, <3>2
    <3>4. Len(s) <= m /\ (q \notin signalled => \A k \in 1..Len(s) : s[k] # Sentinel)
      BY <3>2, <3>3
    <3> QED
      BY <3>4 DEF m, i
  <2> QED
    BY <2>3, <2>4
<1>8. TypeOK'
  <2>1. Len(lq[q].items) \in Nat /\ Len(s) \in Nat /\ Len(lq[q].items) <= MaxSize
    BY <1>2 DEF TypeOK
  <2>2. \A r \in Queues : Len(lq'[r].items) <= MaxSize
    BY <1>5, <1>7, <2>1 DEF TypeOK
  <2> QED
    BY <1>1, <1>4, <1>6, <2>2 DEF TypeOK, ObjectOf
<1>9. Equipped'
  BY <1>1 DEF Equipped
<1>10. Stopping'
  BY <1>5 DEF Stopping
<1>11. Signals'
  BY <1>5, <1>7 DEF Signals
<1>12. Threads'
  BY <1>1, <1>5, ThreadMoves
<1>13. Once'
  BY DEF Once
<1>14. \A r \in Queues : r # q => Naps(r)' = Naps(r)
  BY <1>1 DEF Naps, Sleepers
<1>15. q \notin timedOut => /\ Naps(q) = IF worker[w].pc = "sleep" THEN {worker[w].job} ELSE {}
                           /\ Naps(q)' = IF t.pc = "sleep" THEN {t.job} ELSE {}
  <2> SUFFICES ASSUME q \notin timedOut
               PROVE  /\ Naps(q) = IF worker[w].pc = "sleep" THEN {worker[w].job} ELSE {}
                      /\ Naps(q)' = IF t.pc = "sleep" THEN {t.job} ELSE {}
    OBVIOUS
  <2>1. \A u \in Workers : u # w /\ worker[u].queue = q => worker[u].pc # "sleep"
    BY SleepsAlone
  <2>2. {u \in Workers : worker[u].queue = q /\ worker[u].pc = "sleep"}
           = IF worker[w].pc = "sleep" THEN {w} ELSE {}
    BY <2>1
  <2>3. {u \in Workers : worker'[u].queue = q /\ worker'[u].pc = "sleep"}
           = IF t.pc = "sleep" THEN {w} ELSE {}
    BY <1>1, <2>1
  <2> QED
    BY <1>1, <2>2, <2>3 DEF Naps, Sleepers
<1>16. Ordered'
  <2> SUFFICES ASSUME NEW r \in Queues \ timedOut
               PROVE  Chain(accepted[r], begun'[r], Naps(r)', lq'[r].items)
    BY DEF Ordered
  <2>1. Chain(accepted[r], begun[r], Naps(r), lq[r].items)
    BY DEF Ordered
  <2> QED
    BY <1>5, <1>6, <1>14, <1>15, <2>1
<1>17. Complete'
  <2> SUFFICES ASSUME NEW r \in Queues \ signalled
               PROVE  Whole(accepted[r], begun'[r], Naps(r)', lq'[r].items)
    BY DEF Complete
  <2>1. Whole(accepted[r], begun[r], Naps(r), lq[r].items) /\ r \notin timedOut
    BY DEF Complete, Stopping
  <2> QED
    BY <1>5, <1>6, <1>14, <1>15, <2>1
<1> QED
  BY <1>8, <1>9, <1>10, <1>11, <1>12, <1>13, <1>16, <1>17

\* queue.get(): nothing, the sentinel, a job that has to wait, or one to run.
LEMMA GetInv ==
    ASSUME IInv, NEW w \in Workers, Get(w)
    PROVE  IInv'
<1>0. /\ worker[w] \in Thread /\ worker[w].pc = "get" /\ worker[w].queue \in Queues
      /\ worker \in [Workers -> Thread] /\ begun \in [Queues -> Seq(Jobs)]
      /\ UNCHANGED <<callVars, stopVars, accepted>>
  BY DEF Get, IInv, TypeOK, Equipped
<1>1. PICK q \in Queues : q = worker[w].queue
  BY <1>0
<1>2. /\ lq[q].items \in Seq(Jobs \union {Sentinel}) /\ begun[q] \in Seq(Jobs)
      /\ accepted[q] \in Seq(Jobs) /\ lq \in [Queues -> Object]
  BY DEF IInv, TypeOK, Object
<1>3. CASE lq[q].items = <<>> /\ Go(w, "loop") /\ UNCHANGED <<lq, begun>>
  <2>1. worker[w].pc \notin {"none", "exited", "sleep"}
    BY <1>0
  <2>2. /\ worker' \in [Workers -> Thread] /\ worker'[w].pc = "loop"
        /\ worker'[w].queue = worker[w].queue
        /\ \A u \in Workers : u # w => worker'[u] = worker[u]
    BY <1>3, Goes DEF IInv, Pcs
  <2> QED
    BY <1>0, <1>3, <2>1, <2>2, GoInv DEF history
<1>4. CASE lq[q].items # <<>> /\ lq' = [lq EXCEPT ![q].items = Tail(@)]
  <2> DEFINE s == Tail(lq[q].items)  h == Head(lq[q].items)
  <2>1. s \in Seq(Jobs \union {Sentinel}) /\ h \in Jobs \union {Sentinel}
    BY <1>2, <1>4, Tailed
  <2>2. lq' = [lq EXCEPT ![q].items = s]
    BY <1>2, <1>4
  <2>3. CASE h = Sentinel
    <3> DEFINE t == [worker[w] EXCEPT !.pc = "exited"]
    <3>1. t \in Thread /\ t.pc = "exited" /\ t.queue = q
      BY <1>0, <1>1 DEF Thread
    <3>2. worker' = [worker EXCEPT ![w] = t] /\ begun' = begun
      BY <1>0, <1>1, <1>4, <2>3 DEF Get, Go
    <3>3. begun' = [begun EXCEPT ![q] = begun[q]]
      BY <1>0, <3>2
    <3>4. q \in signalled
      <4>1. 1 \in 1..Len(lq[q].items) /\ lq[q].items[1] = Sentinel
        BY <1>2, <1>4, <2>3, Tailed
      <4> QED
        BY <4>1 DEF IInv, Signals
    <3>5. Chain(accepted[q], begun[q], {}, lq[q].items) => Chain(accepted[q], begun[q], {}, s)
      BY <1>2, <1>4, ChainTail
    <3> HIDE DEF t, s, h
    <3> DEFINE z == lq[q].items  b == begun[q]
    <3>6. \/ s = lq[q].items
          \/ lq[q].items # <<>> /\ s = Tail(lq[q].items)
      BY <1>4 DEF s
    <3>7. LET J == IF t.pc = "sleep" THEN {t.job} ELSE {}
              K == IF worker[w].pc = "sleep" THEN {worker[w].job} ELSE {}
          IN  /\ Chain(accepted[q], begun[q], K, lq[q].items)
                    => Chain(accepted[q], begun[q], J, s)
              /\ q \notin signalled =>
                    (Whole(accepted[q], begun[q], K, lq[q].items)
                       => Whole(accepted[q], begun[q], J, s))
      BY <1>0, <3>1, <3>4, <3>5
    <3>8. worker[w].pc \notin {"none", "exited"} /\ t.pc # "none"
          /\ (t.pc = "exited" => q \in signalled)
          /\ (t.pc \in {"sleep", "run", "count"} => t.job \in Jobs)
      BY <1>0, <3>1, <3>4
    <3> QED
      BY <1>0, <1>1, <1>2, <2>1, <2>2, <3>1, <3>2, <3>3, <3>6, <3>7, <3>8, WorkInv
  <2>4. CASE h # Sentinel /\ h \in Delayed
    <3> DEFINE t == [worker[w] EXCEPT !.pc = "sleep", !.job = h]
               b == begun[q]
    <3>1. h \in Jobs
      BY <2>1, <2>4
    <3>2. t \in Thread /\ t.pc = "sleep" /\ t.queue = q /\ t.job = h
      <4> HIDE DEF h
      <4> QED
        BY <1>0, <1>1, <3>1 DEF Thread
    <3>3. worker' = [worker EXCEPT ![w] = t]
      BY <1>0, <1>1, <1>4, <2>4 DEF Get, Begin
    <3>4. begun' = [begun EXCEPT ![q] = b] /\ b \in Seq(Jobs)
      <4>1. begun' = begun
        BY <1>0, <1>1, <1>4, <2>4 DEF Get, Begin
      <4> QED
        BY <1>0, <1>2, <4>1
    <3>5. Chain(accepted[q], begun[q], {}, lq[q].items)
             => Chain(accepted[q], b, {h}, s)
      BY <1>2, <1>4, <2>4, ChainSleep
    <3>6. Whole(accepted[q], begun[q], {}, lq[q].items)
             => Whole(accepted[q], b, {h}, s)
      <4> SUFFICES ASSUME Tiles(accepted[q], begun[q], 0, lq[q].items)
                   PROVE  Whole(accepted[q], begun[q], {h}, s)
        BY DEF Whole
      <4>1. accepted[q][Len(begun[q]) + 1] = h /\ Tiles(accepted[q], begun[q], 1, s)
        BY <1>2, <1>4, TilesGet
      <4> QED
        BY <4>1 DEF Whole
    <3>7. \/ s = lq[q].items
          \/ lq[q].items # <<>> /\ s = Tail(lq[q].items)
      BY <1>4
    <3> HIDE DEF t, s, h, b
    <3>8. LET J == IF t.pc = "sleep" THEN {t.job} ELSE {}
              K == IF worker[w].pc = "sleep" THEN {worker[w].job} ELSE {}
          IN  /\ Chain(accepted[q], begun[q], K, lq[q].items)
                    => Chain(accepted[q], b, J, s)
              /\ q \notin signalled =>
                    (Whole(accepted[q], begun[q], K, lq[q].items)
                       => Whole(accepted[q], b, J, s))
      BY <1>0, <3>2, <3>5, <3>6
    <3>9. worker[w].pc \notin {"none", "exited"} /\ t.pc # "none"
          /\ (t.pc = "exited" => q \in signalled)
          /\ (t.pc \in {"sleep", "run", "count"} => t.job \in Jobs)
      BY <1>0, <3>1, <3>2
    <3> QED
      BY <1>0, <1>1, <2>1, <2>2, <3>2, <3>3, <3>4, <3>7, <3>8, <3>9, WorkInv
  <2>5. CASE h # Sentinel /\ h \notin Delayed
    <3> DEFINE t == [worker[w] EXCEPT !.pc = "run", !.job = h]
               b == Append(begun[q], h)
    <3>1. h \in Jobs
      BY <2>1, <2>5
    <3>2. t \in Thread /\ t.pc = "run" /\ t.queue = q /\ t.job = h
      <4> HIDE DEF h
      <4> QED
        BY <1>0, <1>1, <3>1 DEF Thread
    <3>3. worker' = [worker EXCEPT ![w] = t]
      BY <1>0, <1>1, <1>4, <2>5 DEF Get, Begin
    <3>4. begun' = [begun EXCEPT ![q] = b] /\ b \in Seq(Jobs)
      <4>1. begun' = [begun EXCEPT ![q] = Append(@, h)]
        BY <1>0, <1>1, <1>4, <2>5 DEF Get, Begin
      <4> QED
        BY <1>0, <1>2, <3>1, <4>1
    <3>5. Chain(accepted[q], begun[q], {}, lq[q].items) => Chain(accepted[q], b, {}, s)
      <4> SUFFICES ASSUME Chain(accepted[q], begun[q], {}, lq[q].items)
                   PROVE  Chain(accepted[q], b, {}, s)
        OBVIOUS
      <4>1. Chain(accepted[q], begun[q], {h}, s)
        BY <1>2, <1>4, <2>5, ChainSleep
      <4> HIDE DEF h, s
      <4> QED
        BY <1>2, <4>1, ChainBegin
    <3>6. Whole(accepted[q], begun[q], {}, lq[q].items) => Whole(accepted[q], b, {}, s)
      <4> SUFFICES ASSUME Tiles(accepted[q], begun[q], 0, lq[q].items)
                   PROVE  Whole(accepted[q], b, {}, s)
        BY DEF Whole
      <4>1. Tiles(accepted[q], b, 0, s)
        BY <1>2, <1>4, TilesGet
      <4> QED
        BY <4>1 DEF Whole
    <3>7. \/ s = lq[q].items
          \/ lq[q].items # <<>> /\ s = Tail(lq[q].items)
      BY <1>4
    <3> HIDE DEF t, s, h, b
    <3>8. LET J == IF t.pc = "sleep" THEN {t.job} ELSE {}
              K == IF worker[w].pc = "sleep" THEN {worker[w].job} ELSE {}
          IN  /\ Chain(accepted[q], begun[q], K, lq[q].items) => Chain(accepted[q], b, J, s)
              /\ q \notin signalled =>
                    (Whole(accepted[q], begun[q], K, lq[q].items)
                       => Whole(accepted[q], b, J, s))
      BY <1>0, <3>2, <3>5, <3>6
    <3>9. worker[w].pc \notin {"none", "exited"} /\ t.pc # "none"
          /\ (t.pc = "exited" => q \in signalled)
          /\ (t.pc \in {"sleep", "run", "count"} => t.job \in Jobs)
      BY <1>0, <3>1, <3>2
    <3> QED
      BY <1>0, <1>1, <2>1, <2>2, <3>2, <3>3, <3>4, <3>7, <3>8, <3>9, WorkInv
  <2> QED
    BY <2>3, <2>4, <2>5
<1> QED
  BY <1>1, <1>3, <1>4 DEF Get

\* The delay is over, or a stop() cuts it short and the job is dropped.
LEMMA WakeInv ==
    ASSUME IInv, NEW w \in Workers, Wake(w)
    PROVE  IInv'
<1>0. /\ worker[w] \in Thread /\ worker[w].pc = "sleep" /\ worker[w].queue \in Queues
      /\ worker \in [Workers -> Thread] /\ begun \in [Queues -> Seq(Jobs)]
      /\ lq \in [Queues -> Object] /\ worker[w].job \in Jobs
      /\ UNCHANGED <<callVars, lq, stopVars, accepted>>
  BY DEF Wake, IInv, TypeOK, Equipped
<1>1. PICK q \in Queues : q = worker[w].queue
  BY <1>0
<1>2. PICK h \in Jobs : h = worker[w].job
  BY <1>0
<1> DEFINE s == lq[q].items
<1>3. s \in Seq(Jobs \union {Sentinel}) /\ begun[q] \in Seq(Jobs) /\ accepted[q] \in Seq(Jobs)
  BY DEF IInv, TypeOK, Object
<1>4. lq' = [lq EXCEPT ![q].items = s]
  <2>1. lq' = lq /\ lq[q] \in Object
    BY <1>0
  <2>2. [lq[q] EXCEPT !.items = s] = lq[q]
    BY <2>1 DEF Object
  <2>3. [lq EXCEPT ![q] = lq[q]] = lq
    BY <1>0
  <2> QED
    BY <2>1, <2>2, <2>3
<1>5. CASE lq[q].event
  <2> DEFINE t == [worker[w] EXCEPT !.pc = "exited"]  b == begun[q]
  <2>1. t \in Thread /\ t.pc = "exited" /\ t.queue = q
    BY <1>0, <1>1 DEF Thread
  <2>2. worker' = [worker EXCEPT ![w] = t]
    BY <1>0, <1>1, <1>5 DEF Wake, Own, Go
  <2>3. begun' = [begun EXCEPT ![q] = b] /\ b \in Seq(Jobs)
    <3>1. begun' = begun
      BY <1>1, <1>5 DEF Wake, Own
    <3> QED
      BY <1>0, <1>3, <3>1
  <2>4. q \in signalled
    BY <1>5 DEF IInv, Signals
  <2>5. Chain(accepted[q], begun[q], {h}, s) => Chain(accepted[q], b, {}, s)
    BY ChainDrop
  <2> HIDE DEF t, b
  <2>6. LET J == IF t.pc = "sleep" THEN {t.job} ELSE {}
            K == IF worker[w].pc = "sleep" THEN {worker[w].job} ELSE {}
        IN  /\ Chain(accepted[q], begun[q], K, lq[q].items) => Chain(accepted[q], b, J, s)
            /\ q \notin signalled =>
                  (Whole(accepted[q], begun[q], K, lq[q].items) => Whole(accepted[q], b, J, s))
    BY <1>0, <1>2, <2>1, <2>4, <2>5
  <2>7. /\ worker[w].pc \notin {"none", "exited"} /\ t.pc # "none"
        /\ (t.pc = "exited" => q \in signalled)
        /\ (t.pc \in {"sleep", "run", "count"} => t.job \in Jobs)
        /\ (\/ s = lq[q].items
            \/ lq[q].items # <<>> /\ s = Tail(lq[q].items))
        /\ UNCHANGED <<callVars, stopVars, accepted>>
    BY <1>0, <2>1, <2>4
  <2> HIDE DEF s
  <2> QED
    BY <1>1, <1>3, <1>4, <2>1, <2>2, <2>3, <2>6, <2>7, WorkInv
<1>6. CASE ~lq[q].event
  <2> DEFINE t == [worker[w] EXCEPT !.pc = "run"]  b == Append(begun[q], h)
  <2>1. t \in Thread /\ t.pc = "run" /\ t.queue = q /\ t.job = h
    BY <1>0, <1>1, <1>2 DEF Thread
  <2>2. worker' = [worker EXCEPT ![w] = t]
    BY <1>0, <1>1, <1>6 DEF Wake, Own, Go
  <2>3. begun' = [begun EXCEPT ![q] = b] /\ b \in Seq(Jobs)
    <3>1. begun' = [begun EXCEPT ![q] = Append(@, h)]
      BY <1>1, <1>2, <1>6 DEF Wake, Own
    <3> QED
      BY <1>0, <1>3, <3>1
  <2>4. Chain(accepted[q], begun[q], {h}, s) => Chain(accepted[q], b, {}, s)
    <3> HIDE DEF s
    <3> QED
      BY <1>3, ChainBegin
  <2>5. Whole(accepted[q], begun[q], {h}, s) => Whole(accepted[q], b, {}, s)
    <3> SUFFICES ASSUME Whole(accepted[q], begun[q], {h}, s)
                 PROVE  Whole(accepted[q], b, {}, s)
      OBVIOUS
    <3>1. Tiles(accepted[q], begun[q], 1, s) /\ accepted[q][Len(begun[q]) + 1] = h
      BY DEF Whole
    <3>2. Tiles(accepted[q], b, 0, s)
      <4> HIDE DEF s
      <4> QED
        BY <1>3, <3>1, TilesWake
    <3> QED
      BY <3>2 DEF Whole
  <2> HIDE DEF t, b
  <2>6. LET J == IF t.pc = "sleep" THEN {t.job} ELSE {}
            K == IF worker[w].pc = "sleep" THEN {worker[w].job} ELSE {}
        IN  /\ Chain(accepted[q], begun[q], K, lq[q].items) => Chain(accepted[q], b, J, s)
            /\ q \notin signalled =>
                  (Whole(accepted[q], begun[q], K, lq[q].items) => Whole(accepted[q], b, J, s))
    BY <1>0, <1>2, <2>1, <2>4, <2>5
  <2>7. /\ worker[w].pc \notin {"none", "exited"} /\ t.pc # "none"
        /\ (t.pc = "exited" => q \in signalled)
        /\ (t.pc \in {"sleep", "run", "count"} => t.job \in Jobs)
        /\ s = lq[q].items
    BY <1>0, <2>1
  <2> HIDE DEF s
  <2> QED
    BY <1>0, <1>1, <1>3, <1>4, <2>1, <2>2, <2>3, <2>6, <2>7, WorkInv
<1> QED
  BY <1>5, <1>6

-----------------------------------------------------------------------------
(* The theorems.                                                           *)

\* Nothing happens.
LEMMA StutterInv == IInv /\ UNCHANGED vars => IInv'
<1> SUFFICES ASSUME IInv, UNCHANGED vars PROVE IInv'
  OBVIOUS
<1> USE DEF vars, callVars, stopVars, history, IInv
<1>1. TypeOK' /\ Equipped' /\ Stopping' /\ Signals'
  BY DEF TypeOK, Equipped, Stopping, Signals
<1>2. Threads'
  BY DEF Threads, ThreadOf, Live
<1>3. Once' /\ Ordered' /\ Complete'
  BY SequelOrder DEF Sequel
<1> QED
  BY <1>1, <1>2, <1>3

\* Every step keeps the invariant.
LEMMA StepInv == IInv /\ [Next]_vars => IInv'
<1> SUFFICES ASSUME IInv, [Next]_vars PROVE IInv'
  OBVIOUS
<1>1. ASSUME NEW j \in Jobs, Publish(j) PROVE IInv'
  BY <1>1, GetQueueInv, CheckInv, StartInv, PutInv DEF Publish
<1>2. ASSUME NEW w \in Workers, Work(w) PROVE IInv'
  BY <1>2, LoopInv, GetInv, WakeInv DEF Work
<1>3. CASE Stop
  BY <1>3, StopSignalInv, StopSentinelInv, JoinInv DEF Stop
<1> QED
  BY <1>1, <1>2, <1>3, StutterInv DEF Next

\* The invariant holds throughout.
THEOREM Invariant == Spec => []IInv
  BY InitInv, StepInv, PTL DEF Spec

\* The variables keep their types, and no queue holds more than MaxSize items.
THEOREM TypeCorrect == Spec => []TypeOK
<1>1. IInv => TypeOK
  BY DEF IInv
<1> QED
  BY <1>1, Invariant, PTL

\* A LocalQueue has one worker thread, however many callers find it not
\* started, and none once a stop() has waited for it to end.
THEOREM SingleWorkerHolds == Spec => []SingleWorker
<1>1. ASSUME IInv PROVE SingleWorker
  <2> SUFFICES ASSUME NEW q \in Queues, Settled(q)
               PROVE  /\ Cardinality(Live(q)) <= (IF lq[q].started THEN 1 ELSE 0)
                      /\ (lq[q].started /\ q \notin signalled) => Live(q) # {}
    BY DEF SingleWorker
  <2>1. ThreadOf(q) /\ q \notin timedOut
    BY <1>1 DEF IInv, Threads, Settled
  <2>2. CASE ~lq[q].started
    <3>1. Live(q) = {}
      BY <2>1, <2>2 DEF ThreadOf
    <3> QED
      BY <2>2, <3>1, FS_EmptySet
  <2>3. CASE lq[q].started
    <3>1. Live(q) \subseteq {lq[q].thread}
      BY <2>1 DEF ThreadOf
    <3>2. Cardinality(Live(q)) <= 1
      <4>1. IsFiniteSet({lq[q].thread}) /\ Cardinality({lq[q].thread}) = 1
        BY FS_Singleton
      <4>2. Cardinality(Live(q)) <= Cardinality({lq[q].thread})
        BY <3>1, <4>1, FS_Subset
      <4> QED
        BY <4>1, <4>2
    <3>3. q \notin signalled => lq[q].thread \in Live(q)
      BY <2>1, <2>3 DEF ThreadOf, Live
    <3> QED
      BY <2>3, <3>2, <3>3
  <2> QED
    BY <2>2, <2>3
<1> QED
  BY <1>1, Invariant, PTL

\* Jobs run in the order in which put() took them: without a stop exactly the
\* oldest ones, and after a stop that waited none overtakes another.
THEOREM InOrderHolds == Spec => []InOrder
<1>1. ASSUME IInv PROVE InOrder
  <2> SUFFICES ASSUME NEW q \in Queues \ timedOut, NEW i \in 1..Len(begun[q])
               PROVE  /\ \E k \in 1..Len(accepted[q]) : accepted[q][k] = begun[q][i]
                      /\ q \notin signalled => begun[q][i] = accepted[q][i]
                      /\ \A k \in 1..(i - 1) :
                            Position(q, begun[q][k]) < Position(q, begun[q][i])
    BY DEF InOrder
  <2> DEFINE a == accepted[q]  b == begun[q]
  <2>1. /\ \A k \in 1..Len(b) : In(a, b[k])
        /\ \A k \in 1..(i - 1) : Before(a, b[k], b[i])
    BY <1>1 DEF IInv, Ordered, Chain
  <2>2. q \notin signalled => b[i] = a[i]
    BY <1>1 DEF IInv, Complete, Whole, Tiles
  <2>3. a \in Seq(Jobs) /\ b \in Seq(Jobs)
    BY <1>1 DEF IInv, TypeOK
  <2>4. ASSUME NEW j, In(a, j)
        PROVE  Position(q, j) \in 1..Len(a) /\ a[Position(q, j)] = j
    BY <2>4 DEF In, Position
  <2>5. ASSUME NEW k \in 1..(i - 1) PROVE Position(q, b[k]) < Position(q, b[i])
    <3>1. k \in 1..Len(b)
      BY <2>3
    <3>2. Before(a, b[k], b[i]) /\ In(a, b[k]) /\ In(a, b[i])
      BY <2>1, <3>1
    <3>3. /\ Position(q, b[k]) \in 1..Len(a) /\ a[Position(q, b[k])] = b[k]
          /\ Position(q, b[i]) \in 1..Len(a) /\ a[Position(q, b[i])] = b[i]
      BY <2>4, <3>2
    <3> QED
      BY <3>2, <3>3 DEF Before
  <2> QED
    BY <2>1, <2>2, <2>5 DEF In
<1> QED
  BY <1>1, Invariant, PTL
=============================================================================
