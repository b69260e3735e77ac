------------------------------ MODULE LocalQueue ------------------------------
(***************************************************************************)
(* mojo/apps/jobs/local_queue.py and publish_local: jobs run by a thread   *)
(* of the publishing process.  Callers get the process' LocalQueue from    *)
(* its manager, start its worker if it has none, and put their job in a    *)
(* bounded queue; stop_local_queue signals the worker, waits for it a      *)
(* while and forgets the LocalQueue.                                       *)
(*                                                                         *)
(* A step ends at a lock, a test of stop_event or `started`, or a call on  *)
(* queue.Queue.  A job is published once, by a caller of its own.          *)
(***************************************************************************)
EXTENDS Integers, Sequences, FiniteSets

CONSTANTS
    Jobs,
    Queues,      (* the LocalQueue objects a process may create *)
    Workers,     (* the threads it may start *)
    Delayed,     (* the jobs with a delay *)
    MaxSize,     (* maxsize of queue.Queue *)
    MaxStops,    (* bound on the calls of stop_local_queue *)
    NoQueue, NoWorker, NoJob,
    Sentinel     (* the None that stop() puts *)

ASSUME LocalAssumption ==
    /\ MaxSize \in Nat \ {0}
    /\ MaxStops \in Nat
    /\ Delayed \in SUBSET Jobs
    /\ NoQueue \notin Queues /\ NoWorker \notin Workers
    /\ NoJob \notin Jobs /\ Sentinel \notin Jobs

VARIABLES
    current,   (* the manager's _queue *)
    lq,        (* the LocalQueue objects *)
    caller,    (* where each job's caller of publish_local stands *)
    worker,    (* the worker threads *)
    stopper,   (* stop_queue, which holds the manager's lock throughout *)
    stops,     (* how often it was called *)
    accepted,  (* history: the jobs each queue took, in order *)
    begun,     (* history: the jobs each queue's workers ran, in order *)
    signalled, (* history: the queues a stop was called on *)
    timedOut   (* history: the queues on which join() timed out *)

callVars == <<current, caller>>
stopVars == <<stopper, stops, signalled, timedOut>>
history == <<accepted, begun>>
vars == <<callVars, lq, worker, stopVars, history>>

Object == [items : Seq(Jobs \union {Sentinel}), started : BOOLEAN, event : BOOLEAN,
           locked : BOOLEAN, thread : Workers \union {NoWorker}]
Thread == [pc : {"none", "loop", "get", "sleep", "run", "count", "exited"},
           queue : Queues \union {NoQueue}, job : Jobs \union {NoJob}]
Caller == [pc : {"new", "got", "start", "put", "accepted", "rejected"},
           queue : Queues \union {NoQueue}]
Stopper == [pc : {"idle", "sentinel", "join"}, queue : Queues \union {NoQueue}]

TypeOK ==
    /\ current \in Queues \union {NoQueue}
    /\ lq \in [Queues -> Object]
    /\ caller \in [Jobs -> Caller]
    /\ worker \in [Workers -> Thread]
    /\ stopper \in Stopper
    /\ stops \in 0..MaxStops
    /\ accepted \in [Queues -> Seq(Jobs)]
    /\ begun \in [Queues -> Seq(Jobs)]
    /\ signalled \in SUBSET Queues
    /\ timedOut \in SUBSET Queues
    /\ \A q \in Queues : Len(lq[q].items) <= MaxSize

Init ==
    /\ current = NoQueue
    /\ lq = [q \in Queues |-> [items |-> <<>>, started |-> FALSE, event |-> FALSE,
                               locked |-> FALSE, thread |-> NoWorker]]
    /\ caller = [j \in Jobs |-> [pc |-> "new", queue |-> NoQueue]]
    /\ worker = [w \in Workers |-> [pc |-> "none", queue |-> NoQueue, job |-> NoJob]]
    /\ stopper = [pc |-> "idle", queue |-> NoQueue]
    /\ stops = 0
    /\ accepted = [q \in Queues |-> <<>>]
    /\ begun = [q \in Queues |-> <<>>]
    /\ signalled = {}
    /\ timedOut = {}

-----------------------------------------------------------------------------
(* publish_local.                                                          *)

\* LocalQueue(): an object nobody has seen.
Unused == {q \in Queues : \A j \in Jobs : caller[j].queue # q}
NewQueue == CHOOSE q \in Unused : TRUE

\* get_queue, under the manager's lock; the first caller creates the object.
GetQueue(j) ==
    /\ caller[j].pc = "new"
    /\ stopper.pc = "idle"
    /\ current # NoQueue \/ Unused # {}
    /\ current' = IF current = NoQueue THEN NewQueue ELSE current
    /\ caller' = [caller EXCEPT ![j] = [pc |-> "got", queue |-> current']]
    /\ UNCHANGED <<lq, worker, stopVars, history>>

\* `if not self.started`, without the lock.
Check(j) ==
    /\ caller[j].pc = "got"
    /\ caller' = [caller EXCEPT ![j].pc =
                     IF lq[caller[j].queue].started THEN "put" ELSE "start"]
    /\ UNCHANGED <<current, lq, worker, stopVars, history>>

\* A new thread for q, and stop_event cleared.
Idle == {w \in Workers : worker[w].pc = "none"}
StartThread(q) ==
    LET w == CHOOSE w \in Idle : TRUE IN
       /\ Idle # {}
       /\ worker' = [worker EXCEPT ![w] = [pc |-> "loop", queue |-> q, job |-> NoJob]]
       /\ lq' = [lq EXCEPT ![q].started = TRUE, ![q].event = FALSE, ![q].thread = w]

\* Mutant: started is not tested again under the lock.
StartUnchecked(j) ==
    LET q == caller[j].queue IN
    /\ caller[j].pc = "start"
    /\ ~lq[q].locked
    /\ StartThread(q)
    /\ caller' = [caller EXCEPT ![j].pc = "put"]
    /\ UNCHANGED <<current, stopVars, history>>

\* start(), under the lock of the LocalQueue.
Start(j) ==
    LET q == caller[j].queue IN
    /\ caller[j].pc = "start"
    /\ ~lq[q].locked
    /\ IF lq[q].started THEN UNCHANGED <<lq, worker>> ELSE StartThread(q)
    /\ caller' = [caller EXCEPT ![j].pc = "put"]
    /\ UNCHANGED <<current, stopVars, history>>

\* put_nowait; publish_local does not look at what put() returns.
Put(j) ==
    LET q == caller[j].queue IN
    /\ caller[j].pc = "put"
    /\ IF Len(lq[q].items) < MaxSize
       THEN /\ lq' = [lq EXCEPT ![q].items = Append(@, j)]
            /\ accepted' = [accepted EXCEPT ![q] = Append(@, j)]
            /\ caller' = [caller EXCEPT ![j].pc = "accepted"]
       ELSE /\ caller' = [caller EXCEPT ![j].pc = "rejected"]
            /\ UNCHANGED <<lq, accepted>>
    /\ UNCHANGED <<current, worker, stopVars, begun>>

Publish(j) == GetQueue(j) \/ Check(j) \/ Start(j) \/ Put(j)

-----------------------------------------------------------------------------
(* The worker thread.                                                      *)

Go(w, pc) == worker' = [worker EXCEPT ![w].pc = pc]
Own(w) == lq[worker[w].queue]

\* `while not self.stop_event.is_set()`
Loop(w) ==
    /\ worker[w].pc = "loop"
    /\ Go(w, IF Own(w).event THEN "exited" ELSE "get")
    /\ UNCHANGED <<callVars, lq, stopVars, history>>

\* Entering the job's function, or its delay.
Begin(w, j) ==
    IF j \in Delayed
    THEN /\ worker' = [worker EXCEPT ![w].pc = "sleep", ![w].job = j]
         /\ UNCHANGED begun
    ELSE /\ worker' = [worker EXCEPT ![w].pc = "run", ![w].job = j]
         /\ begun' = [begun EXCEPT ![worker[w].queue] = Append(@, j)]

\* Mutant: the newest item first.
GetNewest(w) ==
    LET q == worker[w].queue
        last == lq[q].items[Len(lq[q].items)] IN
    /\ worker[w].pc = "get"
    /\ lq[q].items # <<>>
    /\ lq' = [lq EXCEPT ![q].items = SubSeq(@, 1, Len(@) - 1)]
    /\ IF last = Sentinel THEN Go(w, "exited") /\ UNCHANGED begun ELSE Begin(w, last)
    /\ UNCHANGED <<callVars, stopVars, accepted>>

\* queue.get(timeout=1.0): an item, the sentinel, or Empty.
Get(w) ==
    LET q == worker[w].queue IN
    /\ worker[w].pc = "get"
    /\ \/ /\ lq[q].items = <<>>
          /\ Go(w, "loop")
          /\ UNCHANGED <<lq, begun>>
       \/ /\ lq[q].items # <<>>
          /\ lq' = [lq EXCEPT ![q].items = Tail(@)]
          /\ IF Head(lq[q].items) = Sentinel
             THEN Go(w, "exited") /\ UNCHANGED begun
             ELSE Begin(w, Head(lq[q].items))
    /\ UNCHANGED <<callVars, stopVars, accepted>>

\* The delay is over, or stop_event cut it short: then the job is dropped.
Wake(w) ==
    LET q == worker[w].queue IN
    /\ worker[w].pc = "sleep"
    /\ IF Own(w).event
       THEN Go(w, "exited") /\ UNCHANGED begun
       ELSE /\ Go(w, "run")
            /\ begun' = [begun EXCEPT ![q] = Append(@, worker[w].job)]
    /\ UNCHANGED <<callVars, lq, stopVars, accepted>>

\* Mutant: an exception of the job leaves the loop.
ReturnExits(w) ==
    /\ worker[w].pc = "run"
    /\ Go(w, "count") \/ Go(w, "exited")
    /\ UNCHANGED <<callVars, lq, stopVars, history>>

\* The function returns or raises; _execute_job lets nothing through.
Return(w) ==
    /\ worker[w].pc = "run"
    /\ Go(w, "count")
    /\ UNCHANGED <<callVars, lq, stopVars, history>>

\* The processed and error counts, under the lock that stop() holds.
Count(w) ==
    /\ worker[w].pc = "count"
    /\ ~Own(w).locked
    /\ worker' = [worker EXCEPT ![w].pc = "loop", ![w].job = NoJob]
    /\ UNCHANGED <<callVars, lq, stopVars, history>>

Work(w) == Loop(w) \/ Get(w) \/ Wake(w) \/ Return(w) \/ Count(w)

-----------------------------------------------------------------------------
(* stop_queue.                                                             *)

\* Under both locks: stop_event is set; a queue not started is only forgotten.
StopSignal ==
    LET q == current IN
    /\ stopper.pc = "idle"
    /\ stops < MaxStops
    /\ stops' = stops + 1
    /\ q # NoQueue
    /\ IF lq[q].started
       THEN /\ lq' = [lq EXCEPT ![q].event = TRUE, ![q].locked = TRUE]
            /\ stopper' = [pc |-> "sentinel", queue |-> q]
            /\ signalled' = signalled \union {q}
            /\ UNCHANGED current
       ELSE current' = NoQueue /\ UNCHANGED <<lq, stopper, signalled>>
    /\ UNCHANGED <<caller, worker, timedOut, history>>

\* Mutant: the sentinel is put whether there is room or not.
SentinelForced ==
    LET q == stopper.queue IN
    /\ stopper.pc = "sentinel"
    /\ lq' = [lq EXCEPT ![q].items = Append(@, Sentinel)]
    /\ stopper' = [stopper EXCEPT !.pc = "join"]
    /\ UNCHANGED <<callVars, worker, stops, signalled, timedOut, history>>

\* put_nowait(None), unless the queue is full.
StopSentinel ==
    LET q == stopper.queue IN
    /\ stopper.pc = "sentinel"
    /\ lq' = IF Len(lq[q].items) < MaxSize
             THEN [lq EXCEPT ![q].items = Append(@, Sentinel)] ELSE lq
    /\ stopper' = [stopper EXCEPT !.pc = "join"]
    /\ UNCHANGED <<callVars, worker, stops, signalled, timedOut, history>>

Stopped(q) ==
    /\ lq' = [lq EXCEPT ![q].started = FALSE, ![q].locked = FALSE]
    /\ stopper' = [pc |-> "idle", queue |-> NoQueue]
    /\ current' = NoQueue
    /\ UNCHANGED <<caller, worker, stops, signalled, history>>

\* join() returns because the thread has ended.
Join ==
    LET q == stopper.queue IN
    /\ stopper.pc = "join"
    /\ worker[lq[q].thread].pc = "exited"
    /\ Stopped(q)
    /\ UNCHANGED timedOut

\* join() returns because the time is up: the thread is left as it is.
JoinTimesOut ==
    LET q == stopper.queue IN
    /\ stopper.pc = "join"
    /\ worker[lq[q].thread].pc # "exited"
    /\ Stopped(q)
    /\ timedOut' = timedOut \union {q}

Stop == StopSignal \/ StopSentinel \/ Join \/ JoinTimesOut

Next == (\E j \in Jobs : Publish(j)) \/ (\E w \in Workers : Work(w)) \/ Stop

Spec == Init /\ [][Next]_vars

\* The threads run on; nobody has to publish or to stop.
Fairness ==
    /\ \A j \in Jobs : WF_vars(Check(j) \/ Start(j) \/ Put(j))
    /\ \A w \in Workers : WF_vars(Work(w))
    /\ WF_vars(StopSentinel \/ Join \/ JoinTimesOut)

FairSpec == Spec /\ Fairness

-----------------------------------------------------------------------------
(* What the queue promises.                                                *)

Live(q) == {w \in Workers : worker[w].queue = q /\ worker[w].pc \notin {"none", "exited"}}
Settled(q) == ~lq[q].locked /\ q \notin timedOut

\* "Simple in-process job queue with single worker thread": two callers that
\* find the queue not started give it one thread, and one that a stop() waited
\* for is gone before another starts.  Where join() timed out it may live on.
SingleWorker ==
    \A q \in Queues : Settled(q) =>
       /\ Cardinality(Live(q)) <= (IF lq[q].started THEN 1 ELSE 0)
       /\ (lq[q].started /\ q \notin signalled) => Live(q) # {}

\* Jobs run in the order the queue took them ("they should run in order"), and
\* each once: the jobs begun are the oldest accepted, and where a stop() made
\* the worker drop one, those that are left still keep their order.
Position(q, j) == CHOOSE i \in 1..Len(accepted[q]) : accepted[q][i] = j
InOrder ==
    \A q \in Queues \ timedOut : \A i \in 1..Len(begun[q]) :
       /\ \E k \in 1..Len(accepted[q]) : accepted[q][k] = begun[q][i]
       /\ q \notin signalled => begun[q][i] = accepted[q][i]
       /\ \A k \in 1..(i - 1) :
             Position(q, begun[q][k]) < Position(q, begun[q][i])

\* put() returned True, so the job runs, unless its queue is stopped.
Began(j) == \E q \in Queues : \E i \in 1..Len(begun[q]) : begun[q][i] = j
AcceptedRuns ==
    \A j \in Jobs : (caller[j].pc = "accepted") ~> (Began(j) \/ caller[j].queue \in signalled)
=============================================================================
