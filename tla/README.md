# TLA+ models of the job system and the certificate issuance of django-mojo

django-mojo is a Django framework: REST models, accounts, realtime, DNS, edge
deployment, incidents and more. Most of it is request and response code over
one database transaction. Two parts are distributed protocols of their own:
`mojo/apps/jobs`, on which the other apps lean (jobs are rows in the database,
copied to Redis, claimed by engines on many boxes, retried, reaped and promoted by a
scheduler), and `mojo/apps/dnsman`, which issues certificates from job functions
against a CA, a DNS provider and, for delegated domains, a hub on another box. This
project models these two.

## 1. The system

| Part | Source | State | Operations | What makes it correct |
|---|---|---|---|---|
| Job row | `models/job.py` | status, attempt, max_retries, runner_id, run_at, expires_at, last_error | saves and conditional updates by the parts below | a finished row stays finished; attempts count claims and are bounded |
| Redis keys | `keys.py` | per channel a List `queue`, a ZSET `processing` (leases), a ZSET `sched`; locks of reaper and scheduler | RPUSH, BRPOP, ZADD, ZREM, ZPOPMIN, SET NX PX | an id waiting for somebody is in one of them |
| Publisher | `__init__.py` | none between calls | commit the row, then mirror it to Redis; resume by idempotency key | a committed row is mirrored, or marked |
| Engine | `job_engine.py` | active_jobs, a thread pool, four threads | pop, lease, execute, retry, give up, heartbeat, reap, stop | one execution at a time, no job forgotten, attempts fenced |
| Scheduler | `scheduler.py` | has_lock, the entries popped | lead, renew, release; pop, push, add back | one leader, no entry lost or doubled |
| Local queue | `local_queue.py` | a bounded in-process queue, a worker thread, `started`, `stop_event`, a lock | put, start, stop | one worker, what is accepted is run, in order |
| Control actions | `services/job_actions.py` | none | cancel, retry, pause, resume on a row | agree with the engine that may be running the row |
| Manager | `manager.py` | none | operator commands, clear stuck, recover, clear a channel, broadcast | as above |
| Scheduled tasks, cron | `cronjobs.py`, `asyncjobs.py` | task rows | publish the runs of the hour, prune | each run once |
| Webhooks, daemons, cli | `handlers/webhook.py`, `daemon.py`, `cli.py`, `mojo/deploy/jobman.py` | pid files | start and stop processes | restart what died |
| Certificates | `dnsman/services/certs.py`, `record_reservations.py`, `dns.py` | certificate rows, reservations of DNS records, the record itself | request, issue, renew, recover, clean up, revoke | one issuer per row, an undisturbed challenge, no leftover without an owner, an end of every issuance |
| ACME hub | `dnsman/services/acme_hub.py` | leases, the shared TXT record, an advisory lock | publish, withdraw, sweep | the record is the union of the live leases, and every lease ends |
| ACME hub client | `acme_hub_client.py`, the delegated part of `certs.py` | the intent on the delegation row | publish, withdraw, retry | whatever may be on the hub is withdrawn |

The parts of the jobs app interact only through the database and Redis: there are no messages between
an engine, the scheduler and a publisher. Inside an engine four kinds of thread
share `active_jobs` and flags. What is hard is everything that happens between two
of those calls: the death of a process, a second copy of the same id, a heartbeat
that comes too late or too early, a lock that expires, one call of several that
raises. An issuance is a job function, and the jobs app promises it at-least-once
delivery; it talks to a CA and a DNS provider that may fail, or do what they were
asked and fail to say so, and it leaves values in a public zone that somebody has to
take away again. `PROJECT.json` lists each of these hazards at its line with the property
that would catch it. The other apps of the repository are listed there too, as
not modelled, with the reason.

## 2. The modules

    JobStore          rows, List, ZSETs, time, the budget of faults
      JobEngine         main loop, execute_job, heartbeat, reaper, process
      JobScheduler      promotion by one scheduler
      JobPublisher      publish()
        JobSystem       EXTENDS the three; Next, properties, fairness
          JobSystemMC     values for TLC
          JobSystemProofs types and the claim fence, under any faults
            JobSafetyProofs one place for every id, while engines only crash
            JobSlipProofs   no row forgotten, while nothing dies
          JobControl      an operator and the recovery commands over JobSystem
            JobControlMC  values for TLC
            JobControlProofs  EXTENDS JobSlipProofs too
    JobLifecycle      what the app promises of one row; JobSystem implements it
    SchedulerLock     EXTENDS JobStore; several schedulers, the lock and the pass
      SchedulerLockMC   values for TLC
      SchedulerLockProofs  theorems
    LocalQueue        publish_local, the worker thread, stop_queue
      LocalQueueProofs  theorems
    Certificates      requests, issue and renew jobs, reservations, the record
      CertificatesProofs  theorems
    AcmeHub           the hub's sessions over one allocation
      AcmeFederation    EXTENDS it by the issuing side and the network
        AcmeFederationMC  values for TLC
        AcmeFederationProofs  theorems

**JobStore.** `rows` is the table, `queue` the List, `lease` the ZSET of in-flight
ids, `sched` the ZSET of delayed ids. Scores are abstracted to what code asks of
them: a lease is "fresh" or "stale" (older than `JOBS_VISIBILITY_TIMEOUT_MS`), an
entry "waiting" or "due". One channel is modelled; the code treats channels
independently but for the order of BRPOP. RPUSH and BRPOP both work at the tail of
the list, as in the code, so the queue is a stack.

**JobEngine.** An action is one call to Redis or to the database. `task` holds the
futures of all thread pools, `task[t].pc` where `execute_job` stands:

| pc | next call in `execute_job` / `_handle_job_failure` |
|---|---|
| queued | load the row (662-694) |
| expire, claim | save expired (697); the conditional update (721) |
| refresh | `refresh_from_db` (730) |
| run | the job function (750) |
| save, release, account | save completed (754), ZREM (773), metrics (776) |
| fail, retry, sched, scheduled | read again (791), save pending (808), ZADD (829), ZREM (861) |
| giveup, unlease, done | save failed (838), ZREM (861), `_job_completed` (866) |

The attempt is counted by the update and read back by the refresh, so a future has two
of them: `ran`, the one it has read and executes under, and `att`, a history of the one
its claim wrote, which the code does not keep.

`hand` is the id between BRPOP and submit, `active` the dict `active_jobs`, which is
keyed by id and so a set, `touching` the heartbeat's snapshot, `reaper` and
`batch` the reaper's place and the ids it fetched, `reapLock` the Redis lock of two
seconds. `Halt` clears what a process had in memory and leaves the store.

**JobScheduler / SchedulerLock.** The first is the promotion pass with one
scheduler, as JobSystem uses it. The second has several of them with the
leadership key; it shows (`ActAsOne`) that they act as the first while no key
lapses, which is what allows JobSystem to use one.

**JobPublisher.** The idempotency key is identified with the job.
`Republish` stands for the second call with the same key.

**JobLifecycle** is the abstract specification: absent, pending, running and four
terminal states, with the attempts. JobSystem implements it under the mapping
`status <- rows.status`, `attempt <- rows.attempt` (property `Promise`).

**JobControl.** `desk` is the request in progress: an operation opens with the
row it has loaded (`Open`), and each later save, ZREM, RPUSH or DELETE is a step of
its own, so that engines run in between. `Saved` is what each operation writes, with
no condition on the stored row. `paused` is the mark in the metadata, `touched` a
history of which operations a job has seen, by which the properties say what they
except. The heartbeat key of a runner is taken to be there exactly while it is up.

**LocalQueue.** A caller of `publish_local` is the object it got (`got`), the
unlocked look at `started` (`Check`), the start under the lock and the put. The
worker's pc names the line of its loop; `locked` is the lock of the object
while `stop()` joins. Objects are numbered (`Queues`): `stop_queue` drops the object
and the next caller creates another. `accepted` and `begun` are histories.

**Certificates.** One challenge record, one or more rows. `worker` is a job
function with its `object` (the row as it will save it), `rid` the reservation it
planted under. `keys` are the idempotency keys in the jobs table and `queued` those
whose job has not started; the job system itself is only `Take`, `Rerun` (a second
delivery) and `Crash`. Values are named by the order that made them. Time is
abstracted: `due` (renew_after passed), `stale` (modified is old), `mat` (the
material is valid or expired). The CA and the provider are external.

**AcmeHub / AcmeFederation.** `lease` is the table of leases of one allocation,
`record` the TXT set that is served, `lock` the advisory lock, `session` the place of
each request or sweep of the hub. In AcmeFederation `client` is the issuance of the
delegated domain, `intent` the `cleanup_challenge_ref` of its row; a request travels
by taking a free session, and a reply by being read off it. A request whose client
has timed out or died is still served.

### Faults

What may go wrong is drawn from one budget, `MaxFaults`, and each run names the
kinds it allows (`Faults`, defined in JobStore). A crash between two calls that
move a job (`InWindow`: popped and not leased, removed by the reaper and not pushed or
saved) is a kind of its own, `windowCrash`, because the code does lose the job there.
A crash between the ZADD and the ZREM of a retry (`InBoth`) loses nothing, but two
copies of the id come of it, the first before the backoff is over: that is `retryCrash`.
Every other crash is `crash`. A shutdown is `stop`, whether the control thread calls
`stop()` or a signal handler does on the main thread (`Terminate`); one that drops an id
its main loop or its reaper was moving is `windowStop`. A `stall` stands for any missed
deadline: a live heartbeat that does not touch a lease within the visibility
timeout, a reaper slower than its lock, a scheduler slower than its key, a backoff
that is over before the engine's next call. Time is otherwise free: expiry of a
job, of a lease nobody keeps and of a lock nobody uses cost nothing.

The other modules have a budget of their own. Certificates: `crash` of a worker,
`provider` (an upsert or a wait raises), `ca` (the CA refuses at any of its calls,
as often as it likes), `lapse` (material expires), `scan` (the scan holds the
try-lock for a moment), `rerun` (a job is delivered again), `backlog` (a job that has not ended is pruned, a
week after its publication), `revoke`; a removal
that raises, applied or not, costs nothing when `provider` is among them. AcmeHub
and AcmeFederation: `session` (a request's database session dies), `provider` (a
write raises, applied or not), `cname` (the proof of the alias fails), `client` (the
issuing process dies), `timeout` (a read times out). LocalQueue has no
budget: a join may always time out and a job may always be long.

## 3. The runs

| Run | Instance | Shows |
|---|---|---|
| JobCrash | 2 jobs (one delayed, max_retries 0; one immediate, 2), 2 engines with one worker, 3 futures, two of `crash` | all safety properties and the refinement under crashes |
| JobSlips | 1 job, 2 engines, one of crash, retryCrash, stop, stall, lateTouch, republish; expiry at any time | what survives when a job is executed twice |
| JobErrors | 1 job, 2 engines, any two faults of the ten engine and publisher kinds but republish | the claim fences attempts whatever fails |
| JobLive | 1 job, 2 engines, two of `crash`, fairness | every job ends |
| SchedLock | 2 schedulers, 2 jobs, any three of crash, windowCrash, stop, stall, redis, lostReply | leadership, no loss, progress, `ActAsOne` |
| JobControl | 1 job, 2 engines, one request of any of seven kinds, one of crash, lateTouch, republish | what an operator cannot disturb |
| LocalQueue | 3 callers, one delayed, 2 objects of 2 places, 3 threads, 2 stops, fairness | one worker, order, nothing accepted is lost |
| Certs | 2 rows of one name set, 2 workers, one fault of eight kinds, one renewal, fairness | section "Certificates" below |
| AcmeHub | 2 challenges with a value in common, 2 sessions, any two of five kinds, fairness | section "Delegation" below |
| JobTerm, JobStop, SchedRelease | the smallest instance each | a disagreement of the code with what the repository says (section 5) |

Of the job system:

- `ExclusiveExecution`: one execution of a job at a time. It needs the conditional
  claim, the heartbeat and the reaper to agree; it holds while processes only
  crash, and fails with a shutdown (`JobStop`), a stall or a second publish, where
  the code promises at-least-once delivery only.
- `ClaimFence`, `OwnerRunsIt`: what is left then. Two executions have never claimed
  the same attempt, none reads back one below its own or above the row's, and a running
  row names the engine of the latest claim.
- `OwnAttempt`: a job is executed under the attempt its claim counted. It needs the lease
  to stay fresh from the update to the refresh, so it is a property of crashes: after a
  stall or a shutdown another engine may claim in between, and both executions run
  under the second attempt (section 5). It is not a fence; `ClaimFence` is what is left.
- `PendingIsCarried`, `RunningIsRecoverable`: no row is forgotten. Each relates the
  table to every key and every process memory an id may be in.
- `RetryWaits`: no copy of a job is on its way while its backoff runs. It is not owed
  after a `retryCrash`, which JobCrash does not have.
- `NoOverclaim`: an engine never holds more ids than it has workers.
- `Promise`: the row's life. That a finished row is not reopened is part of it, under
  crashes; a stall or a shutdown has an unconditional save write over it.
- `EveryJobEnds`: with retries, crashes and the reaper in between, every job
  reaches a terminal status for good.
- `OneLeader`, `EntriesAccounted`, `ActAsOne`, `DueIsPromoted` of the scheduler.
- `CanceledIsNotStarted`: a job that is canceled or paused before a claim is not
  started by any of the copies of its id that are still about. Cancel and pause leave
  the List alone, so this rests on the conditional claim and on every other saver.
- `FenceUnlessRetried`, `CarriedThroughCancel`, `RecoverableUnlessCleared`: which of
  the properties above survive an operator. Each names the operations it excepts,
  and is violated without the exception: those are the limits of the code.

Of the local queue: `SingleWorker` and `InOrder` hold of every object but one whose
join timed out, and `AcceptedRuns` says that what was put and not stopped is run.

**Certificates.** `OneIssuer`: the session lock and the statuses together give each
row one worker, through stale rows, recoveries and second deliveries.
`ChallengeIntact`: from the upsert to the look of the CA nobody else changes the
record. `LeftoverOwned`: a value in the zone always has a reservation somebody can
find it by, unless its worker died. `OneRowPerNames`, `ValidKept`: requests and
failures do not double a row or fail one with valid material. `IssuingEnds`: an
issuing row, or an active one that is due, comes to an end of it, through crashes,
lost jobs, refused try-locks, idempotency keys that are still taken, and keys that
`prune_jobs` frees under a job that waits or runs.

**Delegation.** `ReconciledIsExact`: when all leases are marked reconciled and no
session is at work, the record is exactly what they ask for. `ConfirmedIsServed`: a
client that was told ok finds its values in the record until it leaves.
`LeaseIsIntended`: a live lease is one whose reference the client still has noted for
withdrawal, or whose withdrawal was answered. `RetiredStaysRetired`, `LeaseEnds`: a
late or repeated request does not revive a lease, and every lease ends and its values
leave the record, whatever becomes of the client.

**Bounds.** Two engines are enough for every race between an owner and another
engine (its worker, its reaper): the third would play the part of the second. One
worker per engine makes two futures of one job meet on two engines; three futures
for two jobs leave one for the duplicate. Two retries let a job be claimed, lost,
reclaimed and given up. Two faults are needed for the crash of an engine and of
the one that recovers from it. `queue` needs no bound: copies of an id are made
only by faults. `Tasks` bounds the futures: `Track` waits when none is free. Two
jobs on one channel meet through the queue, the batch of the reaper and the pass
of the scheduler, which JobCrash and SchedLock have; the errors of JobErrors are
per job, and one is enough; it leaves out `republish` for its time (1.8 million states
as it is), which the theorems `FenceHolds` and `OwnerHolds` include. Engines and
futures are symmetric (`Symmetric`); jobs are not, since `Delayed` tells them apart;
JobLive uses no symmetry.

JobControl has one request, and the faults that deliver a job again or kill its
engine: the second of them would be another JobSlips. The larger instances with two
requests and a crash (2.2 million states) and with a stall (1.5 million) pass too;
they are left out for their time, and a shutdown with a request was not exhausted.
LocalQueue has a full queue (two places), a delayed job to be cut short, and three
threads, one more than two stops can leave behind. In Certs two workers make the
owner and the recovery, two rows the one and its successor; a third row would be
a second successor. In AcmeHub two challenges overlap in one value, the case where a
withdrawal must keep what another lease still wants; two sessions are the request
and its retry, or a request and the sweep.

**Deadlock** is not checked: the system may stop, when every job has ended and
no fault is left. The liveness runs check that it does not stop earlier.

**Fairness** (`JobSystem!Fairness`, `SchedulerLock!Fairness`). Weak fairness for
each thread of a live process: they are loops without blocking but for calls with
timeouts (`brpop(timeout=1)`, sleeps). `Start` is weakly fair because cron runs
`jobman start` every minute on every node. `LeaseAges`, `ReapLockExpires`,
`LockExpires` and `RunAtPasses` are the clock; `RunAtPasses` is strongly fair since
the scheduler keeps taking the entry out of the ZSET and putting it back while the
clock goes on. Fairness never requires a fault (`UNCHANGED used`). A job function
is assumed to return or raise. Nobody has to publish.
The worker thread of LocalQueue is a loop without blocking but for a `get` of one
second; nobody has to stop it. In Certificates jobs are taken and run (what
`EveryJobEnds` says of the jobs app), the scan and the pruning are cron jobs, and a
row grows stale; a CA that always refuses is allowed. In AcmeFederation
sessions go on, strongly fair where they wait for the advisory lock, which Postgres
grants in turn; the sweep comes every five minutes; nothing is asked of the client.

## 4. What is proved

Every safety invariant and every action property of the passing runs is also a theorem,
the two refinements (`Promise`, `ActAsOne`) included; a theorem holds for every value of
the constants, where a run has one small instance. The assumptions are those the
component declares for its constants, which TLC evaluates in its runs. Some theorems
have a hypothesis on `Faults`, the kinds of fault that may happen; none has one on
`MaxFaults`, how many. Each such hypothesis is the code's limit or is named below
as a gap.

| Module | Theorems | Hypothesis |
|---|---|---|
| JobSystemProofs | TypeOK, ClaimFence, OwnerRunsIt | none |
| JobSafetyProofs | ExclusiveExecution, NoOverclaim, PendingIsCarried, RunningIsRecoverable, RetryWaits, OwnAttempt, FinishedStaysFinished, Promise | `OnlyCrash` |
| JobSlipProofs | PendingIsCarried, RunningIsRecoverable | `NobodyDies` |
| JobControlProofs | ControlTypeOK, FenceUnlessRetried, CanceledIsNotStarted | none |
| | CarriedThroughCancel, RecoverableUnlessCleared | `NobodyDies` |
| SchedulerLockProofs | TypeOK, EntriesAccounted | none |
| | OneLeader, ActAsOne | no `lateDelete` |
| LocalQueueProofs | TypeOK, SingleWorker, InOrder | none |
| CertificatesProofs | TypeOK, OneIssuer, ChallengeIntact, LeftoverOwned, OneRowPerNames, ValidKept | none |
| AcmeFederationProofs | TypeOK, ReconciledIsExact, LeaseIsIntended, RetiredStaysRetired, ConfirmedIsServed | none |

### The job system

`JobSystemProofs` proves, for every set of jobs, engines and futures, any
`MaxRetries`, any faults and any number of them:

- `TypeCorrect`: `Spec => []TypeOK`. TypeOK is inductive by itself; one lemma per
  part of the system (`PublisherType`, `SchedulerType`, `MainLoopType`, `WorkType`,
  `HeartbeatType`, `ReapType`, `LifecycleType`, `TimeType`), each with a step per
  action, over lemmas about the store's operations.
- `FenceHolds`: `Spec => []ClaimFence`, and `OwnerHolds`: `Spec => []OwnerRunsIt`.

The inductive invariant is `FenceInv == TypeOK /\ ClaimFence /\ OwnerRunsIt`. The
three need each other: that a holder's claimed attempt is at most the row's is what makes
the attempt of a new claim different from all of them, and that the row names the engine
of the latest claim survives a claim because no one else has claimed that attempt. The
attempt a holder reads back is not among them, since another claim may come first:
`ClaimFence` bounds it from below by its own and from above by the row's. All steps
but `Claim` are shown to keep two step predicates, `KeepsHolders` (nobody begins to hold,
holders keep what they claimed, what they have read they keep or read from the row, the
row's attempt does not change) and `KeepsOwners` (a row is not made running and the
runner of a running row does not change), from which the invariant follows once
(`FenceKept`); `Claim` is the one step with an argument of its own (`FenceClaimed`). The
assumptions are the constants' (`StoreAssumption`, `EngineAssumption`).

`JobSafetyProofs` assumes `OnlyCrash == Faults \subseteq {"crash"}`: engines crash, any
number of times, between two moves of a job, and nothing else goes wrong. The properties
of JobCrash say each that two of the places of an id exclude one another; none is
inductive. The invariant is the map of the job's life they all follow from:

- `Places`: the id of a job is in one place (`Place`): a publisher, the List, one hand,
  one future, the schedule, a lease alone, one reaper, or nowhere. `FutureFits` and
  `ReaperFits` say for each place in `execute_job` and in the reaper what the row and the
  lease are while it is there: a future past the claim has a running row that says the
  attempt it claimed, and a fresh lease, from which `OwnAttempt` follows; one about to schedule a retry has attempts left, a reaper about to push has a
  pending row and no lease.
- `Tidy`: a process that is down holds nothing. `Dict`: `active_jobs` is the set of the
  jobs of the engine's futures, and leaves room for the id in hand. `Reaped`: one reaper
  at a time, and what it has fetched is still orphaned, which is why its reads are not
  stale when it acts on them.

Each action moves one id from one place to another (`AtPub`, `AtQueue`, `AtHand`,
`AtFuture`, `AtReaper` say which, `SamePlace` that the others stay). `PromiseHolds` and
`FinishedHolds` look at one row only: `RowMoves` lists what may become of it, and every
step of every process is shown to be one of these. The hypothesis cannot be
dropped: `JobTerm` and `JobStop` violate `PendingIsCarried` and `ExclusiveExecution`
with one fault of another kind, and one `stall` is enough against `OwnAttempt`.

`JobSlipProofs` assumes `NobodyDies`: no process dies and no call raises, but heartbeats
and reapers may miss their deadlines, heartbeats write late and keys are published
twice, any number of times. Then a job may have several futures, each of which may take
away the lease of all, so a lease is no ground for an invariant. What is inductive is who
will act next: a pending row is `Awaited` (its id is in the List, a hand, the schedule, a
publisher, a reaper that will push or finish it, or a future that has not decided yet),
a running row is `Attended` by a future past its claim. Every end of a future ends the
row first, and that of one that finds the row taken leaves it to whoever took it. With
deaths this is not enough, and with two faults the properties are false: TLC finds
a stall and then a crash (the reaped job runs again, the first future removes the lease,
the second one's engine dies), a shutdown and then a crash, and a `retryCrash` and then a
crash against `RunningIsRecoverable`, a shutdown and then a stall, or a second shutdown,
against `PendingIsCarried`. JobSlips shows that one crash or one shutdown by itself forgets
no row when it does not fall between two calls that move a job. When it does, one is
enough: JobTerm for a signal between BRPOP and ZADD, `windowCrash` for a crash.

`JobControlProofs` has three theorems under any faults and requests. `DeskInv` adds
to the types what the request in progress has at hand. `UnretriedFence` is the fence of
JobSystemProofs for the jobs that saw no retry; the steps of the system keep it by the
same step predicates, and those of the operator because no save but that of a retry
writes `attempt`. `CanceledHolds` needs only that the conditional claim is the one step
that makes a row running and that every other save of an engine is made by a future past
its claim. `CarriedHolds` and `RecoverableHolds` carry JobSlipProofs' `Awaited` and
`Attended` through the operator: a pending row is awaited as long as only cancels and
pauses saw it, and no request, even one of the excepted ones, takes a running row's
future away.

### The scheduler and the local queue

`SchedulerLockProofs`, for any schedulers, jobs and faults:

- `AccountedHolds`: `Spec => []EntriesAccounted`, under every fault. The inductive part
  (`Accounted`) adds that an entry is in the ZSET or in one memory: ZPOPMIN takes it out
  of the one before it is in the other, so two leaders cannot hold the same one. The
  places are counted, with lemmas on what a push and a pop do to the count of a value in
  a sequence (`PushCounts`, `PopCounts`, `HoldersCount`).
- `LeaderHolds`: `Spec => []OneLeader`, from `KeyKept`: a scheduler with `has_lock` that
  has not let the key lapse holds the key, also between the GET and the DELETE of its
  release. This last part is what `lateDelete`, an expiry just there, breaks; the
  hypothesis is that it is not among the faults, and `SchedRelease` shows the
  property violated when it is.
- `ActsAsOne`: `Spec => ActAsOne` under the same hypothesis. While no key has lapsed one
  scheduler at most is in its pass, so the merged memory is that one's, and each of its
  steps is one of JobScheduler's; all other steps leave memory, ZSET and queue alone.

`LocalQueueProofs`, for any number of jobs, callers, threads, objects and stops:

- `SingleWorkerHolds`: from `Stopping` (the lock of an object is held by its stop) and
  `ThreadOf`: an object that was started and not signalled has its thread, and unless a
  join timed out nobody else works for it.
- `InOrderHolds`: begun, slept on and queued jobs are in the order of `accepted`
  (`Chain`), which puts and gets keep since a job is taken once (`Once`); and as long as
  nobody stopped the object the three together are all of it (`Whole`).

### Certificates

`CertificatesProofs`, for any certificates, name sets, workers and faults. Its parts need
each other, so there is one invariant:

- `Sole`: past the advisory lock a certificate has one worker. From it and the statuses
  (`Working`: nobody but its worker takes a row out of issuing, a revocation apart)
  follows `OneIssuer`.
- `Holding`: a worker that planted a value has the reservation, with its order as the
  value, until it has cleared up; the deletion of its row leaves it the
  reservation without owner. `Reservation` is the converse: a reservation nobody cleans up
  is one whose worker died. `ChallengeIntact` and `Values`, from which `LeftoverOwned`
  follows, rest on these two: only the holder of the reservation plants, and a clean-up
  gives it up only when the zone is clear of its value (`Cleaning`).
- `Material`: valid material is in every copy of the row that somebody may save, in the
  worker's and in the revoker's, and a worker that has it knows that it renews. So
  whatever full save comes last, `ValidKept`.
- `OneServing`: two rows that serve the same names are one. `OneRowPerNames` is its
  statement by cardinality.

### Delegation

`AcmeFederationProofs` proves, for every set of challenges, digest sets that may
overlap in any way, any number of sessions of the hub and any faults, all five safety
properties of the run AcmeHub:

- `TypeCorrect`: `Spec => []TypeOK`, with the part of TypeOK that is not about types: a
  session is between snapshot and unlock exactly while it holds the advisory lock.
- `ReconciledExact`: `Spec => []ReconciledIsExact`. The property speaks of states in
  which the lock is free; `Exact` drops that condition. It is inductive with `Snapshots`:
  the session that is about to write holds what the live leases ask for, the leases it
  will activate are alive, and the one that has written finds the record as desired.
  Only the holder of the lock changes which leases live, which `LockedStep` uses once for
  all transactions.
- `RetiredForGood`: `Spec => RetiredStaysRetired`. Every step but `Activate` tests the
  state in the same transaction; `Activate` acts on the snapshot, and `Snapshots` says
  that it names live leases only.
- `IntendedLeases`: `Spec => []LeaseIsIntended`, with `Asked` (what the client knows of
  its own request) and `Requests` (what may be on the network: a publish is for the
  intent or for a reference whose withdrawal is confirmed).
- `ConfirmedHolds`: `Spec => []ConfirmedIsServed`. A second inductive invariant,
  `Confirmed`, on top of the first: nobody withdraws the challenge from its intent to the
  CA's look (`Wanted`), a publish that holds the lock has a live lease (`HeldLive`), the
  reply the client waits for is that of its publish (`RightReply`), and that one says ok
  only when the challenge is served (`OkServes`). That it stays so is `ServesStays`:
  whatever a session writes holds the values of every live lease.

The first four have the inductive invariant `IInv` of that module in common; `Invariant`
is `Spec => []IInv`. The assumption is `HubAssumption`.

### What stays with TLC

- Liveness: `EveryJobEnds`, `DueIsPromoted`, `AcceptedRuns`, `IssuingEnds` and
  `LeaseEnds`. The prover does not handle fairness and ENABLED.
- `PendingIsCarried` and `RunningIsRecoverable` with one shutdown, or one `retryCrash`, and
  no other fault: the cases of JobSlips that JobSafetyProofs (a crash) and JobSlipProofs
  (the three others) leave open. They are about one fault indeed: with a second one
  (see above) a row is left that nothing carries, so an invariant has to count them.
- `EveryJobEnds` after a `retryCrash`: with a second crash it is violated, since the copy
  pushed early finds the row running, takes away its lease, and the engine then dies. JobLive
  has crashes of the kind `crash` only.
- `CarriedThroughCancel` and `RecoverableUnlessCleared` with a crash between the
  requests (JobControl).

## 5. Where code and documentation disagree

- `JobTerm`: the signal handlers are "for graceful shutdown", but call `sys.exit` on the
  main thread, which may have popped an id and not yet leased it: the row stays pending and
  the id is in no key. By the code the same id is lost by a crash there, and ids are in no
  key between commit and mirror, between the reaper's ZREM and RPUSH and in the memory of
  the scheduler; those windows (`windowCrash`) are excepted and have no run.
- `JobStop`: the heartbeat ends before the jobs a graceful stop waits for.
- `SchedRelease`: "Only delete if we own it" is a GET and a DELETE.

Without a run of their own:

Jobs:
- "the database transition is the execution fence" (`job_engine.py:692`), and the
  execution context is to hold "the real job or broadcast execution ID, function path,
  attempt, channel, runner" (`docs/django_developer/jobs/README.md:97`). The transition
  does not return what it wrote: `refresh_from_db` (730) reads the attempt and the runner
  of whoever claimed last, and after a stall or a shutdown between the two calls two
  executions run under one attempt. TLC finds this with one such fault against
  `OwnAttempt`.
- `prune_jobs` deletes rows of every status after seven days (`asyncjobs.py:9`): a job
  that is still queued then is popped and finds no row, and its idempotency key is free.
- The value a job function returns is not read (`job_engine.py:750`), while
  `docs/django_developer/jobs/README.md:123` says it decides the final status:
  `HandlerReturns` has one outcome.
- `writing_jobs.md:248` calls `job.attempt` 0-based, but it is 1 during the first
  execution, since the claim increments it; and as `max_retries` is compared to it,
  `max_retries=1` gives no retry.
- Cancel refuses a terminal job, but decides on a loaded object: it overwrites a row
  that was claimed or completed since (`job_actions.py:53`), and its ZREM (91) may
  take away the entry of a retry scheduled meanwhile, leaving a pending row that
  nothing carries. This is the exception of `CarriedThroughCancel`.
- Pause is to "remove from queue but keep in DB" (281) and leaves the List as it
  is; resume makes the old row pending and publishes a new one (357), as does retry
  (145). The old row stays pending with nothing to carry it.
- `clear_stuck_jobs` is to re-queue stuck jobs (`docs/.../jobs/admin.md:142`), but the
  engine that pops the id of a running row drops it, with the lease: a row whose engine
  has died says running for ever. This is the exception of `RecoverableUnlessCleared`.
- `requeue_db_pending` and `recover_stale_running` push to stream keys, which no engine
  reads since the move to Lists (`manager.py:1139`, 1558).
- `stop()` of the local queue holds the lock its worker needs to count the job it is
  ending (`local_queue.py:86`, 213): a busy worker is always waited for in vain, for
  the whole timeout. After it the next start runs beside the old worker.
- `publish_local` does not look at the result of `put()`: a full queue rejects the job
  and the caller is given its id.

Certificates:
- `docs/django_developer/dnsman/Certificates.md:277` says that after a failure "the next
  issuance must repair that old intent before creating a new CA order". The clean-up
  looks only at reservations of the same certificate (`record_reservations.py:152`);
  and when the failed row is removed or superseded its reservation has no
  certificate any more, and refuses every later issuance of the name.
- "Revocation is irreversible" (`rest/certificate.py:79`): a renewal under way when a
  certificate is revoked ends with its full save, and the row is active again; and
  `revoke()` writes the row back as it loaded it, over newer material.
- A worker that dies between its upsert and the next one's failed upsert leaves the
  older value without a record of it (the `lost` of `LeftoverOwned`).
- A withdrawal that is served before its own delayed publish finds no row to retire:
  the late publish makes a lease that lives until it expires.

## 6. What is not modelled

Of the jobs app: the broadcast ZSET and fan-out, the pause key, the channel registry and
the runner registry, several channels and their priority, the control listener
(`broadcast_execute`, ping, shutdown by message), startup hooks, `job.save()` calls a
job function makes itself, the events and logs of a job (only that writing them
may raise, where that matters), the amount of the backoff, `max_exec_seconds` (no code
enforces it), scheduled tasks, and pruning but for the keys it frees in Certificates. A
`run_at` put on a row by a retry stays there in the code until the next one; `Write` lets
a second publish use it for any row with an attempt.

Of dnsman: account registration, authorizations one by one (a certificate has one
challenge record here, with one value), `mutation_attempted` and `mutation_proven`
(nothing decides on them), retirement and its retries, domain purchase and onboarding,
allocation of a delegation, the parsing of certificates. A hub session that lost its
database connection while its Route53 write goes on, and a write that is applied after
its process died, are left out: writes are applied or not when the call ends. Two
issuances of one delegation at once are left out too: a revocation in the middle of one
makes them, and so does a failed one, whose row is saved (`certs.py:505`, 551) before its
worker withdraws (516), while a new row, with a lock of its own, may begin. The withdrawal
clears the intent only where it is still its own reference, so the second issuance
keeps its own.

The rest of the repository (REST models, accounts, incidents, edge deployment, realtime,
the assistant, metrics, caches, rate limits) is request and response code, provider
calls or per-process data; `PROJECT.json` gives the reason for each. It is by far
the larger part of the lines: the models cover the two protocols, not the framework.

## 7. Plan

Done: the jobs core (engine, publisher, scheduler, their composition), the lifecycle it
refines, the leadership of the scheduler, the operator over the job system, the local
queue, certificates, the delegation hub and its client; the theorems of section 4.

Theorems next: `CarriedThroughCancel` and `RecoverableUnlessCleared` while engines only
crash, on the places of JobSafetyProofs; `PendingIsCarried` with one shutdown; the
sessions of AcmeHub as an abstract record that is replaced in one step.

Models next: the broadcast ZSET and the pause key in JobScheduler and SchedulerLock; the
runner registry and the fan-out of `publish(broadcast=True)`; scheduled tasks; approvals of
the assistant.
