------------------------------- MODULE AcmeHub -------------------------------
(***************************************************************************)
(* mojo/apps/dnsman/services/acme_hub.py: one allocation of the ACME       *)
(* delegation hub, its challenge leases and its TXT record.                *)
(*                                                                         *)
(* A session is a database session of the hub: a request thread, from the  *)
(* moment the request is sent, or a sweep.  Its steps are the transactions *)
(* on the lease table and the write to Route53, which all happen while it  *)
(* holds the advisory lock of the allocation.                              *)
(***************************************************************************)
EXTENDS Integers

CONSTANTS
    Refs,        (* challenge_refs *)
    Values,      (* challenge digests *)
    Digests,     (* the digest set of each ref *)
    Sessions, NoSession, NoRef,
    Faults, MaxFaults

\* What may go wrong:
\*   session   a session's process dies
\*   provider  Route53 raises or is not seen in time, the write applied or not
\*   cname     the CNAME proof fails
\*   client    the downstream issuance dies
\*   timeout   the downstream client stops waiting for a reply
FaultKinds == {"session", "provider", "cname", "client", "timeout"}

ASSUME HubAssumption ==
    /\ Digests \in [Refs -> (SUBSET Values) \ {{}}]
    /\ Faults \subseteq FaultKinds /\ MaxFaults \in Nat
    /\ NoSession \notin Sessions /\ NoRef \notin Refs

VARIABLES
    lease,     (* the AcmeHubChallengeLease rows, by challenge_ref *)
    record,    (* the values of the TXT record in the hub's zone *)
    lock,      (* the session that holds the advisory lock *)
    session,   (* where each session stands *)
    used       (* how many faults have happened *)

hubVars == <<lease, record, lock, session, used>>

Live == {"pending", "active"}
Retired == {"withdrawn", "expired"}

\* old: expires_at has passed; done: reconciled_at is set.
Lease == [state : {"none"} \union Live \union Retired, old : BOOLEAN, done : BOOLEAN]
NoLease == [state |-> "none", old |-> FALSE, done |-> FALSE]

\* due: what the sweep found past its expiry; rows, pending and values: the
\* snapshot; result: what will be answered.
Session ==
    [pc : {"free", "sent", "retire", "snapshot", "write", "activate", "stamp",
           "failed", "unlock", "reply"},
     op : {"none", "publish", "withdraw", "sweep"}, ref : Refs \union {NoRef},
     due : SUBSET Refs, rows : SUBSET Refs, pending : SUBSET Refs,
     values : SUBSET Values, result : {"none", "ok", "refused", "unavailable"}]

Locked == {"snapshot", "write", "activate", "stamp", "failed", "unlock"}

Free == [pc |-> "free", op |-> "none", ref |-> NoRef, due |-> {}, rows |-> {},
         pending |-> {}, values |-> {}, result |-> "none"]

HubTypeOK ==
    /\ lease \in [Refs -> Lease]
    /\ record \subseteq Values
    /\ lock \in Sessions \union {NoSession}
    /\ session \in [Sessions -> Session]
    /\ used \in 0..MaxFaults
    /\ \A s \in Sessions : session[s].pc = "free" => session[s] = Free
    /\ \A s \in Sessions : session[s].pc \in Locked <=> lock = s

HubInit ==
    /\ lease = [r \in Refs |-> NoLease]
    /\ record = {} /\ lock = NoSession
    /\ session = [s \in Sessions |-> Free]
    /\ used = 0

Spend(f) ==
    /\ f \in Faults /\ used < MaxFaults
    /\ used' = used + 1

At(s, pc) == session[s].pc = pc
Goto(s, pc) == session' = [session EXCEPT ![s].pc = pc]
Answer(s, pc, result) ==
    session' = [session EXCEPT ![s].pc = pc, ![s].result = result]

IsLive(r) == lease[r].state \in Live
IsRetired(r) == lease[r].state \in Retired
Stored == {r \in Refs : lease[r].state # "none"}

\* Mutant: a lease counts once it has been confirmed.
DesiredActive == UNION {Digests[r] : r \in {q \in Refs : lease[q].state = "active"}}

\* _desired_snapshot: the union of what all live leases ask for.
Desired == UNION {Digests[r] : r \in {q \in Refs : IsLive(q)}}

-----------------------------------------------------------------------------
(* Under the lock: the intent.                                             *)

\* _allocation_lock blocks until the lock is free.
Acquire(s) == lock = NoSession /\ lock' = s

\* Mutant: a reference is good for any number of challenges.
PersistAny(s) ==
    LET r == session[s].ref IN
    /\ lease' = [lease EXCEPT ![r] = [state |-> "pending", old |-> FALSE, done |-> FALSE]]
    /\ Goto(s, "snapshot")

\* _persist_publish_lease.
Persist(s) ==
    LET r == session[s].ref IN
    IF IsRetired(r)
    THEN Answer(s, "unlock", "refused") /\ UNCHANGED lease
    ELSE /\ lease' = [lease EXCEPT ![r] = [state |-> "pending", old |-> FALSE, done |-> FALSE]]
         /\ Goto(s, "snapshot")

\* publish, whose CNAME proof comes before the lock.
Publish(s) ==
    /\ At(s, "sent") /\ session[s].op = "publish"
    /\ \/ Acquire(s) /\ Persist(s) /\ UNCHANGED used
       \/ Spend("cname") /\ Answer(s, "reply", "refused") /\ UNCHANGED <<lease, lock>>
    /\ UNCHANGED record

\* withdraw: an unknown or retired reference is answered at once.
Withdraw(s) ==
    LET r == session[s].ref IN
    /\ At(s, "sent") /\ session[s].op = "withdraw"
    /\ Acquire(s)
    /\ IF IsLive(r)
       THEN /\ lease' = [lease EXCEPT ![r].state = "withdrawn", ![r].done = FALSE]
            /\ Goto(s, "snapshot")
       ELSE Answer(s, "unlock", "ok") /\ UNCHANGED lease
    /\ UNCHANGED <<record, used>>

Overdue == {r \in Refs : IsLive(r) /\ lease[r].old}

\* Mutant: only what has expired is looked for.
SweepExpired(s) ==
    /\ At(s, "free")
    /\ Overdue # {}
    /\ session' = [session EXCEPT ![s] = [Free EXCEPT !.pc = "retire", !.op = "sweep",
                                                      !.due = Overdue]]
    /\ UNCHANGED <<lease, record, lock, used>>

\* sweep: the allocation is looked up before its lock is taken.
Sweep(s) ==
    /\ At(s, "free")
    /\ Overdue # {} \/ \E r \in Stored : ~lease[r].done
    /\ session' = [session EXCEPT ![s] = [Free EXCEPT !.pc = "retire", !.op = "sweep",
                                                      !.due = Overdue]]
    /\ UNCHANGED <<lease, record, lock, used>>

Expire(s) ==
    /\ At(s, "retire")
    /\ Acquire(s)
    /\ lease' = [r \in Refs |->
          IF r \in session[s].due \intersect Overdue
          THEN [lease[r] EXCEPT !.state = "expired", !.done = FALSE] ELSE lease[r]]
    /\ Goto(s, "snapshot")
    /\ UNCHANGED <<record, used>>

-----------------------------------------------------------------------------
(* Under the lock: _reconcile_locked.                                      *)

\* Mutant: the lock goes with the transaction that took it.
SnapshotUnlocked(s) ==
    /\ At(s, "snapshot")
    /\ session' = [session EXCEPT ![s].pc = "write", ![s].values = Desired,
          ![s].rows = Stored, ![s].pending = {r \in Refs : lease[r].state = "pending"}]
    /\ lock' = NoSession
    /\ UNCHANGED <<lease, record, used>>

Snapshot(s) ==
    /\ At(s, "snapshot")
    /\ session' = [session EXCEPT ![s].pc = "write", ![s].values = Desired,
          ![s].rows = Stored, ![s].pending = {r \in Refs : lease[r].state = "pending"}]
    /\ UNCHANGED <<lease, record, lock, used>>

\* _write_exact returns when the record is seen exactly as it was asked for.
Write(s) ==
    /\ At(s, "write")
    /\ \/ record' = session[s].values /\ Goto(s, "activate") /\ UNCHANGED used
       \/ /\ Spend("provider")
          /\ Goto(s, "failed")
          /\ record' = session[s].values \/ UNCHANGED record
    /\ UNCHANGED <<lease, lock>>

\* The whole snapshot is to be reconciled again.
Fail(s) ==
    /\ At(s, "failed")
    /\ lease' = [r \in Refs |-> IF r \in session[s].rows
                                THEN [lease[r] EXCEPT !.done = FALSE] ELSE lease[r]]
    /\ Answer(s, "unlock", "unavailable")
    /\ UNCHANGED <<record, lock, used>>

Activate(s) ==
    /\ At(s, "activate")
    /\ lease' = [r \in Refs |-> IF r \in session[s].pending
          THEN [lease[r] EXCEPT !.state = "active", !.done = TRUE] ELSE lease[r]]
    /\ Goto(s, "stamp")
    /\ UNCHANGED <<record, lock, used>>

Stamp(s) ==
    /\ At(s, "stamp")
    /\ lease' = [r \in Refs |-> IF r \in session[s].rows
                                THEN [lease[r] EXCEPT !.done = TRUE] ELSE lease[r]]
    /\ Answer(s, "unlock", "ok")
    /\ UNCHANGED <<record, lock, used>>

\* pg_advisory_unlock; a sweep has nobody to answer.
Unlock(s) ==
    /\ At(s, "unlock")
    /\ lock' = NoSession
    /\ session' = [session EXCEPT ![s] =
          IF @.op = "sweep" THEN Free ELSE [@ EXCEPT !.pc = "reply"]]
    /\ UNCHANGED <<lease, record, used>>

Serve(s) ==
    \/ Publish(s) \/ Withdraw(s) \/ Expire(s) \/ Snapshot(s) \/ Write(s)
    \/ Fail(s) \/ Activate(s) \/ Stamp(s) \/ Unlock(s)

\* expires_at passes.
Age(r) ==
    /\ IsLive(r) /\ ~lease[r].old
    /\ lease' = [lease EXCEPT ![r].old = TRUE]
    /\ UNCHANGED <<record, lock, session, used>>
=============================================================================
