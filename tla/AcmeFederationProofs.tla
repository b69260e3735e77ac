------------------------- MODULE AcmeFederationProofs -------------------------
(***************************************************************************)
(* What holds of AcmeFederation for every set of challenges, of digests    *)
(* and of sessions, and for every bound on the faults.                     *)
(***************************************************************************)
EXTENDS AcmeFederation, TLAPS

USE HubAssumption

-----------------------------------------------------------------------------
(* The inductive invariant.                                                *)

\* Whoever is between snapshot and activation knows what the leases ask for,
\* because nobody else changes them: this is what the advisory lock is for.
Snapshots ==
    \A s \in Sessions :
       /\ At(s, "write") => session[s].values = Desired
       /\ session[s].pc \in {"write", "activate"} => \A r \in session[s].pending : IsLive(r)
       /\ session[s].pc \in {"activate", "stamp"} => record = Desired

\* What ReconciledIsExact says, also while the lock is held.
Exact == (\A r \in Stored : lease[r].done) => record = Desired

\* What the installation knows it has asked for.
Asked ==
    /\ intent \in issued \union {NoRef}
    /\ client.pc = "order" => intent = NoRef
    /\ client.pc = "cleaning" => intent # NoRef
    /\ client.pc \in {"intended", "publishing", "seen", "answered", "leaving", "withdrawing"}
          => client.ref \in issued /\ client.ref = intent
    /\ client.waits # NoSession => client.pc \in {"cleaning", "publishing", "withdrawing"}

\* Every request on the network is for a reference that was drawn, and a
\* publish for one that is to be withdrawn or has been.
Requests ==
    \A s \in Sessions :
       /\ session[s].op \in {"publish", "withdraw"} => session[s].ref \in issued
       /\ session[s].op = "publish" =>
             session[s].ref = intent \/ session[s].ref \in acked

IInv == TypeOK /\ Snapshots /\ Exact /\ Asked /\ Requests /\ LeaseIsIntended

\* The initial states have it.
LEMMA InitInv == Init => IInv
<1> SUFFICES ASSUME Init PROVE IInv
  OBVIOUS
<1> USE DEF Init, HubInit
<1>1. Stored = {}
  BY DEF Stored, NoLease
<1>2. NoLease \in Lease /\ Free \in Session
  BY DEF NoLease, Lease, Live, Retired, Free, Session
<1>3. TypeOK
  <2>1. HubTypeOK
    BY <1>2 DEF HubTypeOK, Locked, Free
  <2>2. client \in Client
    BY DEF Client, NoIssuance
  <2> QED
    BY <1>1, <2>1, <2>2 DEF TypeOK
<1>4. Desired = {}
  BY DEF Desired, IsLive, NoLease, Live
<1>5. Snapshots /\ Exact
  BY <1>4 DEF Snapshots, Exact, At, Free
<1>6. Asked /\ Requests /\ LeaseIsIntended
  BY DEF Asked, Requests, LeaseIsIntended, NoIssuance, Free, IsLive, NoLease, Live
<1> QED
  BY <1>3, <1>5, <1>6 DEF IInv

\* A step that leaves everything alone preserves it.
LEMMA StutterInv == IInv /\ UNCHANGED vars => IInv'
  BY DEF IInv, TypeOK, HubTypeOK, Snapshots, Exact, Asked, Requests, LeaseIsIntended,
         Stored, IsLive, Desired, At, vars, hubVars, clientVars

-----------------------------------------------------------------------------
(* What a step of a session changes.                                       *)

PCs == {"free", "sent", "retire", "snapshot", "write", "activate", "stamp", "failed",
        "unlock", "reply"}

\* Goto and Answer move one session, whose request and snapshot stay.
Moved(s, pc) ==
    /\ session' \in [Sessions -> Session]
    /\ \A t \in Sessions \ {s} : session'[t] = session[t]
    /\ session'[s].pc = pc
    /\ session'[s].op = session[s].op /\ session'[s].ref = session[s].ref
    /\ session'[s].values = session[s].values
    /\ session'[s].pending = session[s].pending

\* A session that only goes on keeps its request and its snapshot.
LEMMA GotoMoves ==
    ASSUME session \in [Sessions -> Session], NEW s \in Sessions, NEW pc \in PCs, Goto(s, pc)
    PROVE  Moved(s, pc)
<1> DEFINE v == [session[s] EXCEPT !.pc = pc]
<1>1. session[s] \in Session
  OBVIOUS
<1>2. v \in Session
  BY <1>1 DEF Session, PCs
<1>3. session' = [session EXCEPT ![s] = v]
  BY DEF Goto
<1>4. /\ v.pc = pc /\ v.op = session[s].op /\ v.ref = session[s].ref
      /\ v.values = session[s].values /\ v.pending = session[s].pending
  BY <1>1 DEF Session
<1> HIDE DEF v
<1> QED
  BY <1>2, <1>3, <1>4 DEF Moved

\* So does an answer.
LEMMA AnswerMoves ==
    ASSUME session \in [Sessions -> Session], NEW s \in Sessions, NEW pc \in PCs,
           NEW x \in {"ok", "refused", "unavailable"}, Answer(s, pc, x)
    PROVE  Moved(s, pc)
<1> DEFINE v == [session[s] EXCEPT !.pc = pc, !.result = x]
<1>1. session[s] \in Session
  OBVIOUS
<1>2. v \in Session
  BY <1>1 DEF Session, PCs
<1>3. session' = [session EXCEPT ![s] = v]
  BY DEF Answer
<1>4. /\ v.pc = pc /\ v.op = session[s].op /\ v.ref = session[s].ref
      /\ v.values = session[s].values /\ v.pending = session[s].pending
  BY <1>1 DEF Session
<1> HIDE DEF v
<1> QED
  BY <1>2, <1>3, <1>4 DEF Moved

\* A session is put somewhere else altogether.
LEMMA PutSession ==
    ASSUME session \in [Sessions -> Session], NEW s \in Sessions, NEW v \in Session,
           session' = [session EXCEPT ![s] = v]
    PROVE  /\ session' \in [Sessions -> Session]
           /\ \A t \in Sessions \ {s} : session'[t] = session[t]
           /\ session'[s] = v
  OBVIOUS

\* What the record should be depends on which leases live.
LEMMA SameDesired ==
    ASSUME \A r \in Refs : IsLive(r)' <=> IsLive(r)
    PROVE  Desired' = Desired
  BY DEF Desired

\* A step under the lock preserves the invariant where what it writes fits what
\* it knows.
SnapshotAt(s, pc) ==
    /\ pc = "write" => session'[s].values = Desired'
    /\ pc \in {"write", "activate"} => \A r \in session'[s].pending : IsLive(r)'
    /\ pc \in {"activate", "stamp"} => record' = Desired'

LEMMA LockedStep ==
    ASSUME IInv, NEW s \in Sessions, NEW pc \in PCs \ {"free"}, Moved(s, pc),
           UNCHANGED clientVars,
           lease' \in [Refs -> Lease], record' \subseteq Values, used' \in 0..MaxFaults,
           lock = s \/ lock = NoSession,
           lock' = IF pc \in Locked THEN s ELSE NoSession,
           \A r \in Refs : lease'[r].state # "none" => r \in issued,
           \A r \in Refs : IsLive(r)' => intent = r \/ r \in acked,
           SnapshotAt(s, pc), Exact'
    PROVE  IInv'
<1> USE DEF IInv, TypeOK, HubTypeOK
<1>1. \A t \in Sessions \ {s} : session'[t] = session[t] /\ session[t].pc \notin Locked
  BY DEF Moved
<1>2. session'[s].pc = pc /\ session' \in [Sessions -> Session]
  BY DEF Moved
<1>3. TypeOK'
  <2>1. \A t \in Sessions : session'[t].pc = "free" => session'[t] = Free
    BY <1>1, <1>2
  <2>2. \A t \in Sessions : session'[t].pc \in Locked <=> lock' = t
    BY <1>1, <1>2
  <2>3. Stored' \subseteq issued'
    BY DEF Stored, clientVars
  <2> QED
    BY <1>2, <2>1, <2>2, <2>3 DEF clientVars
<1>4. Snapshots'
  <2>1. SUFFICES ASSUME NEW t \in Sessions
                 PROVE  (/\ At(t, "write") => session[t].values = Desired
                         /\ session[t].pc \in {"write", "activate"}
                               => \A r \in session[t].pending : IsLive(r)
                         /\ session[t].pc \in {"activate", "stamp"} => record = Desired)'
    BY DEF Snapshots
  <2>2. CASE t = s
    BY <1>2, <2>2 DEF SnapshotAt, At
  <2>3. CASE t # s
    <3>1. session'[t].pc \notin Locked
      BY <1>1, <2>3
    <3> QED
      BY <3>1 DEF Locked, At
  <2> QED
    BY <2>2, <2>3
<1>5. Asked' /\ LeaseIsIntended'
  BY DEF Asked, LeaseIsIntended, clientVars
<1>6. Requests'
  <2>1. \A t \in Sessions : session'[t].op = session[t].op /\ session'[t].ref = session[t].ref
    BY <1>1 DEF Moved
  <2> QED
    BY <2>1 DEF Requests, clientVars
<1> QED
  BY <1>3, <1>4, <1>5, <1>6

\* A step that touches neither the leases nor the record, and of the sessions
\* only those without the lock, keeps what the hub knows.
LEMMA OutsideStep ==
    ASSUME IInv, session' \in [Sessions -> Session],
           UNCHANGED <<lease, record, lock>>, used' \in 0..MaxFaults,
           \A t \in Sessions :
              \/ session'[t] = session[t]
              \/ session[t].pc \notin Locked /\ session'[t].pc \notin Locked,
           \A t \in Sessions : session'[t].pc = "free" => session'[t] = Free
    PROVE  HubTypeOK' /\ Snapshots' /\ Exact' /\ Stored' = Stored
<1> USE DEF IInv, TypeOK, HubTypeOK
<1>1. \A r \in Refs : IsLive(r)' <=> IsLive(r)
  BY DEF IsLive
<1>2. Desired' = Desired
  BY <1>1, SameDesired
<1>3. Stored' = Stored /\ Exact'
  BY <1>2 DEF Stored, Exact
<1>4. HubTypeOK'
  <2>1. \A t \in Sessions : session'[t].pc \in Locked <=> lock' = t
    OBVIOUS
  <2> QED
    BY <2>1
<1>5. Snapshots'
  <2>1. SUFFICES ASSUME NEW t \in Sessions
                 PROVE  (/\ At(t, "write") => session[t].values = Desired
                         /\ session[t].pc \in {"write", "activate"}
                               => \A r \in session[t].pending : IsLive(r)
                         /\ session[t].pc \in {"activate", "stamp"} => record = Desired)'
    BY DEF Snapshots
  <2>2. CASE session'[t] = session[t]
    <3>1. session[t].pending \subseteq Refs
      BY DEF Session
    <3> QED
      BY <1>1, <1>2, <2>2, <3>1 DEF Snapshots, At
  <2>3. CASE session'[t].pc \notin Locked
    BY <2>3 DEF Locked, At
  <2> QED
    BY <2>2, <2>3
<1> QED
  BY <1>3, <1>4, <1>5

\* ... and where the client does not move either, the whole invariant.
LEMMA QuietStep ==
    ASSUME IInv, session' \in [Sessions -> Session],
           UNCHANGED <<lease, record, lock, clientVars>>, used' \in 0..MaxFaults,
           \A t \in Sessions :
              \/ session'[t] = session[t]
              \/ session[t].pc \notin Locked /\ session'[t].pc \notin Locked,
           \A t \in Sessions : session'[t].pc = "free" => session'[t] = Free,
           \A t \in Sessions : session'[t].op \in {"publish", "withdraw"} =>
              session'[t].op = session[t].op /\ session'[t].ref = session[t].ref
    PROVE  IInv'
<1>1. HubTypeOK' /\ Snapshots' /\ Exact' /\ Stored' = Stored
  BY OutsideStep
<1>2. TypeOK'
  BY <1>1 DEF IInv, TypeOK, clientVars
<1>3. Asked' /\ Requests' /\ LeaseIsIntended'
  BY DEF IInv, Asked, Requests, LeaseIsIntended, IsLive, clientVars
<1> QED
  BY <1>1, <1>2, <1>3 DEF IInv

-----------------------------------------------------------------------------
(* The hub.                                                                *)

\* A fault is within the bound.
LEMMA SpendType == ASSUME used \in 0..MaxFaults, NEW f, Spend(f) PROVE used' \in 0..MaxFaults
  BY DEF Spend

\* Where no lease begins to live, nothing has to be intended anew.
LEMMA FewerLive ==
    ASSUME IInv, UNCHANGED clientVars,
           \A r \in Refs : lease'[r].state # "none" <=> lease[r].state # "none",
           \A r \in Refs : IsLive(r)' => IsLive(r)
    PROVE  /\ \A r \in Refs : lease'[r].state # "none" => r \in issued
           /\ \A r \in Refs : IsLive(r)' => intent = r \/ r \in acked
  BY DEF IInv, TypeOK, Stored, LeaseIsIntended

\* Where rows are only asked for again, what was exact is.
LEMMA StillExact ==
    ASSUME IInv, record' = record,
           \A r \in Refs : lease'[r].state # "none" <=> lease[r].state # "none",
           \A r \in Refs : IsLive(r)' <=> IsLive(r),
           \A r \in Refs : lease'[r].done => lease[r].done
    PROVE  Exact'
<1>1. Desired' = Desired
  BY SameDesired
<1> QED
  BY <1>1 DEF IInv, Exact, Stored

\* A row that was withdrawn or has expired is a row.
LEMMA Withdrawing ==
    \A l \in Lease : LET m == [l EXCEPT !.state = "withdrawn", !.done = FALSE] IN
       m \in Lease /\ m.state = "withdrawn" /\ m.done = FALSE
  BY DEF Lease, Retired

\* ... or has expired.
LEMMA Expiring ==
    \A l \in Lease : LET m == [l EXCEPT !.state = "expired", !.done = FALSE] IN
       m \in Lease /\ m.state = "expired" /\ m.done = FALSE
  BY DEF Lease, Retired

\* publish: whether the lock is had, the reference refused or the proof failed.
LEMMA PublishInv == ASSUME IInv, NEW s \in Sessions, Publish(s), UNCHANGED clientVars PROVE IInv'
<1> DEFINE r == session[s].ref
           new == [state |-> "pending", old |-> FALSE, done |-> FALSE]
<1> USE DEF IInv, TypeOK, HubTypeOK
<1>1. r \in issued /\ r \in Refs /\ (r = intent \/ r \in acked)
  BY DEF Publish, Requests
<1>2. CASE Acquire(s) /\ Persist(s) /\ UNCHANGED used
  <2>1. lock = NoSession /\ lock' = s /\ UNCHANGED <<record, used>>
    BY <1>2 DEF Acquire, Publish
  <2>2. CASE IsRetired(r)
    <3>1. Answer(s, "unlock", "refused") /\ UNCHANGED lease
      BY <1>2, <2>2 DEF Persist
    <3>2. Moved(s, "unlock")
      BY <3>1, AnswerMoves DEF PCs
    <3>3. /\ \A q \in Refs : lease'[q].state # "none" => q \in issued
          /\ \A q \in Refs : IsLive(q)' => intent = q \/ q \in acked
      BY <3>1, FewerLive DEF IsLive
    <3>4. Exact'
      BY <2>1, <3>1, StillExact DEF IsLive
    <3> QED
      BY <2>1, <3>1, <3>2, <3>3, <3>4, LockedStep DEF Locked, PCs, SnapshotAt
  <2>3. CASE ~IsRetired(r)
    <3>1. lease' = [lease EXCEPT ![r] = new] /\ Goto(s, "snapshot")
      BY <1>2, <2>3 DEF Persist
    <3>2. Moved(s, "snapshot")
      BY <3>1, GotoMoves DEF PCs
    <3>3. new \in Lease
      BY DEF Lease, Live
    <3>4. /\ lease' \in [Refs -> Lease] /\ lease'[r] = new
          /\ \A q \in Refs \ {r} : lease'[q] = lease[q]
      BY <1>1, <3>1, <3>3
    <3>5. \A q \in Refs : lease'[q].state # "none" => q \in issued
      BY <1>1, <3>4 DEF Stored
    <3>6. \A q \in Refs : IsLive(q)' => intent = q \/ q \in acked
      BY <1>1, <3>4 DEF IsLive, LeaseIsIntended
    <3>7. Exact'
      BY <1>1, <3>4 DEF Exact, Stored
    <3> HIDE DEF r, new
    <3> QED
      BY <2>1, <3>2, <3>4, <3>5, <3>6, <3>7, LockedStep DEF Locked, PCs, SnapshotAt
  <2> QED
    BY <2>2, <2>3
<1>3. CASE Spend("cname") /\ Answer(s, "reply", "refused") /\ UNCHANGED <<lease, lock>>
  <2>1. Moved(s, "reply")
    BY <1>3, AnswerMoves DEF PCs
  <2>2. used' \in 0..MaxFaults
    BY <1>3, SpendType
  <2>3. session[s].pc = "sent" /\ record' = record
    BY DEF Publish, At
  <2> QED
    BY <1>3, <2>1, <2>2, <2>3, QuietStep DEF Moved, Locked
<1> QED
  BY <1>2, <1>3 DEF Publish

\* withdraw: an intent that is stored, or nothing to do.
LEMMA WithdrawInv == ASSUME IInv, NEW s \in Sessions, Withdraw(s), UNCHANGED clientVars PROVE IInv'
<1> DEFINE r == session[s].ref
           gone == [lease[r] EXCEPT !.state = "withdrawn", !.done = FALSE]
<1> USE DEF IInv, TypeOK, HubTypeOK
<1>1. r \in issued /\ r \in Refs
  BY DEF Withdraw, Requests
<1>2. lock = NoSession /\ lock' = s /\ UNCHANGED <<record, used>>
  BY DEF Withdraw, Acquire
<1>3. CASE IsLive(r)
  <2>1. lease' = [lease EXCEPT ![r] = gone] /\ Goto(s, "snapshot")
    BY <1>1, <1>3 DEF Withdraw
  <2>2. Moved(s, "snapshot")
    BY <2>1, GotoMoves DEF PCs
  <2>3. gone \in Lease /\ gone.state = "withdrawn" /\ gone.done = FALSE
    <3>1. lease[r] \in Lease
      BY <1>1
    <3> QED
      BY <3>1, Withdrawing
  <2> HIDE DEF gone
  <2>4. /\ lease' \in [Refs -> Lease] /\ lease'[r] = gone
        /\ \A q \in Refs \ {r} : lease'[q] = lease[q]
    BY <1>1, <2>1, <2>3
  <2>5. /\ \A q \in Refs : lease'[q].state # "none" => q \in issued
        /\ \A q \in Refs : IsLive(q)' => intent = q \/ q \in acked
    BY <1>1, <2>3, <2>4 DEF Stored, IsLive, Live, LeaseIsIntended
  <2>6. Exact'
    BY <1>1, <2>3, <2>4 DEF Exact, Stored
  <2> HIDE DEF r
  <2> QED
    BY <1>2, <2>2, <2>4, <2>5, <2>6, LockedStep DEF Locked, PCs, SnapshotAt
<1>4. CASE ~IsLive(r)
  <2>1. Answer(s, "unlock", "ok") /\ UNCHANGED lease
    BY <1>4 DEF Withdraw
  <2>2. Moved(s, "unlock")
    BY <2>1, AnswerMoves DEF PCs
  <2>3. /\ \A q \in Refs : lease'[q].state # "none" => q \in issued
        /\ \A q \in Refs : IsLive(q)' => intent = q \/ q \in acked
    BY <2>1, FewerLive DEF IsLive
  <2>4. Exact'
    BY <1>2, <2>1, StillExact DEF IsLive
  <2> QED
    BY <1>2, <2>1, <2>2, <2>3, <2>4, LockedStep DEF Locked, PCs, SnapshotAt
<1> QED
  BY <1>3, <1>4

\* sweep retires what it found and is still overdue.
LEMMA ExpireInv == ASSUME IInv, NEW s \in Sessions, Expire(s), UNCHANGED clientVars PROVE IInv'
<1> DEFINE out == session[s].due \intersect Overdue
<1> USE DEF IInv, TypeOK, HubTypeOK
<1>1. lock = NoSession /\ lock' = s /\ UNCHANGED <<record, used>>
  BY DEF Expire, Acquire
<1>2. Moved(s, "snapshot")
  BY GotoMoves DEF Expire, PCs
<1>3. lease' = [r \in Refs |-> IF r \in out
                  THEN [lease[r] EXCEPT !.state = "expired", !.done = FALSE] ELSE lease[r]]
  BY DEF Expire
<1>4. \A r \in out : IsLive(r)
  BY DEF Overdue
<1> HIDE DEF out
<1>5. \A r \in Refs : LET m == [lease[r] EXCEPT !.state = "expired", !.done = FALSE] IN
         m \in Lease /\ m.state = "expired" /\ m.done = FALSE
  BY Expiring
<1>6. lease' \in [Refs -> Lease]
  BY <1>3, <1>5
<1>7. \A r \in Refs :
         /\ r \notin out => lease'[r] = lease[r]
         /\ r \in out => lease'[r].state = "expired" /\ lease'[r].done = FALSE
  BY <1>3, <1>5
<1>8. /\ \A r \in Refs : lease'[r].state # "none" <=> lease[r].state # "none"
      /\ \A r \in Refs : IsLive(r)' => IsLive(r)
  BY <1>4, <1>7 DEF IsLive, Live
<1>9. Exact'
  <2>1. CASE \E r \in Refs : r \in out
    BY <1>7, <2>1 DEF Exact, Stored
  <2>2. CASE \A r \in Refs : r \notin out
    BY <1>1, <1>7, <2>2, StillExact DEF IsLive
  <2> QED
    BY <2>1, <2>2
<1> QED
  BY <1>1, <1>2, <1>6, <1>8, <1>9, FewerLive, LockedStep DEF Locked, PCs, SnapshotAt

\* _desired_snapshot leaves the session with what the leases ask for.
LEMMA SnapshotInv == ASSUME IInv, NEW s \in Sessions, Snapshot(s), UNCHANGED clientVars PROVE IInv'
<1> DEFINE live == {r \in Refs : lease[r].state = "pending"}
           v == [session[s] EXCEPT !.pc = "write", !.values = Desired, !.rows = Stored,
                                   !.pending = live]
<1> USE DEF IInv, TypeOK, HubTypeOK
<1>1. session[s].pc = "snapshot" /\ UNCHANGED <<lease, record, lock, used>>
  BY DEF Snapshot, At
<1>2. lock = s
  BY <1>1 DEF Locked
<1>3. Desired \subseteq Values /\ Stored \subseteq Refs /\ live \subseteq Refs
  BY DEF Desired, Stored
<1>4. /\ v \in Session /\ v.pc = "write" /\ v.values = Desired /\ v.pending = live
      /\ v.op = session[s].op /\ v.ref = session[s].ref
  <2>1. session[s] \in Session
    OBVIOUS
  <2> HIDE DEF live
  <2> QED
    BY <1>3, <2>1 DEF Session
<1>5. session' = [session EXCEPT ![s] = v]
  BY DEF Snapshot
<1>6. \A r \in live : IsLive(r)
  BY DEF IsLive, Live
<1> HIDE DEF v, live
<1>7. /\ session' \in [Sessions -> Session] /\ session'[s] = v
      /\ \A t \in Sessions \ {s} : session'[t] = session[t]
  BY <1>4, <1>5, PutSession
<1>8. /\ Desired' = Desired /\ Exact'
      /\ \A r \in Refs : lease'[r].state # "none" => r \in issued
      /\ \A r \in Refs : IsLive(r)' => intent = r \/ r \in acked
  BY <1>1, SameDesired, StillExact, FewerLive DEF IsLive
<1>9. TypeOK'
  <2>1. \A t \in Sessions : session'[t].pc = "free" => session'[t] = Free
    BY <1>4, <1>7
  <2>2. \A t \in Sessions : session'[t].pc \in Locked <=> lock' = t
    BY <1>1, <1>2, <1>4, <1>7 DEF Locked
  <2> QED
    BY <1>1, <1>7, <2>1, <2>2 DEF Stored, clientVars
<1>10. Snapshots'
  <2>1. SUFFICES ASSUME NEW t \in Sessions
                 PROVE  (/\ At(t, "write") => session[t].values = Desired
                         /\ session[t].pc \in {"write", "activate"}
                               => \A r \in session[t].pending : IsLive(r)
                         /\ session[t].pc \in {"activate", "stamp"} => record = Desired)'
    BY DEF Snapshots
  <2>2. CASE t = s
    BY <1>1, <1>4, <1>6, <1>7, <1>8, <2>2 DEF At, IsLive
  <2>3. CASE t # s
    BY <1>2, <1>7, <2>3 DEF Locked, At
  <2> QED
    BY <2>2, <2>3
<1>11. Asked' /\ LeaseIsIntended'
  BY <1>8 DEF Asked, LeaseIsIntended, clientVars
<1>12. Requests'
  <2>1. \A t \in Sessions : session'[t].op = session[t].op /\ session'[t].ref = session[t].ref
    BY <1>4, <1>7
  <2> QED
    BY <2>1 DEF Requests, clientVars
<1> QED
  BY <1>8, <1>9, <1>10, <1>11, <1>12

\* _write_exact writes what is still desired, or leaves the record as it was.
LEMMA WriteInv == ASSUME IInv, NEW s \in Sessions, Write(s), UNCHANGED clientVars PROVE IInv'
<1> USE DEF IInv, TypeOK, HubTypeOK
<1>1. session[s].pc = "write" /\ UNCHANGED <<lease, lock>>
  BY DEF Write, At
<1>2. lock = s
  BY <1>1 DEF Locked
<1>3. /\ Desired' = Desired
      /\ \A r \in Refs : IsLive(r)' <=> IsLive(r)
      /\ \A r \in Refs : lease'[r].state # "none" => r \in issued
      /\ \A r \in Refs : IsLive(r)' => intent = r \/ r \in acked
  BY <1>1, SameDesired, FewerLive DEF IsLive
<1>4. session[s].values = Desired /\ \A r \in session[s].pending : IsLive(r)
  BY <1>1 DEF Snapshots, At
<1>5. session[s].pending \subseteq Refs /\ session[s].values \subseteq Values
  BY DEF Session
<1>6. record' = Desired => Exact'
  BY <1>3 DEF Exact
<1>7. CASE record' = session[s].values /\ Goto(s, "activate") /\ UNCHANGED used
  <2>1. Moved(s, "activate")
    BY <1>7, GotoMoves DEF PCs
  <2>2. SnapshotAt(s, "activate")
    BY <1>3, <1>4, <1>5, <1>7, <2>1 DEF SnapshotAt, Moved
  <2>3. Exact' /\ record' \subseteq Values
    BY <1>4, <1>5, <1>6, <1>7
  <2> QED
    BY <1>1, <1>2, <1>3, <1>7, <2>1, <2>2, <2>3, LockedStep DEF Locked, PCs
<1>8. CASE Spend("provider") /\ Goto(s, "failed")
           /\ (record' = session[s].values \/ UNCHANGED record)
  <2>1. Moved(s, "failed")
    BY <1>8, GotoMoves DEF PCs
  <2>2. used' \in 0..MaxFaults
    BY <1>8, SpendType
  <2>3. record' = record => Exact'
    BY <1>1, StillExact DEF IsLive
  <2>4. Exact' /\ record' \subseteq Values
    BY <1>4, <1>5, <1>6, <1>8, <2>3
  <2> QED
    BY <1>1, <1>2, <1>3, <2>1, <2>2, <2>4, LockedStep DEF Locked, PCs, SnapshotAt
<1> QED
  BY <1>7, <1>8 DEF Write

\* Rows that are stamped, or asked for again.
LEMMA DoneSaved ==
    \A l \in Lease, d \in BOOLEAN : LET m == [l EXCEPT !.done = d] IN
       m \in Lease /\ m.state = l.state /\ m.done = d /\ m.old = l.old
  BY DEF Lease

\* A row that becomes active is a row.
LEMMA Activating ==
    \A l \in Lease : LET m == [l EXCEPT !.state = "active", !.done = TRUE] IN
       m \in Lease /\ m.state = "active"
  BY DEF Lease, Live

\* A failure asks for reconciliation only.
LEMMA FailInv == ASSUME IInv, NEW s \in Sessions, Fail(s), UNCHANGED clientVars PROVE IInv'
<1> USE DEF IInv, TypeOK, HubTypeOK
<1>1. session[s].pc = "failed" /\ UNCHANGED <<record, lock, used>>
  BY DEF Fail, At
<1>2. lock = s
  BY <1>1 DEF Locked
<1>3. Moved(s, "unlock")
  BY AnswerMoves DEF Fail, PCs
<1>4. \A r \in Refs :
         /\ lease'[r] \in Lease /\ lease'[r].state = lease[r].state
         /\ lease'[r].done => lease[r].done
  BY DoneSaved DEF Fail
<1>5. lease' \in [Refs -> Lease]
  BY <1>4 DEF Fail
<1>6. \A r \in Refs : IsLive(r)' <=> IsLive(r)
  BY <1>4 DEF IsLive
<1>7. Exact'
  BY <1>1, <1>4, <1>6, StillExact
<1>8. /\ \A r \in Refs : lease'[r].state # "none" => r \in issued
      /\ \A r \in Refs : IsLive(r)' => intent = r \/ r \in acked
  BY <1>4, <1>6, FewerLive
<1> QED
  BY <1>1, <1>2, <1>3, <1>5, <1>7, <1>8, LockedStep DEF Locked, PCs, SnapshotAt

\* Activation changes no lease that was not alive.
LEMMA ActivateInv == ASSUME IInv, NEW s \in Sessions, Activate(s), UNCHANGED clientVars PROVE IInv'
<1> USE DEF IInv, TypeOK, HubTypeOK
<1>1. session[s].pc = "activate" /\ UNCHANGED <<record, lock, used>>
  BY DEF Activate, At
<1>2. lock = s
  BY <1>1 DEF Locked
<1>3. Moved(s, "stamp")
  BY GotoMoves DEF Activate, PCs
<1>4. record = Desired /\ \A r \in session[s].pending : IsLive(r)
  BY <1>1 DEF Snapshots
<1>5. \A r \in Refs :
         /\ lease'[r] \in Lease
         /\ r \in session[s].pending => lease'[r].state = "active"
         /\ r \notin session[s].pending => lease'[r] = lease[r]
  BY Activating DEF Activate
<1>6. lease' \in [Refs -> Lease]
  BY <1>5 DEF Activate
<1>7. /\ \A r \in Refs : IsLive(r)' <=> IsLive(r)
      /\ \A r \in Refs : lease'[r].state # "none" <=> lease[r].state # "none"
  BY <1>4, <1>5 DEF IsLive, Live
<1>8. record' = Desired'
  BY <1>1, <1>4, <1>7, SameDesired
<1>9. /\ \A r \in Refs : lease'[r].state # "none" => r \in issued
      /\ \A r \in Refs : IsLive(r)' => intent = r \/ r \in acked
  BY <1>7, FewerLive
<1>10. Exact' /\ SnapshotAt(s, "stamp")
  BY <1>8 DEF Exact, SnapshotAt
<1> QED
  BY <1>1, <1>2, <1>3, <1>6, <1>9, <1>10, LockedStep DEF Locked, PCs

\* A stamp comes when the record is exact.
LEMMA StampInv == ASSUME IInv, NEW s \in Sessions, Stamp(s), UNCHANGED clientVars PROVE IInv'
<1> USE DEF IInv, TypeOK, HubTypeOK
<1>1. session[s].pc = "stamp" /\ UNCHANGED <<record, lock, used>>
  BY DEF Stamp, At
<1>2. lock = s /\ record = Desired
  BY <1>1 DEF Locked, Snapshots
<1>3. Moved(s, "unlock")
  BY AnswerMoves DEF Stamp, PCs
<1>4. \A r \in Refs : lease'[r] \in Lease /\ lease'[r].state = lease[r].state
  BY DoneSaved DEF Stamp
<1>5. lease' \in [Refs -> Lease]
  BY <1>4 DEF Stamp
<1>6. \A r \in Refs : IsLive(r)' <=> IsLive(r)
  BY <1>4 DEF IsLive
<1>7. Exact'
  BY <1>1, <1>2, <1>6, SameDesired DEF Exact
<1>8. /\ \A r \in Refs : lease'[r].state # "none" => r \in issued
      /\ \A r \in Refs : IsLive(r)' => intent = r \/ r \in acked
  BY <1>4, <1>6, FewerLive
<1> QED
  BY <1>1, <1>2, <1>3, <1>5, <1>7, <1>8, LockedStep DEF Locked, PCs, SnapshotAt

\* The idle session is a session.
LEMMA FreeType ==
    /\ Free \in Session /\ Free.pc = "free" /\ Free.op = "none"
    /\ Free.pc \notin Locked
  BY DEF Free, Session, Locked

\* A session that ends, with or without the lock.
LEMMA Ending ==
    ASSUME IInv, NEW s \in Sessions, NEW v \in Session, v.pc \in {"free", "reply"},
           v.pc = "free" => v = Free,
           v.op \in {"publish", "withdraw"} => v.op = session[s].op /\ v.ref = session[s].ref,
           session' = [session EXCEPT ![s] = v],
           UNCHANGED <<lease, record, clientVars>>, used' \in 0..MaxFaults,
           lock' = IF lock = s THEN NoSession ELSE lock
    PROVE  IInv'
<1> USE DEF IInv, TypeOK, HubTypeOK
<1>1. /\ session' \in [Sessions -> Session] /\ session'[s] = v
      /\ \A t \in Sessions \ {s} : session'[t] = session[t]
  BY PutSession
<1>2. Desired' = Desired /\ Exact' /\ Stored' = Stored
  BY SameDesired, StillExact DEF IsLive, Stored
<1>3. v.pc \notin Locked
  BY DEF Locked
<1>4. TypeOK'
  <2>1. \A t \in Sessions : session'[t].pc \in Locked <=> lock' = t
    BY <1>1, <1>3
  <2>2. \A t \in Sessions : session'[t].pc = "free" => session'[t] = Free
    BY <1>1
  <2> QED
    BY <1>1, <1>2, <2>1, <2>2 DEF clientVars
<1>5. Snapshots'
  <2>1. SUFFICES ASSUME NEW t \in Sessions
                 PROVE  (/\ At(t, "write") => session[t].values = Desired
                         /\ session[t].pc \in {"write", "activate"}
                               => \A r \in session[t].pending : IsLive(r)
                         /\ session[t].pc \in {"activate", "stamp"} => record = Desired)'
    BY DEF Snapshots
  <2>2. CASE t = s
    BY <1>1, <2>2 DEF At
  <2>3. CASE t # s
    BY <1>1, <1>2, <2>3 DEF Snapshots, At, IsLive
  <2> QED
    BY <2>2, <2>3
<1>6. Asked' /\ Requests' /\ LeaseIsIntended'
  BY <1>1 DEF Asked, Requests, LeaseIsIntended, IsLive, clientVars
<1> QED
  BY <1>2, <1>4, <1>5, <1>6

\* The lock is released, and the reply stays for its client.
LEMMA UnlockInv == ASSUME IInv, NEW s \in Sessions, Unlock(s), UNCHANGED clientVars PROVE IInv'
<1> DEFINE v == [session[s] EXCEPT !.pc = "reply"]
<1> USE DEF IInv, TypeOK, HubTypeOK
<1>1. session[s].pc = "unlock" /\ lock = s /\ lock' = NoSession
  BY DEF Unlock, At, Locked
<1>2. CASE session[s].op = "sweep"
  <2>1. session' = [session EXCEPT ![s] = Free]
    BY <1>2 DEF Unlock
  <2> QED
    BY <1>1, <2>1, FreeType, Ending DEF Unlock
<1>3. CASE session[s].op # "sweep"
  <2>1. session' = [session EXCEPT ![s] = v]
    BY <1>3 DEF Unlock
  <2>2. v \in Session /\ v.pc = "reply" /\ v.op = session[s].op /\ v.ref = session[s].ref
    <3>1. session[s] \in Session
      OBVIOUS
    <3> QED
      BY <3>1 DEF Session
  <2> HIDE DEF v
  <2> QED
    BY <1>1, <2>1, <2>2, Ending DEF Unlock
<1> QED
  BY <1>2, <1>3

\* A reply without a reader.
LEMMA DropInv == ASSUME IInv, NEW s \in Sessions, Drop(s) PROVE IInv'
<1>1. lock # s
  BY DEF Drop, At, Locked, IInv, TypeOK, HubTypeOK
<1> QED
  BY <1>1, FreeType, Ending DEF Drop, IInv, TypeOK, HubTypeOK

\* A session that dies leaves the record to the sweep.
LEMMA SessionDiesInv == ASSUME IInv, NEW s \in Sessions, SessionDies(s) PROVE IInv'
<1> DEFINE v == [Free EXCEPT !.pc = "reply", !.result = "unavailable"]
<1>1. used' \in 0..MaxFaults
  BY SpendType DEF SessionDies, IInv, TypeOK, HubTypeOK
<1>2. v \in Session /\ v.pc = "reply" /\ v.op = "none"
  BY DEF Free, Session
<1>3. session' = [session EXCEPT ![s] = v] \/ session' = [session EXCEPT ![s] = Free]
  BY DEF SessionDies
<1> HIDE DEF v
<1> QED
  BY <1>1, <1>2, <1>3, FreeType, Ending DEF SessionDies

\* The sweep looks before it locks.
LEMMA SweepInv == ASSUME IInv, NEW s \in Sessions, Sweep(s), UNCHANGED clientVars PROVE IInv'
<1> DEFINE v == [Free EXCEPT !.pc = "retire", !.op = "sweep", !.due = Overdue]
<1> USE DEF IInv, TypeOK, HubTypeOK
<1>1. v \in Session /\ v.pc = "retire" /\ v.op = "sweep"
  BY DEF Free, Session, Overdue
<1>2. session' = [session EXCEPT ![s] = v] /\ UNCHANGED <<lease, record, lock, used>>
  BY DEF Sweep
<1>3. session[s].pc = "free"
  BY DEF Sweep, At
<1> HIDE DEF v
<1>4. /\ session' \in [Sessions -> Session] /\ session'[s] = v
      /\ \A t \in Sessions \ {s} : session'[t] = session[t]
  BY <1>1, <1>2, PutSession
<1> QED
  BY <1>1, <1>2, <1>3, <1>4, QuietStep DEF Locked

\* A lease that ages lives on until it is swept.
LEMMA AgeInv == ASSUME IInv, NEW r \in Refs, Age(r), UNCHANGED clientVars PROVE IInv'
<1> DEFINE aged == [lease[r] EXCEPT !.old = TRUE]
<1> USE DEF IInv, TypeOK, HubTypeOK
<1>1. \A l \in Lease : LET m == [l EXCEPT !.old = TRUE] IN
         m \in Lease /\ m.state = l.state /\ m.done = l.done
  BY DEF Lease
<1>2. aged \in Lease /\ aged.state = lease[r].state /\ aged.done = lease[r].done
  BY <1>1
<1>3. lease' = [lease EXCEPT ![r] = aged] /\ UNCHANGED <<record, lock, session, used>>
  BY DEF Age
<1> HIDE DEF aged
<1>4. /\ lease' \in [Refs -> Lease]
      /\ \A q \in Refs : lease'[q].state = lease[q].state /\ lease'[q].done = lease[q].done
  BY <1>2, <1>3
<1>5. \A q \in Refs : IsLive(q)' <=> IsLive(q)
  BY <1>4 DEF IsLive
<1>6. Desired' = Desired /\ Stored' = Stored /\ Exact'
  BY <1>3, <1>4, <1>5, SameDesired, StillExact DEF Stored
<1>7. TypeOK'
  BY <1>3, <1>4, <1>6 DEF clientVars
<1>8. Snapshots'
  <2>1. \A t \in Sessions : session[t].pending \subseteq Refs
    BY DEF Session
  <2> QED
    BY <1>3, <1>5, <1>6, <2>1 DEF Snapshots, At
<1>9. Asked' /\ Requests' /\ LeaseIsIntended'
  BY <1>3, <1>5 DEF Asked, Requests, LeaseIsIntended, clientVars
<1> QED
  BY <1>6, <1>7, <1>8, <1>9

-----------------------------------------------------------------------------
(* The installation.                                                       *)

\* What the client does to the network: a reply is read, a request for r sent.
Network(r) ==
    /\ session' \in [Sessions -> Session]
    /\ \A t \in Sessions :
          \/ session'[t] = session[t]
          \/ session[t].pc \notin Locked /\ session'[t].pc \notin Locked
    /\ \A t \in Sessions : session'[t].pc = "free" => session'[t] = Free
    /\ \A t \in Sessions : session'[t].op \in {"publish", "withdraw"} =>
          \/ session'[t].op = session[t].op /\ session'[t].ref = session[t].ref
          \/ session'[t].ref = r

\* A step of the client, which leaves the hub alone but for a request it sends.
LEMMA ClientStep ==
    ASSUME IInv, NEW r \in issued', r = intent', Network(r),
           UNCHANGED <<lease, record, lock>>, used' \in 0..MaxFaults,
           client' \in Client, Asked',
           issued' \subseteq Refs, issued \subseteq issued', acked' \subseteq issued',
           acked \subseteq acked', \A q \in issued : q = intent => q = intent' \/ q \in acked'
    PROVE  IInv'
<1>1. HubTypeOK' /\ Snapshots' /\ Exact' /\ Stored' = Stored
  BY OutsideStep DEF Network
<1>2. TypeOK'
  BY <1>1 DEF IInv, TypeOK
<1>3. Requests'
  BY DEF IInv, Requests, Network
<1>4. LeaseIsIntended'
  <2>1. \A q \in Refs : IsLive(q) => q \in issued
    BY DEF IInv, TypeOK, Stored, IsLive, Live
  <2> QED
    BY <2>1 DEF IInv, LeaseIsIntended, IsLive
<1> QED
  BY <1>1, <1>2, <1>3, <1>4 DEF IInv

\* The same where nothing is sent.
LEMMA ClientAlone ==
    ASSUME IInv, session' \in [Sessions -> Session],
           \A t \in Sessions : session'[t] = session[t]
              \/ (session[t].pc \notin Locked /\ session'[t] = Free),
           UNCHANGED <<lease, record, lock>>, used' \in 0..MaxFaults,
           client' \in Client, Asked', intent' \in Refs \union {NoRef},
           issued' \subseteq Refs, issued \subseteq issued', acked' \subseteq issued',
           acked \subseteq acked', \A q \in issued : q = intent => q = intent' \/ q \in acked'
    PROVE  IInv'
<1>1. HubTypeOK' /\ Snapshots' /\ Exact' /\ Stored' = Stored
  BY OutsideStep, FreeType DEF IInv, TypeOK, HubTypeOK
<1>2. TypeOK'
  BY <1>1 DEF IInv, TypeOK
<1>3. Requests'
  BY FreeType DEF IInv, Requests
<1>4. LeaseIsIntended'
  <2>1. \A q \in Refs : IsLive(q) => q \in issued
    BY DEF IInv, TypeOK, Stored, IsLive, Live
  <2> QED
    BY <2>1 DEF IInv, LeaseIsIntended, IsLive
<1> QED
  BY <1>1, <1>2, <1>3, <1>4 DEF IInv

\* A request takes a session that was free, or has become free just now.
LEMMA RequestFits ==
    ASSUME IInv, NEW base \in [Sessions -> Session],
           \A t \in Sessions : base[t] = session[t]
              \/ (session[t].pc \notin Locked /\ base[t] = Free),
           NEW s \in Sessions, base[s].pc = "free",
           NEW op \in {"publish", "withdraw"}, NEW r \in Refs,
           session' = [base EXCEPT ![s] = [Free EXCEPT !.pc = "sent", !.op = op, !.ref = r]]
    PROVE  Network(r)
<1> DEFINE v == [Free EXCEPT !.pc = "sent", !.op = op, !.ref = r]
<1>1. v \in Session /\ v.pc = "sent" /\ v.op = op /\ v.ref = r
  BY DEF Free, Session
<1>2. session' = [base EXCEPT ![s] = v]
  OBVIOUS
<1> HIDE DEF v
<1>3. /\ session' \in [Sessions -> Session] /\ session'[s] = v
      /\ \A t \in Sessions \ {s} : session'[t] = base[t]
  BY <1>1, <1>2
<1>4. session[s].pc \notin Locked /\ v.pc \notin Locked
  BY <1>1 DEF Locked
<1> QED
  BY <1>1, <1>3, <1>4, FreeType DEF Network, IInv, TypeOK, HubTypeOK

\* The reply that is read leaves its session free.
LEMMA ReadReply ==
    ASSUME IInv, Replied
    PROVE  /\ client.waits \in Sessions /\ Consumed \in [Sessions -> Session]
           /\ \A t \in Sessions : Consumed[t] = session[t]
                 \/ (session[t].pc \notin Locked /\ Consumed[t] = Free)
           /\ client.pc \in {"cleaning", "publishing", "withdrawing"}
<1>1. client.waits \in Sessions /\ session[client.waits].pc = "reply"
  BY DEF Replied, Waiting, At, IInv, TypeOK, Client
<1>2. client.pc \in {"cleaning", "publishing", "withdrawing"}
  BY DEF Replied, Waiting, IInv, Asked
<1> QED
  BY <1>1, <1>2, FreeType DEF Consumed, Locked, IInv, TypeOK, HubTypeOK

ClientPCs == {"idle", "cleaning", "order", "intended", "publishing", "seen", "answered",
              "leaving", "withdrawing"}

\* The issuance moves, and stays the same issuance.
LEMMA Advance ==
    \A c \in Client, pc \in ClientPCs :
       LET m == [c EXCEPT !.pc = pc] IN
       m \in Client /\ m.pc = pc /\ m.ref = c.ref /\ m.waits = c.waits
  BY DEF Client, ClientPCs

\* A reply is read.
LEMMA Reads ==
    \A c \in Client, pc \in ClientPCs :
       LET m == [c EXCEPT !.pc = pc, !.waits = NoSession] IN
       m \in Client /\ m.pc = pc /\ m.ref = c.ref /\ m.waits = NoSession
  BY DEF Client, ClientPCs

\* The second attempt is waited for like the first.
LEMMA WaitsAgain ==
    \A c \in Client, s \in Sessions :
       LET m == [c EXCEPT !.waits = s, !.tries = 2] IN
       m \in Client /\ m.pc = c.pc /\ m.ref = c.ref /\ m.waits = s
<1>1. 2 \in 0..2
  OBVIOUS
<1> QED
  BY <1>1 DEF Client

\* Where there is no issuance, nobody waits.
LEMMA NoIssuanceType ==
    NoIssuance \in Client /\ NoIssuance.pc = "idle" /\ NoIssuance.waits = NoSession
  BY DEF NoIssuance, Client

\* An installation that is not idle stands for the intent it keeps.
LEMMA CallInv ==
    ASSUME IInv, NEW op \in {"publish", "withdraw"},
           NEW pc \in {"cleaning", "publishing", "withdrawing"},
           NEW r \in issued, r = intent, pc # "cleaning" => client.ref = r, Call(op, r, pc)
    PROVE  IInv'
<1> USE DEF IInv, TypeOK, HubTypeOK
<1>1. PICK s \in Sessions : Request(s, op, r)
                            /\ client' = [client EXCEPT !.pc = pc, !.waits = s, !.tries = 1]
  BY DEF Call
<1>2. UNCHANGED <<lease, record, lock, used, intent, issued, acked>>
  BY DEF Call
<1>3. Network(r)
  BY <1>1, RequestFits DEF Request, At
<1>4. /\ client' \in Client /\ client'.pc = pc /\ client'.waits = s
      /\ client'.ref = client.ref
  <2>1. client \in Client /\ 1 \in 0..2
    OBVIOUS
  <2> QED
    BY <1>1, <2>1 DEF Client
<1>5. Asked'
  BY <1>2, <1>4 DEF Asked
<1> QED
  BY <1>2, <1>3, <1>4, <1>5, ClientStep

\* A second attempt is for the same reference.
LEMMA AgainInv ==
    ASSUME IInv, NEW base \in [Sessions -> Session],
           \A t \in Sessions : base[t] = session[t]
              \/ (session[t].pc \notin Locked /\ base[t] = Free),
           client.pc \in {"cleaning", "publishing", "withdrawing"}, Again(base),
           UNCHANGED <<lease, record, lock, intent, issued, acked>>, used' \in 0..MaxFaults
    PROVE  IInv'
<1> DEFINE op == IF client.pc = "publishing" THEN "publish" ELSE "withdraw"
           r == IF client.pc = "cleaning" THEN intent ELSE client.ref
<1> USE DEF IInv, TypeOK, HubTypeOK
<1>1. PICK s \in Sessions :
         /\ base[s].pc = "free"
         /\ session' = [base EXCEPT ![s] = [Free EXCEPT !.pc = "sent", !.op = op, !.ref = r]]
         /\ client' = [client EXCEPT !.waits = s, !.tries = 2]
  BY DEF Again
<1>2. op \in {"publish", "withdraw"} /\ r = intent /\ r \in issued
  BY DEF Asked
<1> HIDE DEF op, r
<1>3. Network(r)
  BY <1>1, <1>2, RequestFits
<1>4. /\ client' \in Client /\ client'.pc = client.pc /\ client'.waits = s
      /\ client'.ref = client.ref
  BY <1>1, WaitsAgain
<1>5. Asked'
  BY <1>4 DEF Asked
<1> QED
  BY <1>2, <1>3, <1>4, <1>5, ClientStep

\* Begin: an intent that is left over is withdrawn first.
LEMMA BeginInv == ASSUME IInv, Begin PROVE IInv'
<1> USE DEF IInv, TypeOK, HubTypeOK
<1>1. CASE intent # NoRef
  <2>1. Call("withdraw", intent, "cleaning") /\ intent \in issued
    BY <1>1 DEF Begin, Asked
  <2> QED
    BY <2>1, CallInv
<1>2. CASE intent = NoRef
  <2>1. client' = [client EXCEPT !.pc = "order"] /\ UNCHANGED <<hubVars, intent, issued, acked>>
    BY <1>2 DEF Begin
  <2>2. /\ client' \in Client /\ client'.pc = "order" /\ client'.waits = client.waits
    BY <2>1, Advance DEF ClientPCs
  <2>3. client.waits = NoSession
    BY NoIssuanceType DEF Begin
  <2>4. Asked'
    BY <1>2, <2>1, <2>2, <2>3 DEF Asked
  <2> QED
    BY <2>1, <2>2, <2>4, ClientAlone DEF hubVars
<1> QED
  BY <1>1, <1>2

\* Cleaned: what is forgotten has been confirmed.
LEMMA CleanedInv == ASSUME IInv, Cleaned PROVE IInv'
<1> USE DEF IInv, TypeOK, HubTypeOK
<1>1. Replied /\ session' = Consumed /\ UNCHANGED <<lease, record, lock, used, issued>>
  BY DEF Cleaned
<1>2. intent \in issued /\ intent' = NoRef /\ acked' = acked \union {intent}
  BY DEF Cleaned, Forget, Asked
<1>3. /\ client' \in Client /\ client'.pc = "order" /\ client'.waits = NoSession
  BY Reads DEF Cleaned, ClientPCs
<1>4. Asked'
  BY <1>2, <1>3 DEF Asked
<1> QED
  BY <1>1, <1>2, <1>3, <1>4, ReadReply, ClientAlone

\* Intend: there is no other intent, so none is lost.
LEMMA IntendInv == ASSUME IInv, Intend PROVE IInv'
<1> USE DEF IInv, TypeOK, HubTypeOK
<1>1. PICK r \in Refs \ issued : /\ issued' = issued \union {r} /\ intent' = r
                                 /\ client' = [client EXCEPT !.pc = "intended", !.ref = r]
  BY DEF Intend
<1>2. client.pc = "order" /\ intent = NoRef /\ client.waits = NoSession
      /\ UNCHANGED <<hubVars, acked>>
  BY DEF Intend, Asked
<1>3. \A c \in Client, q \in Refs : LET m == [c EXCEPT !.pc = "intended", !.ref = q] IN
         m \in Client /\ m.pc = "intended" /\ m.ref = q /\ m.waits = c.waits
  BY DEF Client
<1>4. /\ client' \in Client /\ client'.pc = "intended" /\ client'.ref = r
      /\ client'.waits = NoSession
  BY <1>1, <1>2, <1>3
<1>5. Asked'
  BY <1>1, <1>4 DEF Asked
<1> QED
  BY <1>1, <1>2, <1>4, <1>5, ClientAlone DEF hubVars

\* PostPublish: the publish is for the intent.
LEMMA PostPublishInv == ASSUME IInv, PostPublish PROVE IInv'
<1>1. client.ref \in issued /\ client.ref = intent /\ Call("publish", client.ref, "publishing")
  BY DEF PostPublish, IInv, Asked
<1> QED
  BY <1>1, CallInv

\* PostWithdraw: so is the withdrawal.
LEMMA PostWithdrawInv == ASSUME IInv, PostWithdraw PROVE IInv'
<1>1. client.ref \in issued /\ client.ref = intent /\ Call("withdraw", client.ref, "withdrawing")
  BY DEF PostWithdraw, IInv, Asked
<1> QED
  BY <1>1, CallInv

\* Published: the intent stays.
LEMMA PublishedInv == ASSUME IInv, Published PROVE IInv'
<1> USE DEF IInv, TypeOK, HubTypeOK
<1>1. /\ Replied /\ session' = Consumed
      /\ UNCHANGED <<lease, record, lock, used, intent, issued, acked>>
  BY DEF Published
<1>2. /\ client' \in Client /\ client'.pc = "seen" /\ client'.waits = NoSession
      /\ client'.ref = client.ref
  BY Reads DEF Published, ClientPCs
<1>3. Asked'
  BY <1>1, <1>2 DEF Asked, Published
<1> QED
  BY <1>1, <1>2, <1>3, ReadReply, ClientAlone

\* Visible, CALooks: the intent stays.
LEMMA LookInv == ASSUME IInv, Visible \/ CALooks PROVE IInv'
<1> USE DEF IInv, TypeOK, HubTypeOK
<1>1. PICK pc \in {"answered", "leaving"} : client' = [client EXCEPT !.pc = pc]
  BY DEF Visible, CALooks
<1>2. client.pc \in {"seen", "answered"} /\ UNCHANGED <<hubVars, intent, issued, acked>>
  BY DEF Visible, CALooks
<1>3. /\ client' \in Client /\ client'.pc = pc /\ client'.ref = client.ref
      /\ client'.waits = client.waits
  <2>1. client \in Client
    OBVIOUS
  <2> QED
    BY <1>1, <2>1 DEF Client
<1>4. Asked'
  BY <1>2, <1>3 DEF Asked
<1> QED
  BY <1>2, <1>3, <1>4, ClientAlone DEF hubVars

\* Withdrawn: what is forgotten has been confirmed.
LEMMA WithdrawnInv == ASSUME IInv, Withdrawn PROVE IInv'
<1> USE DEF IInv, TypeOK, HubTypeOK
<1>1. /\ Replied /\ session' = Consumed /\ UNCHANGED <<lease, record, lock, used, issued>>
      /\ client' = NoIssuance
  BY DEF Withdrawn
<1>2. /\ client.ref \in issued /\ client.ref = intent
      /\ intent' = NoRef /\ acked' = acked \union {intent}
  BY DEF Withdrawn, Forget, Asked
<1>3. Asked'
  BY <1>1, <1>2, NoIssuanceType DEF Asked
<1> QED
  BY <1>1, <1>2, <1>3, NoIssuanceType, ReadReply, ClientAlone

\* Retry: the same request on another session.
LEMMA RetryInv == ASSUME IInv, Retry PROVE IInv'
  BY ReadReply, AgainInv DEF Retry, IInv, TypeOK, HubTypeOK

\* A call that fails ends the issuance, and a publish that fails leads to the
\* withdrawal.
LEMMA FailedFits ==
    ASSUME IInv, Waiting, client' = Failed, UNCHANGED <<intent, issued>>
    PROVE  client' \in Client /\ Asked'
<1> USE DEF IInv, TypeOK
<1>1. CASE client.pc = "publishing"
  <2>1. client' = [client EXCEPT !.pc = "leaving", !.waits = NoSession]
    BY <1>1 DEF Failed
  <2>2. /\ client' \in Client /\ client'.pc = "leaving" /\ client'.waits = NoSession
        /\ client'.ref = client.ref
    <3>1. client \in Client
      OBVIOUS
    <3> QED
      BY <2>1, <3>1 DEF Client
  <2> QED
    BY <1>1, <2>2 DEF Asked
<1>2. CASE client.pc # "publishing"
  <2>1. client' = NoIssuance
    BY <1>2 DEF Failed
  <2> QED
    BY <2>1, NoIssuanceType DEF Asked
<1> QED
  BY <1>1, <1>2

\* CallFails: the intent is kept for the next issuance.
LEMMA CallFailsInv == ASSUME IInv, CallFails PROVE IInv'
<1>1. /\ Replied /\ session' = Consumed /\ client' = Failed
      /\ UNCHANGED <<lease, record, lock, used, intent, issued, acked>>
  BY DEF CallFails
<1>2. client' \in Client /\ Asked'
  BY <1>1, FailedFits DEF Replied
<1> QED
  BY <1>1, <1>2, ReadReply, ClientAlone DEF IInv, TypeOK, HubTypeOK

\* TimesOut: the late request is still one of the intent.
LEMMA TimesOutInv == ASSUME IInv, TimesOut PROVE IInv'
<1>1. /\ Waiting /\ UNCHANGED <<lease, record, lock, intent, issued, acked>>
      /\ used' \in 0..MaxFaults
  BY SpendType DEF TimesOut, IInv, TypeOK, HubTypeOK
<1>2. CASE Again(session)
  <2>1. client.pc \in {"cleaning", "publishing", "withdrawing"}
    BY <1>1 DEF Waiting, IInv, Asked
  <2> QED
    BY <1>1, <1>2, <2>1, AgainInv DEF IInv, TypeOK, HubTypeOK
<1>3. CASE client' = Failed /\ UNCHANGED session
  <2>1. client' \in Client /\ Asked'
    BY <1>1, <1>3, FailedFits
  <2> QED
    BY <1>1, <1>3, <2>1, ClientAlone DEF IInv, TypeOK, HubTypeOK
<1> QED
  BY <1>2, <1>3 DEF TimesOut

\* ClientDies: the intent is in the database.
LEMMA ClientDiesInv == ASSUME IInv, ClientDies PROVE IInv'
<1>1. used' \in 0..MaxFaults
  BY SpendType DEF ClientDies, IInv, TypeOK, HubTypeOK
<1>2. client' = NoIssuance /\ UNCHANGED <<lease, record, lock, session, intent, issued, acked>>
  BY DEF ClientDies
<1>3. Asked'
  BY <1>2, NoIssuanceType DEF IInv, Asked
<1> QED
  BY <1>1, <1>2, <1>3, NoIssuanceType, ClientAlone DEF IInv, TypeOK, HubTypeOK

-----------------------------------------------------------------------------
(* Every step.                                                             *)

\* Every step of certs._issue_locked and of acme_hub_client._post.
LEMMA IssuanceInv == ASSUME IInv, Issuance PROVE IInv'
  BY BeginInv, CleanedInv, IntendInv, PostPublishInv, PublishedInv, LookInv,
     PostWithdrawInv, WithdrawnInv, RetryInv, CallFailsInv, TimesOutInv, ClientDiesInv
     DEF Issuance

\* Every transaction of a session of the hub, and its write to Route53.
LEMMA ServeInv == ASSUME IInv, NEW s \in Sessions, HubStep(s) PROVE IInv'
<1>1. Serve(s) /\ UNCHANGED clientVars
  BY DEF HubStep
<1> QED
  BY <1>1, PublishInv, WithdrawInv, ExpireInv, SnapshotInv, WriteInv, FailInv,
     ActivateInv, StampInv, UnlockInv DEF Serve

\* The invariant is inductive.
LEMMA StepInv == IInv /\ [Next]_vars => IInv'
<1> SUFFICES ASSUME IInv, [Next]_vars PROVE IInv'
  OBVIOUS
<1>1. CASE Issuance
  BY <1>1, IssuanceInv
<1>2. CASE \E s \in Sessions : Hub(s)
  <2>1. PICK s \in Sessions : Hub(s)
    BY <1>2
  <2> QED
    BY <2>1, ServeInv, SweepInv, DropInv, SessionDiesInv DEF Hub, SweepStep
<1>3. CASE \E r \in Refs : Age(r) /\ UNCHANGED clientVars
  BY <1>3, AgeInv
<1>4. CASE UNCHANGED vars
  BY <1>4, StutterInv
<1> QED
  BY <1>1, <1>2, <1>3, <1>4 DEF Next

\* The knowledge the lock protects, the exactness of the record, and what the
\* installation knows of its requests hold together, in every reachable state.
THEOREM Invariant == Spec => []IInv
  BY InitInv, StepInv, PTL DEF Spec

-----------------------------------------------------------------------------
(* What follows.                                                           *)

\* Every variable of both sides of the network keeps its type, a session works
\* between snapshot and unlock exactly while it holds the advisory lock of
\* _allocation_lock, and the hub has no lease of a reference that was not drawn.
THEOREM TypeCorrect == Spec => []TypeOK
<1>1. IInv => TypeOK
  BY DEF IInv
<1> QED
  BY <1>1, Invariant, PTL

\* With any number of challenges, sessions and faults: when no row asks for
\* reconciliation, the record in the hub's zone is what the live leases ask for.
\* sweep, which looks for such rows, misses nothing.
THEOREM ReconciledExact == Spec => []ReconciledIsExact
<1>1. IInv => ReconciledIsExact
  BY DEF IInv, Exact, ReconciledIsExact
<1> QED
  BY <1>1, Invariant, PTL

\* A lease the hub keeps alive is the intent that _issue_locked has committed, or
\* one whose withdrawal was confirmed.
THEOREM IntendedLeases == Spec => []LeaseIsIntended
<1>1. IInv => LeaseIsIntended
  BY DEF IInv
<1> QED
  BY <1>1, Invariant, PTL

\* _persist_publish_lease refuses a retired reference, and no transaction of a
\* session that took its snapshot earlier brings one back.
LEMMA RetiredServe ==
    ASSUME IInv, NEW s \in Sessions, Serve(s), NEW r \in Refs, IsRetired(r)
    PROVE  lease'[r].state = lease[r].state
<1> USE DEF IInv, TypeOK, HubTypeOK
<1>1. ~IsLive(r)
  BY DEF IsRetired, IsLive, Retired, Live
<1>2. CASE Publish(s)
  <2>1. session[s].ref \in Refs
    BY <1>2 DEF Publish, Requests
  <2> QED
    BY <1>2, <2>1 DEF Publish, Persist
<1>3. CASE Withdraw(s)
  <2>1. session[s].ref \in Refs
    BY <1>3 DEF Withdraw, Requests
  <2> QED
    BY <1>1, <1>3, <2>1 DEF Withdraw
<1>4. CASE Expire(s)
  BY <1>1, <1>4 DEF Expire, Overdue
<1>5. CASE Fail(s)
  BY <1>5, DoneSaved DEF Fail
<1>6. CASE Activate(s)
  <2>1. r \notin session[s].pending
    BY <1>1, <1>6 DEF Activate, At, Snapshots
  <2> QED
    BY <1>6, <2>1 DEF Activate
<1>7. CASE Stamp(s)
  BY <1>7, DoneSaved DEF Stamp
<1>8. CASE Snapshot(s) \/ Write(s) \/ Unlock(s)
  BY <1>8 DEF Snapshot, Write, Unlock
<1> QED
  BY <1>2, <1>3, <1>4, <1>5, <1>6, <1>7, <1>8 DEF Serve

\* The same of every step.
LEMMA RetiredStep ==
    ASSUME IInv, [Next]_vars, NEW r \in Refs, IsRetired(r)
    PROVE  lease'[r].state = lease[r].state
<1>1. CASE Issuance
  BY <1>1 DEF Issuance, Begin, Cleaned, Intend, PostPublish, Published, Visible, CALooks,
     PostWithdraw, Withdrawn, Retry, CallFails, TimesOut, ClientDies, Call, hubVars
<1>2. CASE \E s \in Sessions : Hub(s)
  <2>1. PICK s \in Sessions : Hub(s)
    BY <1>2
  <2>2. CASE HubStep(s)
    BY <2>2, RetiredServe DEF HubStep
  <2>3. CASE SweepStep(s) \/ Drop(s) \/ SessionDies(s)
    BY <2>3 DEF SweepStep, Sweep, Drop, SessionDies
  <2> QED
    BY <2>1, <2>2, <2>3 DEF Hub
<1>3. CASE \E q \in Refs : Age(q) /\ UNCHANGED clientVars
  <2>1. PICK q \in Refs : Age(q)
    BY <1>3
  <2>2. q # r
    BY <2>1 DEF Age, IsLive, IsRetired, Live, Retired
  <2> QED
    BY <2>1, <2>2 DEF Age, IInv, TypeOK, HubTypeOK
<1>4. CASE UNCHANGED vars
  BY <1>4 DEF vars, hubVars
<1> QED
  BY <1>1, <1>2, <1>3, <1>4 DEF Next

\* "A withdrawn or expired reference cannot be republished", in whatever order
\* the copies of the requests arrive and whichever sessions die.
THEOREM RetiredForGood == Spec => RetiredStaysRetired
<1>1. IInv /\ [Next]_vars
         => [\A r \in Refs : IsRetired(r) => lease'[r].state = lease[r].state]_vars
  BY RetiredStep
<1> QED
  BY <1>1, Invariant, PTL DEF Spec, RetiredStaysRetired

-----------------------------------------------------------------------------
(* What the hub has confirmed.                                             *)

\* The challenge is in the record, or its lease has run out.
Serves(r) ==
    \/ IsLive(r) /\ Digests[r] \subseteq record
    \/ lease[r].state = "expired" /\ lease[r].old

\* What is seen is served.
Shown == client.pc \in {"seen", "answered"} => Serves(client.ref)

\* A reference that was just drawn is on no request.
Fresh ==
    client.pc = "intended" => \A s \in Sessions :
       session[s].op \in {"publish", "withdraw"} => session[s].ref # client.ref

\* From its intent to the CA's look nobody withdraws the challenge.
Publishing == {"intended", "publishing", "seen", "answered"}
Wanted ==
    client.pc \in Publishing => \A s \in Sessions :
       session[s].op = "withdraw" => session[s].ref # client.ref

\* A publish has a live lease while it holds the lock.
Holding == {"snapshot", "write", "activate", "stamp"}
HeldLive ==
    \A s \in Sessions :
       /\ session[s].pc = "retire" => session[s].op = "sweep"
       /\ session[s].op = "publish" /\ session[s].pc \in Holding => IsLive(session[s].ref)

\* The reply the client waits for is that of its publish, which says ok when
\* the challenge is served.
RightReply ==
    (client.pc = "publishing" /\ Waiting) =>
       \/ /\ session[client.waits].op = "publish"
          /\ session[client.waits].ref = client.ref
       \/ /\ session[client.waits].op = "none"
          /\ session[client.waits].pc = "reply" /\ session[client.waits].result # "ok"

OkServes ==
    client.pc = "publishing" => \A s \in Sessions :
       session[s].op = "publish" /\ session[s].ref = client.ref /\ session[s].result = "ok"
          => Serves(client.ref)

Confirmed == Shown /\ Fresh /\ Wanted /\ HeldLive /\ RightReply /\ OkServes

\* The initial states have all of it.
LEMMA InitConfirmed == Init => Confirmed
  BY DEF Init, HubInit, Confirmed, Shown, Fresh, Wanted, HeldLive, RightReply, OkServes,
         Publishing, Waiting, NoIssuance, Free, At

\* What an answer and a move do to the result.
LEMMA GotoResult ==
    ASSUME session \in [Sessions -> Session], NEW s \in Sessions, NEW pc \in PCs, Goto(s, pc)
    PROVE  session'[s].result = session[s].result
<1>1. session[s] \in Session /\ session'[s] = [session[s] EXCEPT !.pc = pc]
  BY DEF Goto
<1> QED
  BY <1>1 DEF Session

\* An answer is the result.
LEMMA AnswerResult ==
    ASSUME session \in [Sessions -> Session], NEW s \in Sessions, NEW pc \in PCs,
           NEW x \in {"ok", "refused", "unavailable"}, Answer(s, pc, x)
    PROVE  session'[s].result = x
<1>1. session[s] \in Session
         /\ session'[s] = [session[s] EXCEPT !.pc = pc, !.result = x]
  BY DEF Answer
<1> QED
  BY <1>1 DEF Session

\* A session of the hub keeps its request, and says ok to a publish only when
\* it stamps.
Proceeds(s) ==
    /\ \A t \in Sessions \ {s} : session'[t] = session[t]
    /\ \/ session'[s] = Free /\ session[s].op = "sweep"
       \/ /\ session'[s].op = session[s].op /\ session'[s].ref = session[s].ref
          /\ session'[s].pc # "retire"
          /\ session'[s].result = "ok" =>
                session[s].result = "ok" \/ session[s].op # "publish" \/ Stamp(s)

\* Every transaction of a session proceeds so.
LEMMA ServeProceeds ==
    ASSUME IInv, HeldLive, NEW s \in Sessions, Serve(s)
    PROVE  Proceeds(s) /\ session[s].pc \notin {"free", "reply"}
<1> USE DEF IInv, TypeOK, HubTypeOK
<1>1. CASE Publish(s)
  <2>1. \/ Answer(s, "unlock", "refused") \/ Goto(s, "snapshot") \/ Answer(s, "reply", "refused")
    BY <1>1 DEF Publish, Persist
  <2> QED
    BY <1>1, <2>1, GotoMoves, AnswerMoves, GotoResult, AnswerResult
       DEF PCs, Moved, Proceeds, Publish, At
<1>2. CASE Withdraw(s)
  <2>1. session[s].op = "withdraw" /\ (Answer(s, "unlock", "ok") \/ Goto(s, "snapshot"))
    BY <1>2 DEF Withdraw
  <2> QED
    BY <1>2, <2>1, GotoMoves, AnswerMoves DEF PCs, Moved, Proceeds, Withdraw, At
<1>3. CASE Expire(s) \/ Write(s) \/ Activate(s)
  <2>1. PICK pc \in {"snapshot", "activate", "failed", "stamp"} : Goto(s, pc)
    BY <1>3 DEF Expire, Write, Activate
  <2> QED
    BY <1>3, <2>1, GotoMoves, GotoResult
       DEF PCs, Moved, Proceeds, Expire, Write, Activate, At
<1>4. CASE Snapshot(s)
  <2> DEFINE v == [session[s] EXCEPT !.pc = "write", !.values = Desired, !.rows = Stored,
                        !.pending = {r \in Refs : lease[r].state = "pending"}]
  <2>1. session' = [session EXCEPT ![s] = v]
    BY <1>4 DEF Snapshot
  <2>2. /\ v.pc = "write" /\ v.op = session[s].op /\ v.ref = session[s].ref
        /\ v.result = session[s].result
    <3>1. session[s] \in Session
      OBVIOUS
    <3> QED
      BY <3>1 DEF Session
  <2> HIDE DEF v
  <2> QED
    BY <1>4, <2>1, <2>2 DEF Proceeds, Snapshot, At
<1>5. CASE Fail(s)
  <2>1. Answer(s, "unlock", "unavailable")
    BY <1>5 DEF Fail
  <2> QED
    BY <1>5, <2>1, AnswerMoves, AnswerResult DEF PCs, Moved, Proceeds, Fail, At
<1>6. CASE Stamp(s)
  <2>1. Answer(s, "unlock", "ok")
    BY <1>6 DEF Stamp
  <2> QED
    BY <1>6, <2>1, AnswerMoves DEF PCs, Moved, Proceeds, Stamp, At
<1>7. CASE Unlock(s)
  <2> DEFINE v == [session[s] EXCEPT !.pc = "reply"]
  <2>1. IF session[s].op = "sweep" THEN session' = [session EXCEPT ![s] = Free]
        ELSE session' = [session EXCEPT ![s] = v]
    BY <1>7 DEF Unlock
  <2>2. /\ v.pc = "reply" /\ v.op = session[s].op /\ v.ref = session[s].ref
        /\ v.result = session[s].result
    <3>1. session[s] \in Session
      OBVIOUS
    <3> QED
      BY <3>1 DEF Session
  <2> HIDE DEF v
  <2> QED
    BY <1>7, <2>1, <2>2 DEF Proceeds, Unlock, At
<1> QED
  BY <1>1, <1>2, <1>3, <1>4, <1>5, <1>6, <1>7 DEF Serve

\* What the hub's steps do to one lease: a live one is retired by its
\* withdrawal or once it is old, an old one that has expired stays so.
LEMMA LeaseKept ==
    ASSUME IInv, NEW s \in Sessions, Serve(s), NEW r \in Refs,
           session[s].op = "withdraw" => session[s].ref # r
    PROVE  /\ IsLive(r) => IsLive(r)' \/ (lease'[r].state = "expired" /\ lease'[r].old)
           /\ lease[r].state = "expired" /\ lease[r].old
                 => lease'[r].state = "expired" /\ lease'[r].old
<1> USE DEF IInv, TypeOK, HubTypeOK
<1>0. \A l \in Lease : LET m == [l EXCEPT !.state = "expired", !.done = FALSE] IN
         m.state = "expired" /\ m.old = l.old
  BY DEF Lease
<1>1. CASE Publish(s)
  <2>1. session[s].ref \in Refs
    BY <1>1 DEF Publish, Requests
  <2>2. lease' = lease \/ (~IsRetired(session[s].ref) /\ lease' =
           [lease EXCEPT ![session[s].ref] = [state |-> "pending", old |-> FALSE, done |-> FALSE]])
    BY <1>1 DEF Publish, Persist
  <2> QED
    BY <2>1, <2>2 DEF IsLive, IsRetired, Live, Retired
<1>2. CASE Withdraw(s)
  <2>1. session[s].ref \in Refs /\ session[s].ref # r
    BY <1>2 DEF Withdraw, Requests
  <2>2. lease'[r] = lease[r]
    BY <1>2, <2>1 DEF Withdraw
  <2> QED
    BY <2>2 DEF IsLive
<1>3. CASE Expire(s)
  <2>1. CASE r \in session[s].due \intersect Overdue
    <3>1. IsLive(r) /\ lease[r].old
      BY <2>1 DEF Overdue
    <3>2. lease'[r] = [lease[r] EXCEPT !.state = "expired", !.done = FALSE]
      BY <1>3, <2>1 DEF Expire
    <3> QED
      BY <1>0, <3>1, <3>2
  <2>2. CASE r \notin session[s].due \intersect Overdue
    <3>1. lease'[r] = lease[r]
      BY <1>3, <2>2 DEF Expire
    <3> QED
      BY <3>1 DEF IsLive
  <2> QED
    BY <2>1, <2>2
<1>4. CASE Fail(s) \/ Stamp(s)
  <2>1. lease'[r].state = lease[r].state /\ lease'[r].old = lease[r].old
    <3>1. CASE Fail(s)
      BY <3>1, DoneSaved DEF Fail
    <3>2. CASE Stamp(s)
      BY <3>2, DoneSaved DEF Stamp
    <3> QED
      BY <1>4, <3>1, <3>2
  <2> QED
    BY <2>1 DEF IsLive
<1>5. CASE Activate(s)
  <2>1. CASE r \in session[s].pending
    <3>1. IsLive(r)
      BY <1>5, <2>1 DEF Activate, At, Snapshots
    <3>2. lease'[r].state = "active"
      BY <1>5, <2>1, Activating DEF Activate
    <3> QED
      BY <3>1, <3>2 DEF IsLive, Live
  <2>2. CASE r \notin session[s].pending
    <3>1. lease'[r] = lease[r]
      BY <1>5, <2>2 DEF Activate
    <3> QED
      BY <3>1 DEF IsLive
  <2> QED
    BY <2>1, <2>2
<1>6. CASE Snapshot(s) \/ Write(s) \/ Unlock(s)
  BY <1>6 DEF Snapshot, Write, Unlock, IsLive
<1> QED
  BY <1>1, <1>2, <1>3, <1>4, <1>5, <1>6 DEF Serve

\* What is served stays served: whatever a session writes holds the values of
\* every live lease.
LEMMA ServesStays ==
    ASSUME IInv, NEW s \in Sessions, Serve(s), NEW r \in Refs,
           session[s].op = "withdraw" => session[s].ref # r, Serves(r)
    PROVE  Serves(r)'
<1>1. record' = record \/ (record' = Desired /\ Write(s))
  BY DEF Serve, Publish, Withdraw, Expire, Snapshot, Write, Fail, Activate, Stamp, Unlock,
         At, IInv, Snapshots
<1>2. IsLive(r) => Digests[r] \subseteq Desired
  BY DEF Desired
<1> QED
  BY <1>1, <1>2, LeaseKept DEF Serves

\* A publish that holds the lock keeps its lease.
LEMMA HeldLiveServe ==
    ASSUME IInv, HeldLive, NEW s \in Sessions, Serve(s)
    PROVE  HeldLive'
<1> USE DEF IInv, TypeOK, HubTypeOK
<1>1. Proceeds(s)
  BY ServeProceeds
<1>2. SUFFICES ASSUME NEW t \in Sessions
               PROVE  /\ session'[t].pc = "retire" => session'[t].op = "sweep"
                      /\ session'[t].op = "publish" /\ session'[t].pc \in Holding
                            => lease'[session[t].ref].state \in Live
                      /\ session'[t].op = "publish" => session'[t].ref = session[t].ref
  BY DEF HeldLive, IsLive
<1>3. CASE t # s
  <2>1. session'[t] = session[t]
    BY <1>1, <1>3 DEF Proceeds
  <2>2. ASSUME session[t].op = "publish", session[t].pc \in Holding
        PROVE  lease'[session[t].ref].state \in Live
    <3>1. lock = t /\ IsLive(session[t].ref) /\ session[t].ref \in Refs
      BY <2>2 DEF HeldLive, Holding, Locked, Requests
    <3>2. session[s].pc \notin Locked
      BY <1>3, <3>1
    <3>3. NoSession # t
      OBVIOUS
    <3>4. lease' = lease
      BY <3>1, <3>2, <3>3 DEF Serve, Publish, Withdraw, Expire, Snapshot, Write, Fail, Activate,
         Stamp, Unlock, At, Acquire, Locked
    <3> QED
      BY <3>1, <3>4 DEF IsLive
  <2> QED
    BY <2>1, <2>2 DEF HeldLive
<1>4. CASE t = s
  <2>1. /\ session'[s].pc # "retire"
        /\ session'[s].op = "publish" =>
              session[s].op = "publish" /\ session'[s].ref = session[s].ref
    BY <1>1 DEF Proceeds, Free
  <2>2. ASSUME session[s].op = "publish", session'[s].pc \in Holding
        PROVE  lease'[session[s].ref].state \in Live
    <3>1. session[s].ref \in Refs
      BY <2>2 DEF Requests
    <3>2. CASE Publish(s)
      <4>1. ~IsRetired(session[s].ref)
        BY <2>2, <3>2, AnswerMoves DEF Publish, Persist, PCs, Moved, Holding
      <4>2. ~ Answer(s, "reply", "refused")
        BY <2>2, AnswerMoves DEF PCs, Moved, Holding
      <4>3. lease' =
              [lease EXCEPT ![session[s].ref] = [state |-> "pending", old |-> FALSE, done |-> FALSE]]
        BY <3>2, <4>1, <4>2 DEF Publish, Persist
      <4> QED
        BY <3>1, <4>3 DEF IsLive, Live
    <3>3. CASE Snapshot(s) \/ Write(s)
      <4>1. IsLive(session[s].ref) /\ lease' = lease
        BY <2>2, <3>3 DEF Snapshot, Write, At, HeldLive, Holding
      <4> QED
        BY <4>1 DEF IsLive
    <3>4. CASE Activate(s)
      <4>1. IsLive(session[s].ref)
        BY <2>2, <3>4 DEF Activate, At, HeldLive, Holding
      <4>2. \/ lease'[session[s].ref] = lease[session[s].ref]
            \/ lease'[session[s].ref].state = "active"
        BY <3>1, <3>4, Activating DEF Activate
      <4> QED
        BY <4>1, <4>2 DEF IsLive, Live
    <3>5. CASE Fail(s) \/ Stamp(s)
      BY <2>2, <3>5, AnswerMoves DEF Fail, Stamp, PCs, Moved, Holding
    <3>6. CASE Unlock(s)
      <4>1. session[s] \in Session /\ session'[s] = [session[s] EXCEPT !.pc = "reply"]
        BY <2>2, <3>6 DEF Unlock
      <4>2. session'[s].pc = "reply"
        BY <4>1 DEF Session
      <4> QED
        BY <2>2, <4>2 DEF Holding
    <3>7. CASE Withdraw(s) \/ Expire(s)
      BY <2>2, <3>7 DEF Withdraw, Expire, At, HeldLive
    <3> QED
      BY <3>2, <3>3, <3>4, <3>5, <3>6, <3>7 DEF Serve
  <2> QED
    BY <1>4, <2>1, <2>2
<1> QED
  BY <1>3, <1>4

\* The challenge the client is about to publish, or has published, was drawn.
LEMMA WantedRef ==
    ASSUME IInv, client.pc \in Publishing
    PROVE  client.ref \in Refs /\ client.ref \in issued
  BY DEF IInv, TypeOK, Asked, Publishing

\* The transactions of the hub keep what it has confirmed.
LEMMA ServeConfirmed ==
    ASSUME IInv, Confirmed, NEW s \in Sessions, Serve(s), UNCHANGED clientVars
    PROVE  Confirmed'
<1> USE DEF Confirmed
<1>1. Proceeds(s) /\ session[s].pc \notin {"free", "reply"} /\ client' = client
  BY ServeProceeds DEF clientVars
<1>2. \A t \in Sessions : session'[t].op \in {"publish", "withdraw"} =>
         session'[t].op = session[t].op /\ session'[t].ref = session[t].ref
  BY <1>1 DEF Proceeds, Free
<1>3. client.pc \in Publishing => (Serves(client.ref) => Serves(client.ref)')
  <2>1. client.pc \in Publishing => (Serves(client.ref)
           => (IsLive(client.ref)' /\ Digests[client.ref] \subseteq record')
              \/ (lease'[client.ref].state = "expired" /\ lease'[client.ref].old))
    <3>1. SUFFICES ASSUME NEW r \in Refs, r = client.ref, client.pc \in Publishing, Serves(r)
                   PROVE  (IsLive(r)' /\ Digests[r] \subseteq record')
                          \/ (lease'[r].state = "expired" /\ lease'[r].old)
      BY <1>1, WantedRef DEF IsLive
    <3>2. Serves(r)'
      BY <3>1, ServesStays DEF Wanted
    <3> QED
      BY <3>2 DEF Serves
  <2> QED
    BY <1>1, <2>1 DEF Serves
<1>4. Shown'
  BY <1>1, <1>3 DEF Shown, Publishing
<1>5. Fresh' /\ Wanted'
  BY <1>1, <1>2 DEF Fresh, Wanted
<1>6. HeldLive'
  BY HeldLiveServe
<1>7. RightReply'
  <2>1. CASE client.waits = s
    BY <1>1, <2>1 DEF RightReply, Waiting, Proceeds
  <2>2. CASE client.waits # s
    <3>1. Waiting => client.waits \in Sessions \ {s}
      BY <2>2 DEF Waiting, IInv, TypeOK, Client
    <3> QED
      BY <1>1, <3>1 DEF RightReply, Waiting, Proceeds
  <2> QED
    BY <2>1, <2>2
<1>8. OkServes'
  <2>1. SUFFICES ASSUME NEW t \in Sessions, client.pc = "publishing",
                        session'[t].op = "publish", session'[t].ref = client.ref,
                        session'[t].result = "ok"
                 PROVE  Serves(client.ref)
    BY <1>1, <1>3 DEF OkServes, Publishing
  <2>2. session[t].op = "publish" /\ session[t].ref = client.ref
    BY <1>2, <2>1
  <2>3. CASE session[t].result = "ok"
    BY <2>1, <2>2, <2>3 DEF OkServes
  <2>4. CASE session[t].result # "ok"
    <3>1. t = s /\ Stamp(s)
      BY <1>1, <2>1, <2>2, <2>4 DEF Proceeds, Free
    <3>2. IsLive(client.ref) /\ record = Desired
      BY <2>2, <3>1 DEF Stamp, At, HeldLive, Holding, IInv, Snapshots
    <3>3. client.ref \in Refs
      BY <2>1, WantedRef DEF Publishing
    <3> QED
      BY <3>2, <3>3 DEF Serves, Desired
  <2> QED
    BY <2>3, <2>4
<1> QED
  BY <1>4, <1>5, <1>6, <1>7, <1>8

\* So do the sweep, lost replies, sessions that die, and time.
LEMMA QuietConfirmed ==
    ASSUME IInv, Confirmed, UNCHANGED <<client, record>>,
           \A r \in Refs : lease'[r].state = lease[r].state /\ (lease[r].old => lease'[r].old),
           \A t \in Sessions : session'[t] = session[t] \/
              (/\ session'[t].op \notin {"publish", "withdraw"}
               /\ session'[t].pc = "retire" => session'[t].op = "sweep"
               /\ (client.pc = "publishing" /\ t = client.waits) =>
                     /\ session'[t].op = "none" /\ session'[t].pc = "reply"
                     /\ session'[t].result # "ok")
    PROVE  Confirmed'
<1> USE DEF Confirmed
<1>1. \A t \in Sessions : session'[t].op \in {"publish", "withdraw"} => session'[t] = session[t]
  OBVIOUS
<1>2. client.pc \in Publishing => (Serves(client.ref) => Serves(client.ref)')
  BY WantedRef DEF Serves, IsLive
<1>3. Shown' /\ Fresh' /\ Wanted' /\ OkServes'
  BY <1>1, <1>2 DEF Shown, Fresh, Wanted, OkServes, Publishing
<1>4. HeldLive'
  <2>1. \A t \in Sessions : session[t].op = "publish" => session[t].ref \in Refs
    BY DEF IInv, TypeOK, Requests
  <2> QED
    BY <1>1, <2>1 DEF HeldLive, IsLive
<1>5. RightReply'
  BY DEF RightReply, Waiting, IInv, TypeOK, Client
<1> QED
  BY <1>3, <1>4, <1>5

\* Every step of the hub keeps what it has confirmed.
LEMMA HubConfirmed == ASSUME IInv, Confirmed, NEW s \in Sessions, Hub(s) PROVE Confirmed'
<1>1. CASE HubStep(s)
  BY <1>1, ServeConfirmed DEF HubStep
<1>2. CASE SweepStep(s)
  <2> DEFINE v == [Free EXCEPT !.pc = "retire", !.op = "sweep", !.due = Overdue]
  <2>1. v.pc = "retire" /\ v.op = "sweep"
    BY DEF Free
  <2>2. /\ session' = [session EXCEPT ![s] = v] /\ session[s] = Free
        /\ UNCHANGED <<lease, record, client>>
    BY <1>2 DEF SweepStep, Sweep, At, clientVars, IInv, TypeOK, HubTypeOK
  <2>3. (client.pc = "publishing" /\ client.waits = s) => FALSE
    BY <2>2 DEF Confirmed, RightReply, Waiting, Free, IInv, TypeOK, HubTypeOK
  <2> HIDE DEF v
  <2> QED
    BY <2>1, <2>2, <2>3, QuietConfirmed DEF IInv, TypeOK, HubTypeOK
<1>3. CASE Drop(s)
  <2>1. /\ session' = [session EXCEPT ![s] = Free] /\ client.waits # s
        /\ UNCHANGED <<lease, record, client>>
    BY <1>3 DEF Drop, clientVars
  <2> QED
    BY <2>1, FreeType, QuietConfirmed DEF IInv, TypeOK, HubTypeOK
<1>4. CASE SessionDies(s)
  <2> DEFINE v == [Free EXCEPT !.pc = "reply", !.result = "unavailable"]
  <2>1. v.pc = "reply" /\ v.op = "none" /\ v.result = "unavailable"
    BY DEF Free
  <2>2. /\ session' = [session EXCEPT ![s] = IF client.waits = s THEN v ELSE Free]
        /\ UNCHANGED <<lease, record, client>>
    BY <1>4 DEF SessionDies, clientVars
  <2> HIDE DEF v
  <2> QED
    BY <2>1, <2>2, FreeType, QuietConfirmed DEF IInv, TypeOK, HubTypeOK
<1> QED
  BY <1>1, <1>2, <1>3, <1>4 DEF Hub

\* So does time: a lease that runs out is one that is old.
LEMMA AgeConfirmed ==
    ASSUME IInv, Confirmed, NEW r \in Refs, Age(r), UNCHANGED clientVars
    PROVE  Confirmed'
<1>1. \A l \in Lease : LET m == [l EXCEPT !.old = TRUE] IN m.state = l.state /\ m.old = TRUE
  BY DEF Lease
<1>2. \A q \in Refs : lease'[q].state = lease[q].state /\ (lease[q].old => lease'[q].old)
  BY <1>1 DEF Age, IInv, TypeOK, HubTypeOK
<1> QED
  BY <1>2, QuietConfirmed DEF Age, clientVars

\* The client touches neither leases nor record; the sessions it touches it
\* leaves free or sent.
Touches ==
    /\ UNCHANGED <<lease, record>>
    /\ \A t \in Sessions : session'[t] = session[t] \/ session'[t].pc \in {"free", "sent"}

\* The client does not come between a publish and its lease.
LEMMA TouchesHeld == ASSUME Confirmed, Touches PROVE HeldLive'
  BY DEF Confirmed, HeldLive, Touches, Holding, IsLive

\* Where the challenge is not, or no longer, wanted, nothing else is said.
LEMMA Elsewhere ==
    ASSUME Confirmed, Touches, client'.pc \notin Publishing
    PROVE  Confirmed'
  BY TouchesHeld DEF Confirmed, Shown, Fresh, Wanted, RightReply, OkServes, Publishing

\* The challenge is seen to be served.
LEMMA SeesServed ==
    ASSUME Confirmed, UNCHANGED <<lease, record>>, client.pc \in Publishing,
           client'.pc \in {"seen", "answered"}, client'.ref = client.ref, Serves(client.ref),
           \A t \in Sessions : session'[t] = session[t] \/ session'[t] = Free
    PROVE  Confirmed'
<1>1. Touches
  BY FreeType DEF Touches
<1>2. Shown'
  BY DEF Shown, Serves, IsLive
<1>3. Fresh' /\ Wanted' /\ RightReply' /\ OkServes'
  BY FreeType DEF Confirmed, Fresh, Wanted, RightReply, OkServes, Publishing
<1> QED
  BY <1>1, <1>2, <1>3, TouchesHeld DEF Confirmed

\* A publish is sent, for the first or the second time.
LEMMA PublishSent ==
    ASSUME IInv, Confirmed, NEW base \in [Sessions -> Session],
           \A t \in Sessions : base[t] = session[t] \/ base[t] = Free,
           NEW s \in Sessions,
           session' = [base EXCEPT
              ![s] = [Free EXCEPT !.pc = "sent", !.op = "publish", !.ref = client.ref]],
           client.pc \in {"intended", "publishing"}, client'.pc = "publishing",
           client'.ref = client.ref, client'.waits = s, UNCHANGED <<lease, record>>
    PROVE  Confirmed'
<1> DEFINE v == [Free EXCEPT !.pc = "sent", !.op = "publish", !.ref = client.ref]
<1>1. v.pc = "sent" /\ v.op = "publish" /\ v.ref = client.ref /\ v.result = "none"
  BY DEF Free
<1>2. session' = [base EXCEPT ![s] = v]
  OBVIOUS
<1> HIDE DEF v
<1>3. session'[s] = v /\ \A t \in Sessions \ {s} : session'[t] = session[t] \/ session'[t] = Free
  BY <1>2
<1>4. Touches
  BY <1>1, <1>3, FreeType DEF Touches
<1>5. Shown' /\ Fresh' /\ RightReply'
  BY <1>1, <1>3 DEF Shown, Fresh, RightReply
<1>6. Wanted'
  BY <1>1, <1>3, FreeType DEF Confirmed, Wanted, Publishing
<1>7. OkServes'
  <2>1. SUFFICES ASSUME NEW t \in Sessions, session'[t].op = "publish",
                        session'[t].ref = client.ref, session'[t].result = "ok"
                 PROVE  Serves(client.ref)'
    BY DEF OkServes, Serves, IsLive
  <2>2. session'[t] = session[t]
    BY <1>1, <1>3, <2>1, FreeType
  <2>3. Serves(client.ref)
    BY <2>1, <2>2 DEF Confirmed, OkServes, Fresh
  <2> QED
    BY <2>3 DEF Serves, IsLive
<1> QED
  BY <1>4, <1>5, <1>6, <1>7, TouchesHeld DEF Confirmed

\* A request of the client, of either kind.
LEMMA SentTouches ==
    ASSUME NEW base \in [Sessions -> Session],
           \A t \in Sessions : base[t] = session[t] \/ base[t] = Free,
           NEW s \in Sessions, NEW op, NEW r,
           session' = [base EXCEPT ![s] = [Free EXCEPT !.pc = "sent", !.op = op, !.ref = r]],
           UNCHANGED <<lease, record>>
    PROVE  Touches
<1> DEFINE v == [Free EXCEPT !.pc = "sent", !.op = op, !.ref = r]
<1>1. v.pc = "sent"
  BY DEF Free
<1>2. session' = [base EXCEPT ![s] = v]
  OBVIOUS
<1> HIDE DEF v
<1> QED
  BY <1>1, <1>2, FreeType DEF Touches

\* A first attempt, of either kind.
LEMMA CallTouches ==
    ASSUME IInv, NEW op, NEW r, NEW pc, Call(op, r, pc)
    PROVE  Touches /\ client'.pc = pc
<1>1. PICK s \in Sessions : Request(s, op, r)
                            /\ client' = [client EXCEPT !.pc = pc, !.waits = s, !.tries = 1]
  BY DEF Call
<1>2. client \in Client
  BY DEF IInv, TypeOK
<1>3. client'.pc = pc
  BY <1>1, <1>2 DEF Client
<1> QED
  BY <1>1, <1>3, SentTouches DEF Request, Call, IInv, TypeOK, HubTypeOK

\* A second attempt, of either kind.
LEMMA AgainConfirmed ==
    ASSUME IInv, Confirmed, NEW base \in [Sessions -> Session],
           \A t \in Sessions : base[t] = session[t] \/ base[t] = Free,
           client.pc \in {"cleaning", "publishing", "withdrawing"}, Again(base),
           UNCHANGED <<lease, record>>
    PROVE  Confirmed'
<1> DEFINE op == IF client.pc = "publishing" THEN "publish" ELSE "withdraw"
           r == IF client.pc = "cleaning" THEN intent ELSE client.ref
<1>1. PICK s \in Sessions :
         /\ session' = [base EXCEPT ![s] = [Free EXCEPT !.pc = "sent", !.op = op, !.ref = r]]
         /\ client' = [client EXCEPT !.waits = s, !.tries = 2]
  BY DEF Again
<1>2. client'.pc = client.pc /\ client'.waits = s /\ client'.ref = client.ref
  BY <1>1, WaitsAgain DEF IInv, TypeOK
<1>3. CASE client.pc = "publishing"
  <2>1. op = "publish" /\ r = client.ref
    BY <1>3
  <2> HIDE DEF op, r
  <2> QED
    BY <1>1, <1>2, <1>3, <2>1, PublishSent
<1>4. CASE client.pc # "publishing"
  <2> HIDE DEF op, r
  <2>1. Touches
    BY <1>1, SentTouches
  <2> QED
    BY <1>2, <1>4, <2>1, Elsewhere DEF Publishing
<1> QED
  BY <1>3, <1>4

\* A call that fails leads away from the challenge.
LEMMA FailedElsewhere ==
    ASSUME IInv, client' = Failed
    PROVE  client'.pc \in {"leaving", "idle"}
  BY Reads, NoIssuanceType DEF Failed, IInv, TypeOK, ClientPCs

\* A reference is drawn that no request is for.
LEMMA IntendConfirmed == ASSUME IInv, Confirmed, Intend PROVE Confirmed'
<1>1. PICK r \in Refs \ issued : client' = [client EXCEPT !.pc = "intended", !.ref = r]
  BY DEF Intend
<1>2. client'.pc = "intended" /\ client'.ref = r
  <2>1. client \in Client
    BY DEF IInv, TypeOK
  <2> QED
    BY <1>1, <2>1 DEF Client
<1>3. UNCHANGED <<lease, record, session>>
  BY DEF Intend, hubVars
<1>4. \A s \in Sessions : session[s].op \in {"publish", "withdraw"} => session[s].ref # r
  BY DEF IInv, Requests
<1>5. Touches
  BY <1>3 DEF Touches
<1>6. Shown' /\ Fresh' /\ Wanted' /\ RightReply' /\ OkServes'
  BY <1>2, <1>3, <1>4 DEF Shown, Fresh, Wanted, RightReply, OkServes
<1> QED
  BY <1>5, <1>6, TouchesHeld DEF Confirmed

\* Every step of the client.
LEMMA IssuanceConfirmed == ASSUME IInv, Confirmed, Issuance PROVE Confirmed'
<1> USE DEF IInv, TypeOK, HubTypeOK
<1>1. CASE Begin
  <2>1. CASE intent # NoRef
    <3>1. Touches /\ client'.pc = "cleaning"
      BY <1>1, <2>1, CallTouches DEF Begin
    <3> QED
      BY <3>1, Elsewhere DEF Publishing
  <2>2. CASE intent = NoRef
    <3>1. client' = [client EXCEPT !.pc = "order"] /\ UNCHANGED hubVars
      BY <1>1, <2>2 DEF Begin
    <3>2. client'.pc = "order" /\ Touches
      BY <3>1, Advance DEF ClientPCs, Touches, hubVars
    <3> QED
      BY <3>2, Elsewhere DEF Publishing
  <2> QED
    BY <2>1, <2>2
<1>2. CASE Cleaned
  <2>1. client'.pc = "order" /\ UNCHANGED <<lease, record>>
    BY <1>2, Reads DEF Cleaned, ClientPCs
  <2>2. Touches
    BY <1>2, <2>1, ReadReply, FreeType DEF Cleaned, Touches
  <2> QED
    BY <2>1, <2>2, Elsewhere DEF Publishing
<1>3. CASE Intend
  BY <1>3, IntendConfirmed
<1>4. CASE PostPublish
  <2>1. client.pc = "intended" /\ Call("publish", client.ref, "publishing")
    BY <1>4 DEF PostPublish
  <2>2. PICK s \in Sessions :
           /\ session' = [session EXCEPT
                 ![s] = [Free EXCEPT !.pc = "sent", !.op = "publish", !.ref = client.ref]]
           /\ client' = [client EXCEPT !.pc = "publishing", !.waits = s, !.tries = 1]
    BY <2>1 DEF Call, Request
  <2>3. client'.pc = "publishing" /\ client'.ref = client.ref /\ client'.waits = s
    <3>1. client \in Client
      OBVIOUS
    <3> QED
      BY <2>2, <3>1 DEF Client
  <2>4. UNCHANGED <<lease, record>>
    BY <2>1 DEF Call
  <2> QED
    BY <2>1, <2>2, <2>3, <2>4, PublishSent
<1>5. CASE Published
  <2>1. /\ client'.pc = "seen" /\ client'.ref = client.ref /\ UNCHANGED <<lease, record>>
        /\ client.pc = "publishing" /\ Replied /\ Reply = "ok" /\ session' = Consumed
    BY <1>5, Reads DEF Published, ClientPCs
  <2>2. Serves(client.ref)
    BY <2>1, ReadReply DEF Replied, Reply, Confirmed, RightReply, OkServes
  <2> QED
    BY <2>1, <2>2, ReadReply, SeesServed DEF Publishing
<1>6. CASE Visible
  <2>1. PICK pc \in {"answered", "leaving"} : client' = [client EXCEPT !.pc = pc]
    BY <1>6 DEF Visible
  <2>2. client'.pc = pc /\ client'.ref = client.ref
    <3>1. client \in Client
      OBVIOUS
    <3> QED
      BY <2>1, <3>1 DEF Client
  <2>3. client.pc = "seen" /\ UNCHANGED <<lease, record, session>>
    BY <1>6 DEF Visible, hubVars
  <2>4. Serves(client.ref)
    BY <2>3 DEF Confirmed, Shown
  <2>5. pc = "leaving" => Confirmed'
    BY <2>2, <2>3, Elsewhere DEF Publishing, Touches
  <2> QED
    BY <2>2, <2>3, <2>4, <2>5, SeesServed DEF Publishing
<1>7. CASE CALooks
  <2>1. client'.pc = "leaving" /\ UNCHANGED <<lease, record, session>>
    BY <1>7, Advance DEF CALooks, hubVars, ClientPCs
  <2> QED
    BY <2>1, Elsewhere DEF Publishing, Touches
<1>8. CASE PostWithdraw
  <2>1. Touches /\ client'.pc = "withdrawing"
    BY <1>8, CallTouches DEF PostWithdraw
  <2> QED
    BY <2>1, Elsewhere DEF Publishing
<1>9. CASE Withdrawn
  <2>1. Touches
    BY <1>9, ReadReply, FreeType DEF Withdrawn, Touches
  <2> QED
    BY <1>9, <2>1, NoIssuanceType, Elsewhere DEF Withdrawn, Publishing
<1>10. CASE Retry
  BY <1>10, ReadReply, AgainConfirmed DEF Retry
<1>11. CASE CallFails
  <2>1. Touches
    BY <1>11, ReadReply, FreeType DEF CallFails, Touches
  <2> QED
    BY <1>11, <2>1, FailedElsewhere, Elsewhere DEF CallFails, Publishing
<1>12. CASE TimesOut
  <2>1. CASE Again(session)
    <3>1. client.pc \in {"cleaning", "publishing", "withdrawing"} /\ UNCHANGED <<lease, record>>
      BY <1>12 DEF TimesOut, Waiting, Asked
    <3> QED
      BY <2>1, <3>1, AgainConfirmed
  <2>2. CASE client' = Failed /\ UNCHANGED session
    <3>1. Touches
      BY <1>12, <2>2 DEF TimesOut, Touches
    <3> QED
      BY <2>2, <3>1, FailedElsewhere, Elsewhere DEF Publishing
  <2> QED
    BY <1>12, <2>1, <2>2 DEF TimesOut
<1>13. CASE ClientDies
  BY <1>13, NoIssuanceType, Elsewhere DEF ClientDies, Touches, Publishing
<1> QED
  BY <1>1, <1>2, <1>3, <1>4, <1>5, <1>6, <1>7, <1>8, <1>9, <1>10, <1>11, <1>12, <1>13
     DEF Issuance

\* What the hub has confirmed is inductive, given the invariant.
LEMMA StepConfirmed == IInv /\ Confirmed /\ [Next]_vars => Confirmed'
<1> SUFFICES ASSUME IInv, Confirmed, [Next]_vars PROVE Confirmed'
  OBVIOUS
<1>1. CASE Issuance
  BY <1>1, IssuanceConfirmed
<1>2. CASE \E s \in Sessions : Hub(s)
  BY <1>2, HubConfirmed
<1>3. CASE \E r \in Refs : Age(r) /\ UNCHANGED clientVars
  BY <1>3, AgeConfirmed
<1>4. CASE UNCHANGED vars
  BY <1>4, QuietConfirmed DEF vars, hubVars, clientVars
<1> QED
  BY <1>1, <1>2, <1>3, <1>4 DEF Next

\* A challenge the hub has confirmed stays in the record through late copies of
\* its request, sweeps, failed writes and the leases of other challenges, until
\* the issuance is through with it or its lease has run out.
THEOREM ConfirmedHolds == Spec => []ConfirmedIsServed
<1>1. Confirmed => ConfirmedIsServed
  BY DEF Confirmed, Shown, Serves, ConfirmedIsServed
<1>2. Spec => []Confirmed
  BY Invariant, InitConfirmed, StepConfirmed, PTL DEF Spec
<1> QED
  BY <1>1, <1>2, PTL
=============================================================================
