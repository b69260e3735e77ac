----------------------------- MODULE Certificates -----------------------------
(***************************************************************************)
(* mojo/apps/dnsman: certificates of one domain, issued over ACME DNS-01.  *)
(* Requests and the renew_due scan publish jobs under idempotency keys;    *)
(* workers take the jobs, claim the Certificate row and talk to the CA and *)
(* to the DNS provider; a DnsRecordReservation keeps interactive DNS edits *)
(* and other certificates off the challenge record meanwhile.              *)
(*                                                                         *)
(* A step is one transaction on the database, or one call to the CA or the *)
(* provider with what is saved after it.  All certificates of the domain   *)
(* share one challenge record, so there is at most one live reservation.   *)
(* A job is delivered as JobSystem has it with max_retries = 0, the        *)
(* default of publish(): once, and a crash loses it.                       *)
(***************************************************************************)
EXTENDS Integers, FiniteSets

CONSTANTS
    Certs,        (* primary keys of Certificate rows *)
    Names,        (* the name sets a certificate may be requested for *)
    Workers,      (* the job futures that run certificate jobs *)
    NoCert, NoNames,
    Human,        (* what an operator writes to the challenge record *)
    Faults, MaxFaults,
    MaxDue        (* bound on how often a renew_after passes *)

\* What may go wrong:
\*   crash     a worker's process dies
\*   provider  a call to the DNS provider raises, applied or not, or the
\*             record is not seen in time
\*   ca        the CA refuses the order, the challenge or the certificate, as
\*             often as it likes: neither this nor a failed removal of a
\*             challenge value is counted
\*   lapse     the stored material expires
\*   scan      a job tries the lock in the instant renew_due holds it
\*   rerun     an operator retries a job that was given up
\*   backlog   a job has not ended a week after it was published
\*   revoke    an operator revokes a certificate
FaultKinds == {"crash", "provider", "ca", "lapse", "scan", "rerun", "backlog", "revoke"}

ASSUME CertAssumption ==
    /\ Faults \in SUBSET FaultKinds
    /\ MaxFaults \in Nat /\ MaxDue \in Nat
    /\ NoCert \notin Certs /\ NoNames \notin Names
    /\ Human \notin Nat

VARIABLES
    rows,      (* the Certificate table *)
    resv,      (* the live DnsRecordReservation of the challenge record *)
    zone,      (* the values of the challenge record *)
    queued,    (* jobs with a row, published and not taken, by idempotency key *)
    keys,      (* the idempotency keys of all Job rows *)
    worker,    (* where _run and issue stand *)
    revoker,   (* the row a revocation has loaded *)
    orders,    (* how many CA orders were made; an order names its digests *)
    dues,      (* how often a renew_after passed *)
    used,      (* how many faults have happened *)
    revoked,   (* history: the rows the CA was asked to revoke *)
    lost       (* history: the orders whose worker died *)

jobVars == <<queued, keys>>
dnsVars == <<resv, zone>>
histVars == <<revoked, lost>>
vars == <<rows, dnsVars, jobVars, worker, revoker, orders, dues, used, histVars>>

Status == {"absent", "pending", "issuing", "active", "failed", "revoked", "deleted"}

\* due: renew_after has passed; mark and mod: versions of renew_after and of
\* modified; stale: modified is older than issuing_stale_seconds.
Row == [status : Status, names : Names \union {NoNames},
        mat : {"none", "valid", "expired"}, due : BOOLEAN, mark : Nat,
        mod : Nat, stale : BOOLEAN]

Key == [kind : {"issue", "renew", "recover"}, cert : Certs, mark : Nat]

NoRow == [status |-> "absent", names |-> NoNames, mat |-> "none", due |-> FALSE,
          mark |-> 0, mod |-> 0, stale |-> FALSE]
NoResv == [state |-> "none", owner |-> NoCert, id |-> 0, value |-> 0]
NoKey == [kind |-> "none", cert |-> NoCert, mark |-> 0]
IdleWorker == [pc |-> "idle", key |-> NoKey, cert |-> NoCert, renewing |-> FALSE,
               object |-> NoRow, order |-> 0, rid |-> 0, ok |-> FALSE]
NoRevoker == [cert |-> NoCert, object |-> NoRow]

\* object: the loaded row, as save() would write it back.  rid: the
\* reservation it planted under, 0 before.
PC == {"idle", "lock", "claim", "preclean", "prerelease", "prepend", "order",
       "reserve", "upsert", "wait", "answer", "finalize", "fail", "clear",
       "release", "pend", "supersede"}
Worker == [pc : PC, key : Key \union {NoKey}, cert : Certs \union {NoCert},
           renewing : BOOLEAN, object : Row, order : Nat, rid : Nat, ok : BOOLEAN]

TypeOK ==
    /\ rows \in [Certs -> Row]
    /\ resv \in [state : {"none", "reserved", "cleanup_pending"},
                 owner : Certs \union {NoCert}, id : Nat, value : Nat]
    /\ resv.state # "none" => resv.id \in 1..orders /\ resv.value \in 1..orders
    /\ zone \subseteq (1..orders) \union {Human}
    /\ keys \subseteq Key /\ queued \subseteq Key
    /\ worker \in [Workers -> Worker]
    /\ \A w \in Workers : worker[w].pc = "idle" <=> worker[w] = IdleWorker
    /\ revoker \in [cert : Certs \union {NoCert}, object : Row]
    /\ orders \in Nat /\ dues \in 0..MaxDue /\ used \in 0..MaxFaults
    /\ revoked \subseteq Certs /\ lost \subseteq 1..orders

Init ==
    /\ rows = [c \in Certs |-> NoRow]
    /\ resv = NoResv /\ zone = {}
    /\ queued = {} /\ keys = {}
    /\ worker = [w \in Workers |-> IdleWorker]
    /\ revoker = NoRevoker
    /\ orders = 0 /\ dues = 0 /\ used = 0
    /\ revoked = {} /\ lost = {}

Spend(f) ==
    /\ f \in Faults
    /\ used < MaxFaults
    /\ used' = used + 1

HasValidMaterial(row) == row.mat = "valid"

-----------------------------------------------------------------------------
(* Publishing.                                                             *)

IssueKey(c) == [kind |-> "issue", cert |-> c, mark |-> 0]
RenewKey(c) == [kind |-> "renew", cert |-> c, mark |-> rows[c].mark]
RecoverKey(c) == [kind |-> "recover", cert |-> c, mark |-> rows[c].mod]

\* jobs.publish: a key that is in the table already publishes nothing.
PublishJob(k) ==
    /\ keys' = keys \union {k}
    /\ queued' = IF k \in keys THEN queued ELSE queued \union {k}

OfNames(n, states) == {c \in Certs : rows[c].names = n /\ rows[c].status \in states}

\* Mutant: a row that is being renewed is not looked at.
CandidatesIdle(n) == OfNames(n, {"pending", "active"})

\* The row that already serves, or will serve, these names.
Candidates(n) == OfNames(n, {"pending", "issuing", "active"})

\* request_certificate, under the lock of the Domain row: the first of the
\* candidates is used again, otherwise a row is created.
Request(n) ==
    /\ IF Candidates(n) # {}
       THEN \E c \in Candidates(n) :
               /\ CASE rows[c].status = "pending" -> PublishJob(IssueKey(c))
                    [] rows[c].status = "active" /\ rows[c].due -> PublishJob(RenewKey(c))
                    [] OTHER -> UNCHANGED jobVars
               /\ UNCHANGED rows
       ELSE \E c \in Certs :
               /\ rows[c].status = "absent"
               /\ rows' = [rows EXCEPT ![c].status = "pending", ![c].names = n]
               /\ PublishJob(IssueKey(c))
    /\ UNCHANGED <<dnsVars, worker, revoker, orders, dues, used, histVars>>

\* The worker that owns certificate c: the advisory lock of _issue_lock.
Past(w, pcs) == worker[w].pc \notin pcs
Owners(c) == {w \in Workers : Past(w, {"idle", "lock"}) /\ worker[w].cert = c}

\* renew_due: certificates past their renew_after ...
RenewDue(c) ==
    /\ rows[c].status = "active" /\ rows[c].due
    /\ PublishJob(RenewKey(c))
    /\ UNCHANGED <<rows, dnsVars, worker, revoker, orders, dues, used, histVars>>

\* Mutant: stale rows are left to their worker.
RecoverNever(c) == FALSE /\ UNCHANGED vars

\* ... and issuing rows whose worker is gone.
RecoverStale(c) ==
    /\ rows[c].status = "issuing" /\ rows[c].stale
    /\ Owners(c) = {}
    /\ PublishJob(RecoverKey(c))
    /\ UNCHANGED <<rows, dnsVars, worker, revoker, orders, dues, used, histVars>>

JobEnded(k) == k \notin queued /\ \A w \in Workers : worker[w].key # k

\* prune_jobs: every Job row of a week ago goes, ended or not, and its key with
\* it.  A job that has not ended in a week is a fault.  The id of one that still
\* waits finds no row when an engine pops it; a worker goes on.
Prune ==
    /\ \E k \in keys :
          /\ keys' = keys \ {k} /\ queued' = queued \ {k}
          /\ IF JobEnded(k) THEN UNCHANGED used ELSE Spend("backlog")
    /\ UNCHANGED <<rows, dnsVars, worker, revoker, orders, dues, histVars>>

-----------------------------------------------------------------------------
(* A worker, up to the CA order.                                           *)

At(w, pc) == worker[w].pc = pc
Of(w) == worker[w].cert
Goto(w, pc) == worker' = [worker EXCEPT ![w].pc = pc]
End(w) == worker' = [worker EXCEPT ![w] = IdleWorker]

Deliver(w, k) ==
    worker' = [worker EXCEPT ![w] =
        [IdleWorker EXCEPT !.pc = "lock", !.key = k, !.cert = k.cert]]

\* The job function starts.
Take(w) ==
    /\ At(w, "idle")
    /\ \E k \in queued : Deliver(w, k) /\ queued' = queued \ {k}
    /\ UNCHANGED <<rows, dnsVars, keys, revoker, orders, dues, used, histVars>>

\* ... or once more, as a job of its own.
Rerun(w) ==
    /\ At(w, "idle")
    /\ Spend("rerun")
    /\ \E k \in keys \ queued : Deliver(w, k)
    /\ UNCHANGED <<rows, dnsVars, jobVars, revoker, orders, dues, histVars>>

\* Mutant: every session acquires the lock.
LockAlways(w) ==
    /\ At(w, "lock")
    /\ Goto(w, "claim")
    /\ UNCHANGED <<rows, dnsVars, jobVars, revoker, orders, dues, used, histVars>>

\* pg_try_advisory_lock: a held lock ends the job as completed.
Lock(w) ==
    /\ At(w, "lock")
    /\ \/ Owners(Of(w)) = {} /\ Goto(w, "claim") /\ UNCHANGED used
       \/ Owners(Of(w)) # {} /\ End(w) /\ UNCHANGED used
       \/ Owners(Of(w)) = {} /\ Spend("scan") /\ End(w)
    /\ UNCHANGED <<rows, dnsVars, jobVars, revoker, orders, dues, histVars>>

\* The claim, under the lock of the row; row is what it leaves there.
Claimed(w, row, renewing) ==
    /\ rows' = [rows EXCEPT ![Of(w)] = row]
    /\ worker' = [worker EXCEPT ![w].pc = "preclean", ![w].object = row,
                                ![w].renewing = renewing]

\* Mutant: a recovered row is taken for a first issuance.
ClaimForgets(w) ==
    LET row == rows[Of(w)]
        issuing == [row EXCEPT !.status = "issuing", !.mod = @ + 1, !.stale = FALSE] IN
    /\ At(w, "claim")
    /\ CASE row.status = "issuing" /\ row.stale -> Claimed(w, issuing, FALSE)
         [] row.status \in {"pending", "active"} ->
               Claimed(w, issuing, row.status = "active")
         [] OTHER -> End(w) /\ UNCHANGED rows
    /\ UNCHANGED <<dnsVars, jobVars, revoker, orders, dues, used, histVars>>

Claim(w) ==
    LET row == rows[Of(w)]
        issuing == [row EXCEPT !.status = "issuing", !.mod = @ + 1, !.stale = FALSE] IN
    /\ At(w, "claim")
    /\ CASE row.status = "issuing" /\ row.stale ->
               Claimed(w, issuing, HasValidMaterial(row))
         [] row.status \in {"pending", "active"} ->
               Claimed(w, issuing, row.status = "active")
         [] OTHER -> End(w) /\ UNCHANGED rows
    /\ UNCHANGED <<dnsVars, jobVars, revoker, orders, dues, used, histVars>>

\* A call to the provider that removes value v: v is gone, or the call raised
\* before or after it was applied.
Remove(w, v, done, raised) ==
    \/ zone' = zone \ {v} /\ Goto(w, done) /\ UNCHANGED used
    \/ /\ "provider" \in Faults /\ UNCHANGED used
       /\ Goto(w, raised)
       /\ zone' = zone \ {v} \/ UNCHANGED zone

\* cleanup_for_certificate.
Preclean(w) ==
    /\ At(w, "preclean")
    /\ IF resv.state = "cleanup_pending" /\ resv.owner = Of(w)
       THEN Remove(w, resv.value, "prerelease", "prepend")
       ELSE Goto(w, "order") /\ UNCHANGED <<zone, used>>
    /\ UNCHANGED <<rows, resv, jobVars, revoker, orders, dues, histVars>>

\* release and mark_cleanup_pending save the state of the reservation alone.
PrecleanSave(w) ==
    /\ \/ At(w, "prerelease") /\ resv' = NoResv /\ Goto(w, "order")
       \/ At(w, "prepend") /\ resv' = [resv EXCEPT !.state = "cleanup_pending"] /\ Goto(w, "fail")
    /\ UNCHANGED <<rows, zone, jobVars, revoker, orders, dues, used, histVars>>

\* certificate.save(): every column, as the object has it.
SaveObject(w, row) ==
    rows' = [rows EXCEPT ![Of(w)] = [row EXCEPT !.mod = rows[Of(w)].mod + 1, !.stale = FALSE]]

CARefuses(w) == "ca" \in Faults /\ Goto(w, "fail") /\ UNCHANGED used

\* Mutant: the order is made and not kept.
NewOrderForgotten(w) ==
    /\ At(w, "order")
    /\ \/ /\ orders' = orders + 1
          /\ SaveObject(w, worker[w].object)
          /\ \E pc \in {"reserve", "finalize"} : Goto(w, pc)
          /\ UNCHANGED used
       \/ CARefuses(w) /\ UNCHANGED <<rows, orders>>
    /\ UNCHANGED <<dnsVars, jobVars, revoker, dues, histVars>>

\* new_order and the save of its url; authorizations that are valid still need
\* no challenge.
NewOrder(w) ==
    /\ At(w, "order")
    /\ \/ /\ orders' = orders + 1
          /\ SaveObject(w, worker[w].object)
          /\ \E pc \in {"reserve", "finalize"} :
                worker' = [worker EXCEPT ![w].pc = pc, ![w].order = orders + 1]
          /\ UNCHANGED used
       \/ CARefuses(w) /\ UNCHANGED <<rows, orders>>
    /\ UNCHANGED <<dnsVars, jobVars, revoker, dues, histVars>>

-----------------------------------------------------------------------------
(* The challenge and the certificate.                                      *)

\* Mutant: whoever holds the record is taken over.
ReserveAnyway(w) ==
    LET id == IF resv.state = "none" THEN worker[w].order ELSE resv.id IN
    /\ At(w, "reserve")
    /\ resv' = [state |-> "reserved", owner |-> Of(w), id |-> id, value |-> worker[w].order]
    /\ worker' = [worker EXCEPT ![w].pc = "upsert", ![w].rid = id]
    /\ UNCHANGED <<rows, zone, jobVars, revoker, orders, dues, used, histVars>>

\* reserve: a live reservation of its own is adopted, another's refuses.
Reserve(w) ==
    LET id == IF resv.state = "none" THEN worker[w].order ELSE resv.id IN
    /\ At(w, "reserve")
    /\ IF resv.state = "none" \/ resv.owner = Of(w)
       THEN /\ resv' = [state |-> "reserved", owner |-> Of(w), id |-> id,
                        value |-> worker[w].order]
            /\ worker' = [worker EXCEPT ![w].pc = "upsert", ![w].rid = id]
       ELSE Goto(w, "fail") /\ UNCHANGED resv
    /\ UNCHANGED <<rows, zone, jobVars, revoker, orders, dues, used, histVars>>

\* mutation_guard with a reservation: it is the live one.
Guarded(w) == resv.state # "none" /\ resv.id = worker[w].rid

\* dns.upsert_record replaces the whole set.  A call that raised counts as
\* done when the inventory shows the set.
Upsert(w) ==
    /\ At(w, "upsert")
    /\ \/ /\ zone' = IF Guarded(w) THEN {worker[w].order} ELSE zone
          /\ Goto(w, IF Guarded(w) THEN "wait" ELSE "fail")
          /\ UNCHANGED used
       \/ /\ Guarded(w)
          /\ Spend("provider")
          /\ Goto(w, "fail")
          /\ zone' = {worker[w].order} \/ UNCHANGED zone
    /\ UNCHANGED <<rows, resv, jobVars, revoker, orders, dues, histVars>>

\* wait_for_propagation.
Wait(w) ==
    /\ At(w, "wait")
    /\ \/ /\ Goto(w, IF worker[w].order \in zone THEN "answer" ELSE "fail")
          /\ UNCHANGED used
       \/ Spend("provider") /\ Goto(w, "fail")
    /\ UNCHANGED <<rows, dnsVars, jobVars, revoker, orders, dues, histVars>>

\* answer_challenge and poll_order: the CA looks the record up itself.
Answer(w) ==
    /\ At(w, "answer")
    /\ \/ /\ Goto(w, IF worker[w].order \in zone THEN "finalize" ELSE "fail")
          /\ UNCHANGED used
       \/ CARefuses(w)
    /\ UNCHANGED <<rows, dnsVars, jobVars, revoker, orders, dues, histVars>>

AfterTry(w, ok) == IF worker[w].rid # 0 THEN "clear" ELSE IF ok THEN "supersede" ELSE "idle"
Leave(w, ok) ==
    worker' = [worker EXCEPT ![w] =
        IF AfterTry(w, ok) = "idle" THEN IdleWorker
        ELSE [@ EXCEPT !.pc = AfterTry(w, ok), !.ok = ok]]

\* finalize, download and the full save of the active row.
Finalize(w) ==
    LET c == Of(w) IN
    /\ At(w, "finalize")
    /\ \/ /\ SaveObject(w, [worker[w].object EXCEPT !.status = "active",
                              !.mat = "valid", !.due = FALSE, !.mark = rows[c].mark + 1])
          /\ Leave(w, TRUE)
          /\ UNCHANGED used
       \/ CARefuses(w) /\ UNCHANGED rows
    /\ UNCHANGED <<dnsVars, jobVars, revoker, orders, dues, histVars>>

\* _record_issue_failure: the row is read again, and its status not looked at.
Fail(w) ==
    LET row == rows[Of(w)]
        kept == worker[w].renewing /\ HasValidMaterial(row) IN
    /\ At(w, "fail")
    /\ rows' = [rows EXCEPT ![Of(w)] =
          IF kept THEN [row EXCEPT !.status = "active", !.due = FALSE, !.mark = @ + 1,
                                   !.stale = FALSE]
          ELSE [row EXCEPT !.status = "failed", !.stale = FALSE]]
    /\ Leave(w, FALSE)
    /\ UNCHANGED <<dnsVars, jobVars, revoker, orders, dues, used, histVars>>

\* cleanup_challenges, in the finally clause.
Clear(w) ==
    /\ At(w, "clear")
    /\ IF Guarded(w) THEN Remove(w, worker[w].order, "release", "pend")
                     ELSE Goto(w, "pend") /\ UNCHANGED <<zone, used>>
    /\ UNCHANGED <<rows, resv, jobVars, revoker, orders, dues, histVars>>

AfterClear(w) == IF worker[w].ok THEN Goto(w, "supersede") ELSE End(w)

\* Mutant: the reservation goes whether the record was cleared or not.
ClearSaveReleases(w) ==
    /\ At(w, "release") \/ At(w, "pend")
    /\ resv' = NoResv
    /\ AfterClear(w)
    /\ UNCHANGED <<rows, zone, jobVars, revoker, orders, dues, used, histVars>>

ClearSave(w) ==
    /\ \/ At(w, "release") /\ resv' = IF Guarded(w) THEN NoResv ELSE resv
       \/ /\ At(w, "pend")
          /\ resv' = IF Guarded(w) THEN [resv EXCEPT !.state = "cleanup_pending"] ELSE resv
    /\ AfterClear(w)
    /\ UNCHANGED <<rows, zone, jobVars, revoker, orders, dues, used, histVars>>

\* Certificate rows go; their reservations stay, without an owner.
Delete(gone) ==
    /\ rows' = [c \in Certs |-> IF c \in gone THEN [NoRow EXCEPT !.status = "deleted"]
                                ELSE rows[c]]
    /\ resv' = IF resv.owner \in gone THEN [resv EXCEPT !.owner = NoCert] ELSE resv

\* remove_superseded_failures.
Supersede(w) ==
    /\ At(w, "supersede")
    /\ Delete({c \in Certs \ {Of(w)} : rows[c].status = "failed"
                                       /\ rows[c].names = worker[w].object.names})
    /\ End(w)
    /\ UNCHANGED <<zone, jobVars, revoker, orders, dues, used, histVars>>

\* The worker's process dies: its session ends, and with it the lock.
Crash(w) ==
    /\ worker[w] # IdleWorker
    /\ Spend("crash")
    /\ End(w)
    /\ lost' = IF worker[w].order = 0 THEN lost ELSE lost \union {worker[w].order}
    /\ UNCHANGED <<rows, dnsVars, jobVars, revoker, orders, dues, revoked>>

Issue(w) ==
    \/ Lock(w) \/ Claim(w) \/ Preclean(w) \/ PrecleanSave(w) \/ NewOrder(w)
    \/ Reserve(w) \/ Upsert(w) \/ Wait(w) \/ Answer(w) \/ Finalize(w)
    \/ Fail(w) \/ Clear(w) \/ ClearSave(w) \/ Supersede(w)

-----------------------------------------------------------------------------
(* Operators and the passing of time.                                      *)

\* rest/certificate.py: remove-failed.
RemoveFailed(c) ==
    /\ rows[c].status = "failed"
    /\ Delete({c})
    /\ UNCHANGED <<zone, jobVars, worker, revoker, orders, dues, used, histVars>>

\* revoke loads the row and calls the CA ...
RevokeLoad(c) ==
    /\ revoker = NoRevoker
    /\ rows[c].mat # "none"
    /\ Spend("revoke")
    /\ revoker' = [cert |-> c, object |-> rows[c]]
    /\ revoked' = revoked \union {c}
    /\ UNCHANGED <<rows, dnsVars, jobVars, worker, orders, dues, lost>>

\* ... and then saves every column.
RevokeSave ==
    LET c == revoker.cert IN
    /\ c # NoCert
    /\ rows' = [rows EXCEPT ![c] = [revoker.object EXCEPT !.status = "revoked",
                                      !.mod = rows[c].mod + 1, !.stale = FALSE]]
    /\ revoker' = NoRevoker
    /\ UNCHANGED <<dnsVars, jobVars, worker, orders, dues, used, histVars>>

\* An interactive upsert or delete of the challenge record, under mutation_guard.
HumanEdit ==
    /\ resv.state = "none"
    /\ \E z \in {{}, {Human}} : zone' = z
    /\ UNCHANGED <<rows, resv, jobVars, worker, revoker, orders, dues, used, histVars>>

BecomesDue(c) ==
    /\ rows[c].status = "active" /\ ~rows[c].due
    /\ dues < MaxDue
    /\ dues' = dues + 1
    /\ rows' = [rows EXCEPT ![c].due = TRUE]
    /\ UNCHANGED <<dnsVars, jobVars, worker, revoker, orders, used, histVars>>

BecomesStale(c) ==
    /\ rows[c].status = "issuing" /\ ~rows[c].stale
    /\ rows' = [rows EXCEPT ![c].stale = TRUE]
    /\ UNCHANGED <<dnsVars, jobVars, worker, revoker, orders, dues, used, histVars>>

\* not_after passes, for every copy of the material.
Expired(row) == [row EXCEPT !.mat = IF @ = "valid" THEN "expired" ELSE @]
Lapse(c) ==
    /\ HasValidMaterial(rows[c])
    /\ Spend("lapse")
    /\ rows' = [rows EXCEPT ![c] = Expired(@)]
    /\ worker' = [w \in Workers |->
          IF Of(w) = c THEN [worker[w] EXCEPT !.object = Expired(@)] ELSE worker[w]]
    /\ revoker' = IF revoker.cert = c THEN [revoker EXCEPT !.object = Expired(@)]
                  ELSE revoker
    /\ UNCHANGED <<dnsVars, jobVars, orders, dues, histVars>>

Job(w) == Take(w) \/ Rerun(w) \/ Issue(w) \/ Crash(w)
Scan(c) == RenewDue(c) \/ RecoverStale(c)
Operator == HumanEdit \/ RevokeSave \/ \E c \in Certs : RemoveFailed(c) \/ RevokeLoad(c)
Time(c) == BecomesDue(c) \/ BecomesStale(c) \/ Lapse(c)

Next ==
    \/ \E n \in Names : Request(n)
    \/ \E w \in Workers : Job(w)
    \/ \E c \in Certs : Scan(c) \/ Time(c)
    \/ Prune \/ Operator

Spec == Init /\ [][Next]_vars

\* The job system takes what is queued and runs it, renew_due and prune_jobs
\* come round, clocks go on.  No fault is owed, and no operator.
Fairness ==
    /\ \A w \in Workers :
          WF_vars(Take(w)) /\ WF_vars(Issue(w) /\ UNCHANGED used)
    /\ \A c \in Certs :
          WF_vars(RenewDue(c)) /\ WF_vars(RecoverStale(c)) /\ WF_vars(BecomesStale(c))
    /\ WF_vars(Prune /\ UNCHANGED used)

FairSpec == Spec /\ Fairness

-----------------------------------------------------------------------------
(* Safety.                                                                 *)

InFlight(w) == Past(w, {"idle", "lock", "claim", "clear", "release", "pend", "supersede"})

\* "Try to own one certificate across every ACME/network round trip": one
\* worker at a time talks to the CA and the provider for a certificate, and
\* while it does the row says issuing, so that nobody starts another, unless
\* the certificate was revoked meanwhile.
OneIssuer ==
    \A w \in Workers : InFlight(w) =>
       /\ Owners(Of(w)) = {w}
       /\ Of(w) \notin revoked => rows[Of(w)].status = "issuing"

\* "an apex/wildcard challenge cannot be replaced halfway through validation":
\* from its upsert to the CA's look, the record holds the worker's values and
\* nothing else, whatever operators and other certificates do.
ChallengeIntact ==
    \A w \in Workers : worker[w].pc \in {"wait", "answer"} => zone = {worker[w].order}

\* "Cleanup releases ownership only after the provider accepted the removal":
\* a challenge value that is nobody's reservation any more is one whose worker
\* died before it could clean up.
LeftoverOwned ==
    resv.state = "none" => zone \subseteq lost \union {Human}

\* Two callers that ask for the same names get the same row: at most one row
\* per name set is being issued or served, revocations apart.
OneRowPerNames ==
    \A n \in Names : Cardinality(Candidates(n) \ revoked) <= 1

\* "Persist a failure without destroying a still-valid active certificate": a
\* renewal that fails, or dies and is recovered, never fails the row while its
\* material is valid.
ValidKept ==
    [][\A c \in Certs : HasValidMaterial(rows[c]) /\ rows[c].status # "failed"
                           => rows'[c].status # "failed"]_vars

-----------------------------------------------------------------------------
(* Liveness.                                                               *)

Unsettled(c) == rows[c].status = "issuing" \/ (rows[c].status = "active" /\ rows[c].due)

\* A certificate that is being issued or is due for renewal comes to an end of
\* it, whoever dies: a stale row is found and taken up again, and a job that
\* came to nothing does not keep its key from the next one for ever.
IssuingEnds == \A c \in Certs : Unsettled(c) ~> ~Unsettled(c)
=============================================================================
