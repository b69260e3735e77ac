-------------------------- MODULE CertificatesProofs --------------------------
(***************************************************************************)
(* What holds of Certificates for every set of certificates, names and     *)
(* workers, whatever faults happen and however many.                       *)
(***************************************************************************)
EXTENDS Certificates, FiniteSetTheorems, TLAPS

USE CertAssumption

-----------------------------------------------------------------------------
(* The inductive invariant.                                                *)

\* What a worker has at hand where it stands.
Unordered == {"lock", "claim", "preclean", "prerelease", "prepend", "order"}
Planting == {"upsert", "wait", "answer", "clear", "release", "pend"}
Equipped ==
    \A w \in Workers :
       /\ ~At(w, "idle") => Of(w) \in Certs
       /\ worker[w].order \in 0..orders
       /\ worker[w].pc \in Unordered => worker[w].order = 0
       /\ worker[w].order = 0 => worker[w].rid = 0
       /\ At(w, "reserve") => worker[w].order # 0 /\ worker[w].rid = 0
       /\ worker[w].pc \in Planting => worker[w].rid # 0

\* An order is one worker's.
OrdersDistinct ==
    \A w, v \in Workers :
       worker[w].order = worker[v].order /\ worker[w].order # 0 => w = v

\* What the advisory lock is for: a certificate has one worker past it.
Owning(w) == Past(w, {"idle", "lock"})
Sole ==
    \A w, v \in Workers : Owning(w) /\ Owning(v) /\ Of(w) = Of(v) => w = v

\* A worker that planted holds the reservation until it has cleared up after
\* itself, if need be under a row that was deleted meanwhile.
Planted(w) == worker[w].rid # 0 /\ ~At(w, "supersede")
Holding ==
    \A w \in Workers : Planted(w) =>
       /\ resv.state = "reserved"
       /\ resv.id = worker[w].rid
       /\ resv.value = worker[w].order
       /\ resv.owner \in {Of(w), NoCert}
       /\ InFlight(w) => resv.owner = Of(w)

\* A worker that looked for a reservation of its own to clean up has found
\* none, or is at it.
Cleaning ==
    \A w \in Workers :
       /\ worker[w].pc \in {"prerelease", "prepend"} =>
             resv.state = "cleanup_pending" /\ resv.owner = Of(w)
       /\ worker[w].pc \in {"order", "reserve"} /\ resv.owner = Of(w) =>
             resv.state = "reserved"
       /\ At(w, "prerelease") => resv.value \notin zone
       /\ At(w, "release") => worker[w].order \notin zone

\* A reservation nobody cleans up is one whose worker died.
Reservation ==
    /\ resv.state = "none" => resv = NoResv
    /\ resv.state = "reserved" =>
          \/ resv.value \in lost
          \/ \E w \in Workers : Planted(w)

\* Every challenge value is the reservation's, or its worker died.
Values ==
    zone \subseteq lost \union {Human} \union
                   (IF resv.state = "none" THEN {} ELSE {resv.value})

\* Nobody but its worker takes a row out of issuing, a revocation apart.
Working ==
    /\ \A w \in Workers : InFlight(w) =>
          LET row == rows[Of(w)] IN
          /\ worker[w].object.status = "issuing"
          /\ row.status \in {"issuing", "revoked"}
          /\ Of(w) \notin revoked =>
                row.status = "issuing" /\ row.names = worker[w].object.names
    /\ revoker.cert \in revoked \union {NoCert}

\* Valid material is in every copy of a row that may be saved, and a worker
\* that has such a copy knows that it renews.
Valid(row) == HasValidMaterial(row)
Material ==
    /\ \A w \in Workers : InFlight(w) =>
          /\ Valid(rows[Of(w)]) => Valid(worker[w].object)
          /\ revoker.cert = Of(w) /\ Valid(revoker.object) => Valid(worker[w].object)
          /\ Valid(worker[w].object) => worker[w].renewing
    /\ revoker.cert # NoCert /\ Valid(revoker.object) => Valid(rows[revoker.cert])
    /\ \A c \in Certs : Valid(rows[c]) => rows[c].status \in {"issuing", "active", "revoked"}

\* Two rows that serve, or will serve, the same names are one row.
Serving(c) == c \notin revoked /\ rows[c].status \in {"pending", "issuing", "active"}
OneServing ==
    \A c, d \in Certs :
       Serving(c) /\ Serving(d) /\ rows[c].names = rows[d].names => c = d

IInv ==
    /\ TypeOK
    /\ Equipped /\ OrdersDistinct /\ Sole
    /\ Holding /\ Cleaning /\ Reservation /\ Values /\ ChallengeIntact
    /\ Working /\ Material /\ OneServing

\* The values nothing has yet are of their types.
LEMMA NothingTyped == NoRow \in Row /\ IdleWorker \in Worker
<1>1. NoRow \in Row
  BY DEF NoRow, Row, Status
<1> QED
  BY <1>1 DEF IdleWorker, Worker, PC

\* The initial states have it: no row, no reservation and no value.
LEMMA InitInv == Init => IInv
<1> SUFFICES ASSUME Init PROVE IInv
  OBVIOUS
<1> USE NothingTyped DEF Init
<1>1. TypeOK
  <2>1. worker \in [Workers -> Worker] /\ rows \in [Certs -> Row]
    OBVIOUS
  <2>2. /\ resv \in [state : {"none", "reserved", "cleanup_pending"},
                     owner : Certs \union {NoCert}, id : Nat, value : Nat]
        /\ resv.state = "none"
    BY DEF NoResv
  <2>3. revoker \in [cert : Certs \union {NoCert}, object : Row]
    BY DEF NoRevoker
  <2>4. \A w \in Workers : worker[w].pc = "idle" <=> worker[w] = IdleWorker
    BY DEF IdleWorker
  <2> QED
    BY <2>1, <2>2, <2>3, <2>4 DEF TypeOK
<1>2. Equipped /\ OrdersDistinct /\ Sole
  BY DEF Equipped, OrdersDistinct, Sole, At, Owning, Past, IdleWorker, Unordered, Planting
<1>3. Holding /\ Cleaning /\ Reservation /\ Values /\ ChallengeIntact
  BY DEF Holding, Planted, Cleaning, Reservation, Values, ChallengeIntact, At, IdleWorker,
         NoResv
<1>4. Working /\ Material /\ OneServing
  BY DEF Working, Material, OneServing, Serving, InFlight, Past, IdleWorker, NoRevoker,
         Valid, HasValidMaterial, NoRow
<1> QED
  BY <1>1, <1>2, <1>3, <1>4 DEF IInv

\* A step that leaves everything alone preserves it.
LEMMA StutterInv == IInv /\ UNCHANGED vars => IInv'
<1> SUFFICES ASSUME IInv, UNCHANGED vars PROVE IInv'
  OBVIOUS
<1> USE DEF IInv, vars, dnsVars, jobVars, histVars
<1>1. TypeOK'
  BY DEF TypeOK
<1>2. Equipped' /\ OrdersDistinct' /\ Sole'
  BY DEF Equipped, OrdersDistinct, Sole, At, Of, Owning, Past
<1>3. Holding' /\ Cleaning'
  BY DEF Holding, Planted, Cleaning, At, Of, InFlight, Past
<1>4. Reservation' /\ Values' /\ ChallengeIntact'
  BY DEF Reservation, Planted, Values, ChallengeIntact, At
<1>5. Working' /\ Material' /\ OneServing'
  BY DEF Working, Material, OneServing, Serving, InFlight, Past, Of, Valid, HasValidMaterial
<1> QED
  BY <1>1, <1>2, <1>3, <1>4, <1>5

-----------------------------------------------------------------------------
(* What a step of a worker changes.                                        *)

\* Only w goes on.
Alone(w) ==
    /\ worker' \in [Workers -> Worker]
    /\ \A v \in Workers : v # w => worker'[v] = worker[v]
    /\ worker'[w].pc = "idle" <=> worker'[w] = IdleWorker

\* It goes to pc with what it has at hand, or ends.
Moved(w, pc) ==
    /\ Alone(w)
    /\ worker'[w].pc = pc /\ pc # "idle"
    /\ worker'[w].cert = worker[w].cert /\ worker'[w].object = worker[w].object
    /\ worker'[w].order = worker[w].order /\ worker'[w].rid = worker[w].rid
    /\ worker'[w].renewing = worker[w].renewing
Ended(w) == Alone(w) /\ worker'[w] = IdleWorker

\* Goto moves the worker.
LEMMA GotoMoves ==
    ASSUME TypeOK, NEW w \in Workers, NEW pc \in PC \ {"idle"}, Goto(w, pc)
    PROVE  Moved(w, pc)
<1>1. worker \in [Workers -> Worker] /\ worker[w] \in Worker
  BY DEF TypeOK
<1> DEFINE x == [worker[w] EXCEPT !.pc = pc]
<1>2. x \in Worker /\ x.pc = pc
  BY <1>1 DEF Worker
<1>3. /\ x.cert = worker[w].cert /\ x.object = worker[w].object
      /\ x.order = worker[w].order /\ x.rid = worker[w].rid
      /\ x.renewing = worker[w].renewing
  BY <1>1 DEF Worker
<1>4. worker' = [worker EXCEPT ![w] = x]
  BY DEF Goto
<1> HIDE DEF x
<1>5. worker' \in [Workers -> Worker] /\ worker'[w] = x
  BY <1>1, <1>2, <1>4
<1>6. \A v \in Workers : v # w => worker'[v] = worker[v]
  BY <1>1, <1>4
<1>7. x # IdleWorker
  BY <1>2 DEF IdleWorker
<1> QED
  BY <1>2, <1>3, <1>5, <1>6, <1>7 DEF Moved, Alone

\* End ends it.
LEMMA EndEnds ==
    ASSUME TypeOK, NEW w \in Workers, End(w)
    PROVE  Ended(w)
<1>1. worker \in [Workers -> Worker]
  BY DEF TypeOK
<1>2. worker' \in [Workers -> Worker] /\ worker'[w] = IdleWorker
  BY <1>1, NothingTyped DEF End
<1>3. \A v \in Workers : v # w => worker'[v] = worker[v]
  BY <1>1 DEF End
<1> QED
  BY <1>2, <1>3 DEF Ended, Alone, IdleWorker

\* After the try clause of issue, a worker clears up, removes what it has
\* superseded, or ends.
LEMMA LeaveMoves ==
    ASSUME TypeOK, NEW w \in Workers, NEW ok \in BOOLEAN, Leave(w, ok)
    PROVE  \/ Moved(w, "clear") /\ worker[w].rid # 0
           \/ Moved(w, "supersede") /\ worker[w].rid = 0
           \/ Ended(w) /\ worker[w].rid = 0
<1>1. worker \in [Workers -> Worker] /\ worker[w] \in Worker
  BY DEF TypeOK
<1>2. CASE AfterTry(w, ok) = "idle"
  <2>1. End(w)
    BY <1>2 DEF Leave, End
  <2> QED
    BY <2>1, <1>2, EndEnds DEF AfterTry
<1>3. CASE AfterTry(w, ok) # "idle"
  <2> DEFINE pc == AfterTry(w, ok)
  <2>1. pc \in {"clear", "supersede"} /\ (pc = "clear" <=> worker[w].rid # 0)
    BY <1>3 DEF AfterTry
  <2> HIDE DEF pc
  <2> DEFINE x == [worker[w] EXCEPT !.pc = pc, !.ok = ok]
  <2>2. x \in Worker /\ x.pc = pc
    BY <1>1, <2>1 DEF Worker, PC
  <2>3. /\ x.cert = worker[w].cert /\ x.object = worker[w].object
        /\ x.order = worker[w].order /\ x.rid = worker[w].rid
        /\ x.renewing = worker[w].renewing
    BY <1>1 DEF Worker
  <2>4. worker' = [worker EXCEPT ![w] = x]
    BY <1>3 DEF Leave, pc
  <2> HIDE DEF x
  <2>5. worker' \in [Workers -> Worker] /\ worker'[w] = x
    BY <1>1, <2>2, <2>4
  <2>6. \A v \in Workers : v # w => worker'[v] = worker[v]
    BY <1>1, <2>4
  <2>7. x # IdleWorker
    BY <2>1, <2>2 DEF IdleWorker
  <2> QED
    BY <2>1, <2>2, <2>3, <2>5, <2>6, <2>7 DEF Moved, Alone
<1> QED
  BY <1>2, <1>3

-----------------------------------------------------------------------------
(* A worker that moves or ends, and what else stays.                       *)

\* Orders and the advisory locks: a worker passes the lock when nobody is
\* past it.
LEMMA MovedWorkers ==
    ASSUME IInv, NEW w \in Workers, NEW pc \in PC, Moved(w, pc), orders' = orders,
           ~At(w, "idle"), pc # "reserve",
           pc \in Unordered => worker[w].order = 0,
           pc \in Planting => worker[w].rid # 0,
           Owning(w) \/ Owners(Of(w)) = {}
    PROVE  Equipped' /\ OrdersDistinct' /\ Sole'
<1> USE DEF IInv, Moved, Alone
<1>1. Equipped'
  BY DEF Equipped, At, Of
<1>2. OrdersDistinct'
  BY DEF OrdersDistinct
<1>3. Sole'
  <2> SUFFICES ASSUME NEW u \in Workers, NEW v \in Workers, Owning(u)', Owning(v)',
                      Of(u)' = Of(v)', u # v
               PROVE  FALSE
    BY DEF Sole
  <2>1. CASE u # w /\ v # w
    BY <2>1 DEF Sole, Owning, Past, Of
  <2>2. CASE Owning(w)
    BY <2>2 DEF Sole, Owning, Past, Of
  <2>3. CASE u = w /\ Owners(Of(w)) = {}
    BY <2>3 DEF Owning, Owners, Past, Of
  <2>4. CASE v = w /\ Owners(Of(w)) = {}
    BY <2>4 DEF Owning, Owners, Past, Of
  <2> QED
    BY <2>1, <2>2, <2>3, <2>4
<1> QED
  BY <1>1, <1>2, <1>3

\* The same when the worker ends: it gives up its lock.
LEMMA EndedWorkers ==
    ASSUME IInv, NEW w \in Workers, Ended(w), orders' = orders
    PROVE  Equipped' /\ OrdersDistinct' /\ Sole'
<1> USE DEF IInv, Ended, Alone, IdleWorker
<1>1. Equipped'
  BY DEF Equipped, At, Of, TypeOK, Unordered, Planting
<1>2. OrdersDistinct'
  BY DEF OrdersDistinct
<1>3. Sole'
  BY DEF Sole, Owning, Past, Of
<1> QED
  BY <1>1, <1>2, <1>3

\* Two workers cannot both have planted: an order is one worker's.
LEMMA OnePlanted ==
    ASSUME IInv, NEW w \in Workers, NEW v \in Workers, Planted(w), Planted(v)
    PROVE  w = v
  BY DEF IInv, Holding, OrdersDistinct, Equipped, Planted

\* The reservation and the record, when a worker moves and leaves them alone.
LEMMA MovedDns ==
    ASSUME IInv, NEW w \in Workers, NEW pc \in PC, Moved(w, pc),
           UNCHANGED <<resv, zone, lost>>, ~At(w, "supersede"),
           pc \notin {"prerelease", "prepend", "reserve", "release"},
           pc = "order" /\ resv.owner = Of(w) => resv.state = "reserved",
           pc \in {"wait", "answer"} => zone = {worker[w].order},
           Planted(w) => pc # "supersede" /\ (InFlight(w) \/ pc \in {"clear", "pend"})
    PROVE  Holding' /\ Cleaning' /\ Reservation' /\ Values' /\ ChallengeIntact'
<1> USE DEF IInv, Moved, Alone
<1>1. Holding'
  BY DEF Holding, Planted, At, Of, InFlight, Past
<1>2. Cleaning'
  BY DEF Cleaning, At, Of
<1>3. Reservation'
  BY DEF Reservation, Planted, At
<1>4. Values' /\ ChallengeIntact'
  BY DEF Values, ChallengeIntact
<1> QED
  BY <1>1, <1>2, <1>3, <1>4

\* The same when it ends; one that planted leaves its value behind.
LEMMA EndedDns ==
    ASSUME IInv, NEW w \in Workers, Ended(w), UNCHANGED <<resv, zone>>,
           lost \subseteq lost', Planted(w) => worker[w].order \in lost'
    PROVE  Holding' /\ Cleaning' /\ Reservation' /\ Values' /\ ChallengeIntact'
<1> USE DEF IInv, Ended, Alone, IdleWorker
<1>1. Holding'
  BY DEF Holding, Planted, At, Of, InFlight, Past
<1>2. Cleaning'
  BY DEF Cleaning, At, Of
<1>3. Reservation'
  <2>1. resv.state = "none" => resv = NoResv
    BY DEF Reservation
  <2>2. ASSUME resv.state = "reserved"
        PROVE  resv.value \in lost' \/ \E v \in Workers : Planted(v)'
    <3>1. CASE Planted(w)
      BY <3>1 DEF Holding
    <3>2. CASE ~Planted(w)
      BY <3>2, <2>2 DEF Reservation, Planted, At
    <3> QED
      BY <3>1, <3>2
  <2> QED
    BY <2>1, <2>2 DEF Reservation
<1>4. Values' /\ ChallengeIntact'
  BY DEF Values, ChallengeIntact
<1> QED
  BY <1>1, <1>2, <1>3, <1>4

\* The rows, when a worker moves and they are left alone.
LEMMA MovedRows ==
    ASSUME IInv, NEW w \in Workers, NEW pc \in PC, Moved(w, pc),
           UNCHANGED <<rows, revoker, revoked>>,
           InFlight(w) \/ pc \in {"claim", "release", "pend", "supersede"}
    PROVE  Working' /\ Material' /\ OneServing'
<1> USE DEF IInv, Moved, Alone
<1>1. Working'
  BY DEF Working, InFlight, Past, Of
<1>2. Material'
  BY DEF Material, InFlight, Past, Of, Valid, HasValidMaterial
<1>3. OneServing'
  BY DEF OneServing, Serving
<1> QED
  BY <1>1, <1>2, <1>3

\* The same when it ends.
LEMMA EndedRows ==
    ASSUME IInv, NEW w \in Workers, Ended(w), UNCHANGED <<rows, revoker, revoked>>
    PROVE  Working' /\ Material' /\ OneServing'
<1> USE DEF IInv, Ended, Alone, IdleWorker
<1>1. Working'
  BY DEF Working, InFlight, Past, Of
<1>2. Material'
  BY DEF Material, InFlight, Past, Of, Valid, HasValidMaterial
<1>3. OneServing'
  BY DEF OneServing, Serving
<1> QED
  BY <1>1, <1>2, <1>3

\* The types, as far as the worker is concerned.
LEMMA AloneTyped ==
    ASSUME TypeOK, NEW w \in Workers, Alone(w)
    PROVE  /\ worker' \in [Workers -> Worker]
           /\ \A v \in Workers : worker'[v].pc = "idle" <=> worker'[v] = IdleWorker
  BY DEF TypeOK, Alone

\* A step of a worker that leaves everything else alone but the faults.
LEMMA MovedTyped ==
    ASSUME TypeOK, NEW w \in Workers, Alone(w),
           UNCHANGED <<rows, dnsVars, jobVars, revoker, orders, dues, histVars>>,
           used' \in 0..MaxFaults
    PROVE  TypeOK'
  BY AloneTyped DEF TypeOK, dnsVars, jobVars, histVars

\* A fault that is counted.
LEMMA Spent == ASSUME TypeOK, NEW f, Spend(f) PROVE used' \in 0..MaxFaults
  BY DEF TypeOK, Spend

\* What each part of the invariant does not look at.
LEMMA WorkersStay ==
    ASSUME IInv, UNCHANGED <<worker, orders>>
    PROVE  Equipped' /\ OrdersDistinct' /\ Sole'
  BY DEF IInv, Equipped, OrdersDistinct, Sole, At, Of, Owning, Past

\* The reservation and the record are not looked at through the rows.
LEMMA DnsStays ==
    ASSUME IInv, UNCHANGED <<worker, resv, zone, lost>>
    PROVE  Holding' /\ Cleaning' /\ Reservation' /\ Values' /\ ChallengeIntact'
<1> USE DEF IInv
<1>1. Holding' /\ Cleaning'
  BY DEF Holding, Planted, Cleaning, At, Of, InFlight, Past
<1>2. Reservation' /\ Values' /\ ChallengeIntact'
  BY DEF Reservation, Planted, Values, ChallengeIntact, At
<1> QED
  BY <1>1, <1>2

\* The rows and the revocation are not looked at through the reservation.
LEMMA RowsStay ==
    ASSUME IInv, UNCHANGED <<worker, rows, revoker, revoked>>
    PROVE  Working' /\ Material' /\ OneServing'
  BY DEF IInv, Working, Material, OneServing, Serving, InFlight, Past, Of, Valid,
         HasValidMaterial

-----------------------------------------------------------------------------
(* Publishing.                                                             *)

\* The keys of a row's jobs.
LEMMA KeysTyped ==
    ASSUME TypeOK, NEW c \in Certs
    PROVE  IssueKey(c) \in Key /\ RenewKey(c) \in Key /\ RecoverKey(c) \in Key
<1>1. rows[c] \in Row
  BY DEF TypeOK
<1>2. rows[c].mark \in Nat /\ rows[c].mod \in Nat
  BY <1>1 DEF Row
<1> QED
  BY <1>2 DEF IssueKey, RenewKey, RecoverKey, Key

\* Publishing under a key adds that key.
LEMMA PublishTyped ==
    ASSUME TypeOK, NEW k \in Key, PublishJob(k)
    PROVE  keys' \subseteq Key /\ queued' \subseteq Key
  BY DEF TypeOK, PublishJob

\* Publishing and pruning of jobs touch nothing else.
LEMMA JobsInv ==
    ASSUME IInv, keys' \subseteq Key, queued' \subseteq Key, used' \in 0..MaxFaults,
           UNCHANGED <<rows, dnsVars, worker, revoker, orders, dues, histVars>>
    PROVE  IInv'
<1>1. TypeOK'
  BY DEF IInv, TypeOK, dnsVars, histVars
<1>2. Equipped' /\ OrdersDistinct' /\ Sole'
  BY WorkersStay
<1>3. Holding' /\ Cleaning' /\ Reservation' /\ Values' /\ ChallengeIntact'
  BY DnsStays DEF dnsVars, histVars
<1>4. Working' /\ Material' /\ OneServing'
  BY RowsStay DEF histVars
<1> QED
  BY <1>1, <1>2, <1>3, <1>4 DEF IInv

\* A step that changes rows, but neither a worker nor the reservation.
LEMMA RowsInv ==
    ASSUME IInv, UNCHANGED <<worker, orders, resv, zone, lost>>,
           TypeOK', Working', Material', OneServing'
    PROVE  IInv'
<1>1. Equipped' /\ OrdersDistinct' /\ Sole'
  BY WorkersStay
<1>2. Holding' /\ Cleaning' /\ Reservation' /\ Values' /\ ChallengeIntact'
  BY DnsStays
<1> QED
  BY <1>1, <1>2 DEF IInv

\* A request creates a row only when no row serves its names.
LEMMA RequestInv ==
    ASSUME IInv, NEW n \in Names, Request(n)
    PROVE  IInv'
<1>1. CASE Candidates(n) # {}
  <2>1. PICK c \in Candidates(n) :
           /\ CASE rows[c].status = "pending" -> PublishJob(IssueKey(c))
                [] rows[c].status = "active" /\ rows[c].due -> PublishJob(RenewKey(c))
                [] OTHER -> UNCHANGED jobVars
           /\ UNCHANGED rows
    BY <1>1 DEF Request
  <2>2. c \in Certs
    BY DEF Candidates, OfNames
  <2>3. PublishJob(IssueKey(c)) \/ PublishJob(RenewKey(c)) \/ UNCHANGED jobVars
    BY <2>1
  <2>4. keys' \subseteq Key /\ queued' \subseteq Key
    BY <2>2, <2>3, KeysTyped, PublishTyped DEF IInv, TypeOK, jobVars
  <2>5. used' \in 0..MaxFaults
    BY DEF IInv, TypeOK, Request
  <2> QED
    BY <2>1, <2>4, <2>5, JobsInv DEF Request
<1>2. CASE Candidates(n) = {}
  <2>1. PICK c \in Certs :
           /\ rows[c].status = "absent"
           /\ rows' = [rows EXCEPT ![c].status = "pending", ![c].names = n]
           /\ PublishJob(IssueKey(c))
    BY <1>2 DEF Request
  <2> DEFINE x == [rows[c] EXCEPT !.status = "pending", !.names = n]
  <2>2. rows \in [Certs -> Row] /\ rows[c] \in Row
    BY DEF IInv, TypeOK
  <2>3. x \in Row /\ x.status = "pending" /\ x.names = n /\ x.mat = rows[c].mat
    BY <2>2 DEF Row, Status
  <2>4. rows' = [rows EXCEPT ![c] = x]
    BY <2>1
  <2> HIDE DEF x
  <2>5. /\ rows' \in [Certs -> Row] /\ rows'[c] = x
        /\ \A d \in Certs : d # c => rows'[d] = rows[d]
    BY <2>2, <2>3, <2>4
  <2>6. UNCHANGED <<worker, revoker, orders, dues, used, resv, zone, revoked, lost>>
    BY DEF Request, dnsVars, histVars
  <2>7. TypeOK'
    BY <2>1, <2>5, <2>6, KeysTyped, PublishTyped DEF IInv, TypeOK
  <2>8. Working'
    <3>1. \A w \in Workers : InFlight(w) => Of(w) # c /\ Of(w) \in Certs
      BY <2>1 DEF IInv, Working, Equipped, InFlight, Past, At
    <3> QED
      BY <2>5, <2>6, <3>1 DEF IInv, Working, InFlight, Past, Of
  <2>9. Material'
    <3>1. ~Valid(rows[c]) /\ ~Valid(x)
      BY <2>1, <2>3 DEF IInv, Material, Valid, HasValidMaterial
    <3>2. \A w \in Workers : InFlight(w) => Of(w) # c /\ Of(w) \in Certs
      BY <2>1 DEF IInv, Working, Equipped, InFlight, Past, At
    <3>3. revoker.cert # c \/ ~Valid(revoker.object)
      BY <3>1 DEF IInv, Material
    <3>4. revoker.cert \in Certs \union {NoCert}
      BY DEF IInv, TypeOK
    <3> QED
      BY <2>5, <2>6, <3>1, <3>2, <3>3, <3>4
         DEF IInv, Material, InFlight, Past, Of, Valid, HasValidMaterial
  <2>10. OneServing'
    <3>1. \A d \in Certs : d # c /\ Serving(d) => rows[d].names # n
      BY <1>2 DEF Serving, Candidates, OfNames
    <3> QED
      BY <2>3, <2>5, <2>6, <3>1 DEF IInv, OneServing, Serving
  <2> QED
    BY <2>6, <2>7, <2>8, <2>9, <2>10, RowsInv
<1> QED
  BY <1>1, <1>2

\* renew_due and prune_jobs.
LEMMA ScanInv ==
    ASSUME IInv, NEW c \in Certs, Scan(c)
    PROVE  IInv'
<1>1. PublishJob(RenewKey(c)) \/ PublishJob(RecoverKey(c))
  BY DEF Scan, RenewDue, RecoverStale
<1>2. keys' \subseteq Key /\ queued' \subseteq Key
  BY <1>1, KeysTyped, PublishTyped DEF IInv
<1>3. used' \in 0..MaxFaults
  BY DEF IInv, TypeOK, Scan, RenewDue, RecoverStale
<1> QED
  BY <1>2, <1>3, JobsInv DEF Scan, RenewDue, RecoverStale

\* prune_jobs removes the row of a job, ended or not, and so its key.
LEMMA PruneInv == IInv /\ Prune => IInv'
<1> SUFFICES ASSUME IInv, Prune PROVE IInv'
  OBVIOUS
<1>1. keys' \subseteq Key /\ queued' \subseteq Key
  BY DEF IInv, TypeOK, Prune
<1>2. used' \in 0..MaxFaults
  BY Spent DEF IInv, TypeOK, Prune
<1> QED
  BY <1>1, <1>2, JobsInv DEF Prune

-----------------------------------------------------------------------------
(* A worker, up to the CA order.                                           *)

\* A worker gets a job with nothing else at hand.
LEMMA DeliverStarts ==
    ASSUME TypeOK, NEW w \in Workers, NEW k \in Key, Deliver(w, k)
    PROVE  /\ Alone(w)
           /\ worker'[w].pc = "lock" /\ worker'[w].cert \in Certs
           /\ worker'[w].order = 0 /\ worker'[w].rid = 0
<1> DEFINE x == [IdleWorker EXCEPT !.pc = "lock", !.key = k, !.cert = k.cert]
<1>1. k.cert \in Certs
  BY DEF Key
<1>2. x \in Worker
  BY <1>1, NothingTyped DEF Worker, PC
<1>3. x.pc = "lock" /\ x.cert = k.cert /\ x.order = 0 /\ x.rid = 0
  BY DEF IdleWorker
<1>4. worker \in [Workers -> Worker] /\ worker' = [worker EXCEPT ![w] = x]
  BY DEF TypeOK, Deliver
<1> HIDE DEF x
<1>5. worker' \in [Workers -> Worker] /\ worker'[w] = x
  BY <1>2, <1>4
<1>6. \A v \in Workers : v # w => worker'[v] = worker[v]
  BY <1>4
<1>7. x # IdleWorker
  BY <1>3 DEF IdleWorker
<1> QED
  BY <1>1, <1>3, <1>5, <1>6, <1>7 DEF Alone

\* A job starts, for the first time or once more.
LEMMA StartInv ==
    ASSUME IInv, NEW w \in Workers, Take(w) \/ Rerun(w)
    PROVE  IInv'
<1>1. PICK k \in keys \union queued : Deliver(w, k)
  BY DEF Take, Rerun
<1>2. k \in Key
  BY DEF IInv, TypeOK
<1>3. /\ At(w, "idle")
      /\ UNCHANGED <<rows, resv, zone, keys, revoker, orders, dues, revoked, lost>>
  BY DEF Take, Rerun, dnsVars, jobVars, histVars
<1>4. queued' \subseteq Key
  BY <1>3 DEF Take, Rerun, IInv, TypeOK, jobVars
<1>5. used' \in 0..MaxFaults
  BY Spent DEF Take, Rerun, IInv, TypeOK
<1>6. /\ Alone(w)
      /\ worker'[w].pc = "lock" /\ worker'[w].cert \in Certs
      /\ worker'[w].order = 0 /\ worker'[w].rid = 0
  BY <1>1, <1>2, DeliverStarts DEF IInv
<1> USE DEF Alone
<1>7. TypeOK'
  BY <1>3, <1>4, <1>5, <1>6 DEF IInv, TypeOK
<1>8. Equipped' /\ OrdersDistinct'
  <2>1. orders \in Nat
    BY DEF IInv, TypeOK
  <2> QED
    BY <1>3, <1>6, <2>1 DEF IInv, Equipped, OrdersDistinct, At, Of, Unordered, Planting
<1>9. Sole'
  BY <1>6 DEF IInv, Sole, Owning, Past, Of
<1>10. Holding' /\ Cleaning'
  BY <1>3, <1>6 DEF IInv, Holding, Cleaning, Planted, At, Of, InFlight, Past
<1>11. Reservation'
  <2>1. ~Planted(w)
    BY <1>3 DEF IInv, TypeOK, Planted, IdleWorker, At
  <2> QED
    BY <1>3, <1>6, <2>1 DEF IInv, Reservation, Planted, At
<1>12. Values' /\ ChallengeIntact'
  BY <1>3, <1>6 DEF IInv, Values, ChallengeIntact
<1>13. Working' /\ Material' /\ OneServing'
  BY <1>3, <1>6
     DEF IInv, Working, Material, OneServing, Serving, InFlight, Past, Of, Valid,
         HasValidMaterial
<1> QED
  BY <1>7, <1>8, <1>9, <1>10, <1>11, <1>12, <1>13 DEF IInv

\* A worker that ends and leaves everything else alone but the faults.
LEMMA EndInv ==
    ASSUME IInv, NEW w \in Workers, Ended(w), ~Planted(w), used' \in 0..MaxFaults,
           UNCHANGED <<rows, dnsVars, jobVars, revoker, orders, dues, histVars>>
    PROVE  IInv'
<1> USE DEF dnsVars, histVars
<1>1. TypeOK'
  BY MovedTyped DEF Ended, IInv
<1>2. Equipped' /\ OrdersDistinct' /\ Sole'
  BY EndedWorkers
<1>3. Holding' /\ Cleaning' /\ Reservation' /\ Values' /\ ChallengeIntact'
  BY EndedDns
<1>4. Working' /\ Material' /\ OneServing'
  BY EndedRows
<1> QED
  BY <1>1, <1>2, <1>3, <1>4 DEF IInv

\* A worker that goes on and leaves everything else alone but the faults.
LEMMA MoveInv ==
    ASSUME IInv, NEW w \in Workers, NEW pc \in PC, Moved(w, pc), used' \in 0..MaxFaults,
           UNCHANGED <<rows, dnsVars, jobVars, revoker, orders, dues, histVars>>,
           ~At(w, "idle"), ~At(w, "supersede"),
           pc \notin {"prerelease", "prepend", "reserve", "release"},
           pc \in Unordered => worker[w].order = 0,
           pc \in Planting => worker[w].rid # 0,
           pc = "order" /\ resv.owner = Of(w) => resv.state = "reserved",
           pc \in {"wait", "answer"} => zone = {worker[w].order},
           Owning(w) \/ Owners(Of(w)) = {},
           InFlight(w) \/ pc \in {"claim", "pend"} \/ (pc = "supersede" /\ ~Planted(w)),
           Planted(w) => pc \notin {"claim", "supersede"}
    PROVE  IInv'
<1> USE DEF dnsVars, histVars
<1>1. TypeOK'
  BY MovedTyped DEF Moved, IInv
<1>2. Equipped' /\ OrdersDistinct' /\ Sole'
  BY MovedWorkers
<1>3. Holding' /\ Cleaning' /\ Reservation' /\ Values' /\ ChallengeIntact'
  BY MovedDns
<1>4. Working' /\ Material' /\ OneServing'
  BY MovedRows
<1> QED
  BY <1>1, <1>2, <1>3, <1>4 DEF IInv

\* The lock is had or the job ends.
LEMMA LockInv ==
    ASSUME IInv, NEW w \in Workers, Lock(w)
    PROVE  IInv'
<1> USE DEF IInv
<1>1. ~Planted(w) /\ worker[w].order = 0 /\ ~At(w, "idle") /\ ~At(w, "supersede")
  BY DEF Lock, Planted, Equipped, Unordered, At
<1>2. used' \in 0..MaxFaults
  BY Spent DEF Lock, TypeOK
<1>3. CASE Goto(w, "claim") /\ Owners(Of(w)) = {}
  <2>1. Moved(w, "claim")
    BY <1>3, GotoMoves DEF PC
  <2> QED
    BY <1>1, <1>2, <1>3, <2>1, MoveInv DEF Lock, PC, Planting, Unordered
<1>4. CASE End(w)
  BY <1>1, <1>2, <1>4, EndEnds, EndInv DEF Lock
<1> QED
  BY <1>3, <1>4 DEF Lock

\* One row is saved.
Saved(c, x) ==
    /\ rows' \in [Certs -> Row]
    /\ rows'[c] = x
    /\ \A d \in Certs : d # c => rows'[d] = rows[d]

\* A row in the table is replaced and no other.
LEMMA SaveSaves ==
    ASSUME TypeOK, NEW c \in Certs, NEW x \in Row, rows' = [rows EXCEPT ![c] = x]
    PROVE  Saved(c, x)
  BY DEF Saved, TypeOK

\* A row that serves names only if it did before does not become a second.
LEMMA ServingKept ==
    ASSUME IInv, NEW c \in Certs, NEW x \in Row, Saved(c, x), revoked' = revoked,
           c \in revoked \/ x.status \notin {"pending", "issuing", "active"}
             \/ (Serving(c) /\ x.names = rows[c].names)
    PROVE  OneServing'
  BY DEF IInv, OneServing, Serving, Saved

\* The claim keeps the row's names and material.
LEMMA ClaimInv ==
    ASSUME IInv, NEW w \in Workers, Claim(w)
    PROVE  IInv'
<1> DEFINE c == Of(w)
           row == rows[c]
           x == [row EXCEPT !.status = "issuing", !.mod = @ + 1, !.stale = FALSE]
<1> USE DEF IInv
<1>1. At(w, "claim") /\ c \in Certs /\ worker[w].order = 0 /\ worker[w].rid = 0
  BY DEF Claim, Equipped, At, Unordered
<1>2. used' \in 0..MaxFaults
  BY DEF Claim, TypeOK
<1>3. rows \in [Certs -> Row] /\ row \in Row /\ worker[w] \in Worker
  BY <1>1 DEF TypeOK
<1>4. CASE ~(row.status = "issuing" /\ row.stale) /\ row.status \notin {"pending", "active"}
  <2>1. End(w) /\ UNCHANGED rows
    BY <1>4 DEF Claim
  <2> QED
    BY <1>1, <1>2, <2>1, EndEnds, EndInv DEF Claim, Planted
<1>5. ASSUME NEW renewing \in BOOLEAN, Claimed(w, x, renewing),
             row.status \in {"issuing", "pending", "active"}, Valid(row) => renewing
      PROVE  IInv'
  <2> HIDE DEF row
  <2>0. row.mod + 1 \in Nat
    BY <1>3 DEF Row
  <2>1. /\ x \in Row /\ x.status = "issuing" /\ x.names = row.names /\ x.mat = row.mat
    BY <1>3, <2>0 DEF Row, Status
  <2> DEFINE y == [worker[w] EXCEPT !.pc = "preclean", !.object = x, !.renewing = renewing]
  <2>2. /\ y \in Worker /\ y.pc = "preclean" /\ y.object = x /\ y.renewing = renewing
        /\ y.cert = worker[w].cert /\ y.order = worker[w].order /\ y.rid = worker[w].rid
    BY <1>3, <1>5, <2>1 DEF Worker, PC
  <2>3. rows' = [rows EXCEPT ![c] = x] /\ worker' = [worker EXCEPT ![w] = y]
    BY <1>5 DEF Claimed
  <2> HIDE DEF c, row, x, y
  <2>4. Saved(c, x)
    BY <1>1, <2>1, <2>3, SaveSaves
  <2>5. worker'[w] = y /\ Alone(w)
    <3>1. worker \in [Workers -> Worker]
      BY DEF TypeOK
    <3>2. worker' \in [Workers -> Worker] /\ worker'[w] = y
      BY <3>1, <2>2, <2>3
    <3>3. \A v \in Workers : v # w => worker'[v] = worker[v]
      BY <3>1, <2>3
    <3>4. y # IdleWorker
      BY <2>2 DEF IdleWorker
    <3> QED
      BY <3>2, <3>3, <3>4, <2>2 DEF Alone
  <2>6. UNCHANGED <<resv, zone, queued, keys, revoker, orders, dues, used, revoked, lost>>
    BY DEF Claim, dnsVars, jobVars, histVars
  <2>7. TypeOK'
    BY <1>2, <2>4, <2>5, <2>6 DEF TypeOK, Alone, Saved
  <2> USE DEF Alone
  <2>8. Equipped' /\ OrdersDistinct'
    BY <1>1, <2>2, <2>5, <2>6 DEF Equipped, OrdersDistinct, At, Of, Unordered, Planting
  <2>9. Sole'
    BY <1>1, <2>2, <2>5 DEF Sole, Owning, Past, At, Of
  <2>10. Holding' /\ Cleaning'
    BY <1>1, <2>2, <2>5, <2>6 DEF Holding, Cleaning, Planted, At, Of, InFlight, Past
  <2>11. Reservation'
    BY <1>1, <2>2, <2>5, <2>6 DEF Reservation, Planted, At
  <2>12. Values' /\ ChallengeIntact'
    BY <2>2, <2>5, <2>6 DEF Values, ChallengeIntact
  <2>13. \A v \in Workers : v # w /\ InFlight(v) => Of(v) # c /\ Of(v) \in Certs
    BY <1>1 DEF c, Sole, Owning, InFlight, Past, At, Of, Equipped
  <2>14. \A v \in Workers : v # w => (InFlight(v)' <=> InFlight(v)) /\ worker'[v] = worker[v]
    BY <2>5 DEF InFlight, Past
  <2>15. worker'[w].cert = c
    BY <2>2, <2>5 DEF c, Of
  <2>16. Working'
    BY <2>1, <2>2, <2>4, <2>5, <2>6, <2>13, <2>14, <2>15 DEF Working, Saved, Of, row
  <2>17. Material'
    <3>1. Valid(x) <=> Valid(row)
      BY <2>1 DEF Valid, HasValidMaterial
    <3>2. revoker.cert = c /\ Valid(revoker.object) => Valid(row)
      BY <1>1 DEF Material, TypeOK, row
    <3>3. revoker.cert \in Certs \union {NoCert}
      BY DEF TypeOK
    <3>4. \A v \in Workers : InFlight(v)' =>
             /\ Valid(rows'[Of(v)']) => Valid(worker'[v].object)
             /\ revoker.cert = Of(v)' /\ Valid(revoker.object) => Valid(worker'[v].object)
             /\ Valid(worker'[v].object) => worker'[v].renewing
      BY <1>5, <2>2, <2>4, <2>5, <2>13, <2>14, <2>15, <3>1, <3>2 DEF Material, Saved, Of
    <3>5. revoker.cert # NoCert /\ Valid(revoker.object) => Valid(rows'[revoker.cert])
      BY <2>4, <3>1, <3>2, <3>3 DEF Material, Saved
    <3>6. \A d \in Certs :
             Valid(rows'[d]) => rows'[d].status \in {"issuing", "active", "revoked"}
      BY <2>1, <2>4 DEF Material, Saved
    <3> QED
      BY <2>6, <3>4, <3>5, <3>6 DEF Material, Valid, HasValidMaterial
  <2>18. OneServing'
    BY <1>1, <1>5, <2>1, <2>4, <2>6, ServingKept DEF Serving, row
  <2> QED
    BY <2>7, <2>8, <2>9, <2>10, <2>11, <2>12, <2>16, <2>17, <2>18
<1>6. CASE row.status = "issuing" /\ row.stale
  <2>1. Claimed(w, x, HasValidMaterial(row))
    BY <1>6 DEF Claim
  <2> QED
    BY <1>5, <1>6, <2>1 DEF Valid, HasValidMaterial
<1>7. CASE row.status \in {"pending", "active"}
  <2>1. Claimed(w, x, row.status = "active")
    BY <1>7 DEF Claim
  <2>2. Valid(row) => row.status = "active"
    BY <1>1, <1>7 DEF Material
  <2> QED
    BY <1>5, <1>7, <2>1, <2>2
<1> QED
  BY <1>4, <1>6, <1>7

\* A try that comes to nothing goes to the failure handler.
LEMMA FailsInv ==
    ASSUME IInv, NEW w \in Workers, InFlight(w), Goto(w, "fail"), used' \in 0..MaxFaults,
           UNCHANGED <<rows, dnsVars, jobVars, revoker, orders, dues, histVars>>
    PROVE  IInv'
<1>1. Moved(w, "fail")
  BY GotoMoves DEF IInv, PC
<1>2. Owning(w) /\ ~At(w, "idle") /\ ~At(w, "supersede")
  BY DEF InFlight, Past, Owning, At
<1> QED
  BY <1>1, <1>2, MoveInv DEF PC, Unordered, Planting

\* A worker at the record: its step changes the values there or nothing.  The
\* reservation tells every other worker to keep off.
LEMMA ZoneInv ==
    ASSUME IInv, NEW w \in Workers, NEW pc \in PC, Moved(w, pc), used' = used,
           UNCHANGED <<rows, resv, jobVars, revoker, orders, dues, histVars>>,
           zone' \in {zone, zone \ {resv.value}},
           \/ /\ At(w, "preclean") /\ resv.owner = Of(w) /\ resv.state = "cleanup_pending"
              /\ pc \in {"prerelease", "prepend"}
           \/ At(w, "clear") /\ pc \in {"release", "pend"},
           pc \in {"prerelease", "release"} => resv.value \notin zone'
    PROVE  IInv'
<1> USE DEF IInv, jobVars, histVars, Moved, Alone
<1>1. Owning(w) /\ ~At(w, "idle")
  BY DEF Owning, Past, At
<1>2. At(w, "clear") => Planted(w)
  BY DEF Planted, Equipped, Planting, At
<1>3. At(w, "preclean") => ~Planted(w) /\ worker[w].order = 0
  BY DEF Planted, Equipped, Unordered, At
<1>4. Equipped' /\ OrdersDistinct' /\ Sole'
  BY <1>1, <1>2, <1>3, MovedWorkers DEF Planted, Unordered, Planting
<1>5. TypeOK'
  BY AloneTyped DEF TypeOK
<1>6. Holding'
  BY <1>2, <1>3 DEF Holding, Planted, At, Of, InFlight, Past
<1>7. Cleaning'
  BY <1>2 DEF Cleaning, Holding, At, Of
<1>8. Reservation'
  BY <1>2, <1>3 DEF Reservation, Planted, At
<1>9. Values'
  BY DEF Values
<1>10. ChallengeIntact'
  <2> SUFFICES ASSUME NEW v \in Workers, worker'[v].pc \in {"wait", "answer"}
               PROVE  zone' = {worker'[v].order}
    BY DEF ChallengeIntact
  <2>1. v # w /\ worker'[v] = worker[v]
    OBVIOUS
  <2>2. Planted(v) /\ InFlight(v)
    BY <2>1 DEF Equipped, Planting, Planted, InFlight, Past, At
  <2>3. CASE At(w, "clear")
    BY <1>2, <2>1, <2>2, <2>3, OnePlanted
  <2>4. CASE At(w, "preclean")
    BY <2>1, <2>2, <2>4 DEF Holding, At
  <2> QED
    BY <2>3, <2>4
<1>11. Working' /\ Material' /\ OneServing'
  <2>1. InFlight(w) \/ pc \in {"release", "pend"}
    BY DEF InFlight, Past, At
  <2> QED
    BY <2>1, MovedRows
<1> QED
  BY <1>4, <1>5, <1>6, <1>7, <1>8, <1>9, <1>10, <1>11

\* The challenge value of an earlier try is removed ...
LEMMA PrecleanInv ==
    ASSUME IInv, NEW w \in Workers, Preclean(w)
    PROVE  IInv'
<1> USE DEF IInv
<1>1. At(w, "preclean") /\ UNCHANGED <<rows, resv, jobVars, revoker, orders, dues, histVars>>
  BY DEF Preclean
<1>2. worker[w].order = 0 /\ worker[w].rid = 0
  BY <1>1 DEF Equipped, At, Unordered
<1>3. CASE resv.state = "cleanup_pending" /\ resv.owner = Of(w)
  <2>1. PICK pc \in {"prerelease", "prepend"} : Goto(w, pc) /\ UNCHANGED used
            /\ (zone' = zone \ {resv.value} \/ (pc = "prepend" /\ UNCHANGED zone))
    BY <1>3 DEF Preclean, Remove
  <2>2. Moved(w, pc)
    BY <2>1, GotoMoves DEF PC
  <2> QED
    BY <1>1, <1>3, <2>1, <2>2, ZoneInv DEF PC
<1>4. CASE ~(resv.state = "cleanup_pending" /\ resv.owner = Of(w))
  <2>1. Goto(w, "order") /\ UNCHANGED <<zone, used>>
    BY <1>4 DEF Preclean
  <2>2. Moved(w, "order")
    BY <2>1, GotoMoves DEF PC
  <2>3. InFlight(w) /\ Owning(w) /\ ~At(w, "idle") /\ ~At(w, "supersede")
    BY <1>1 DEF InFlight, Past, Owning, At
  <2>4. resv.owner = Of(w) => resv.state = "reserved"
    <3>1. Of(w) # NoCert
      BY <2>3 DEF Equipped
    <3>2. resv.state = "none" => resv.owner = NoCert
      BY DEF Reservation, NoResv
    <3> QED
      BY <1>4, <3>1, <3>2 DEF TypeOK
  <2>5. used' \in 0..MaxFaults
    BY <2>1 DEF TypeOK
  <2> QED
    BY <1>1, <1>2, <2>1, <2>2, <2>3, <2>4, <2>5, MoveInv
       DEF PC, Unordered, Planting, Planted, dnsVars
<1> QED
  BY <1>3, <1>4

\* ... and with it the reservation it was left under, or the try is over.
LEMMA PrecleanSaveInv ==
    ASSUME IInv, NEW w \in Workers, PrecleanSave(w)
    PROVE  IInv'
<1> USE DEF IInv, dnsVars, jobVars, histVars
<1>1. resv.state = "cleanup_pending" /\ resv.owner = Of(w)
  BY DEF PrecleanSave, Cleaning, At
<1>2. UNCHANGED <<rows, zone, queued, keys, revoker, orders, dues, used, revoked, lost>>
  BY DEF PrecleanSave
<1>3. worker[w].order = 0 /\ ~Planted(w) /\ InFlight(w) /\ Owning(w) /\ ~At(w, "idle")
  BY DEF PrecleanSave, Equipped, Unordered, At, Planted, InFlight, Past, Owning
<1>4. \A v \in Workers : ~Planted(v)
  BY <1>1 DEF Holding
<1>5. CASE At(w, "prerelease") /\ resv' = NoResv /\ Goto(w, "order")
  <2>1. Moved(w, "order")
    BY <1>5, GotoMoves DEF PC
  <2> USE DEF Moved, Alone
  <2>2. resv.value \notin zone
    BY <1>5 DEF Cleaning
  <2>3. TypeOK'
    <3>1. resv'.state = "none" /\ resv' \in [state : {"none", "reserved", "cleanup_pending"},
                 owner : Certs \union {NoCert}, id : Nat, value : Nat]
      BY <1>5 DEF NoResv
    <3> QED
      BY <1>2, <2>1, <3>1, AloneTyped DEF TypeOK
  <2>4. Equipped' /\ OrdersDistinct' /\ Sole'
    BY <1>2, <1>3, <2>1, MovedWorkers DEF PC, Unordered, Planting
  <2>5. \A v \in Workers : ~Planted(v)'
    BY <1>3, <1>4, <2>1 DEF Planted, At, Equipped
  <2>6. Holding' /\ Reservation' /\ Values'
    BY <1>1, <1>2, <1>5, <2>2, <2>5 DEF Holding, Reservation, Values, NoResv
  <2>7. Cleaning'
    <3>1. \A v \in Workers : v # w => worker[v].pc \notin {"prerelease", "prepend"}
      BY <1>1, <1>3 DEF Cleaning, Sole, Owning, Past, At
    <3>2. \A v \in Workers : Of(v)' \in Certs \/ worker'[v].pc = "idle"
      BY <2>4 DEF Equipped, At
    <3> QED
      BY <1>2, <1>5, <2>1, <3>1, <3>2 DEF Cleaning, At, Of, NoResv
  <2>8. ChallengeIntact'
    BY <1>2, <2>1 DEF ChallengeIntact
  <2>9. Working' /\ Material' /\ OneServing'
    BY <1>2, <1>3, <2>1, MovedRows DEF PC
  <2> QED
    BY <2>3, <2>4, <2>6, <2>7, <2>8, <2>9
<1>6. CASE At(w, "prepend") /\ resv' = [resv EXCEPT !.state = "cleanup_pending"]
           /\ Goto(w, "fail")
  <2>1. resv' = resv
    BY <1>1, <1>6 DEF TypeOK
  <2>2. used' \in 0..MaxFaults
    BY <1>2 DEF TypeOK
  <2> QED
    BY <1>2, <1>3, <1>6, <2>1, <2>2, FailsInv
<1> QED
  BY <1>5, <1>6 DEF PrecleanSave

\* What a save of the object leaves in the row.
LEMMA SaveObjectSaves ==
    ASSUME TypeOK, NEW w \in Workers, Of(w) \in Certs, NEW row \in Row, SaveObject(w, row)
    PROVE  \E x \in Row : /\ Saved(Of(w), x)
                          /\ x.status = row.status /\ x.names = row.names
                          /\ x.mat = row.mat
<1> DEFINE c == Of(w)
           n == rows[c].mod + 1
           x == [row EXCEPT !.mod = n, !.stale = FALSE]
<1>1. rows[c] \in Row
  BY DEF TypeOK
<1>2. n \in Nat
  BY <1>1 DEF Row
<1>3. rows' = [rows EXCEPT ![c] = x]
  BY DEF SaveObject
<1> HIDE DEF n
<1>4. x \in Row /\ x.status = row.status /\ x.names = row.names /\ x.mat = row.mat
  BY <1>2 DEF Row
<1> HIDE DEF x, c
<1>5. Saved(c, x)
  BY <1>3, <1>4, SaveSaves DEF c
<1> QED
  BY <1>4, <1>5 DEF c

\* An order is new, and the row is saved as the worker claimed it.
LEMMA NewOrderInv ==
    ASSUME IInv, NEW w \in Workers, NewOrder(w)
    PROVE  IInv'
<1> USE DEF IInv, dnsVars, jobVars, histVars
<1>1. At(w, "order") /\ InFlight(w) /\ Owning(w) /\ ~At(w, "idle") /\ Of(w) \in Certs
  BY DEF NewOrder, InFlight, Past, Owning, At, Equipped
<1>2. worker[w].order = 0 /\ worker[w].rid = 0
  BY <1>1 DEF Equipped, At, Unordered
<1>3. UNCHANGED <<resv, zone, queued, keys, revoker, dues, revoked, lost, used>>
  BY DEF NewOrder, CARefuses
<1>4. CASE CARefuses(w) /\ UNCHANGED <<rows, orders>>
  <2>1. used' \in 0..MaxFaults
    BY <1>3 DEF TypeOK
  <2> QED
    BY <1>1, <1>3, <1>4, <2>1, FailsInv DEF CARefuses
<1>5. CASE /\ orders' = orders + 1
           /\ SaveObject(w, worker[w].object)
           /\ \E pc \in {"reserve", "finalize"} :
                 worker' = [worker EXCEPT ![w].pc = pc, ![w].order = orders + 1]
  <2> DEFINE c == Of(w)
  <2>1. PICK pc \in {"reserve", "finalize"} :
           worker' = [worker EXCEPT ![w].pc = pc, ![w].order = orders + 1]
    BY <1>5
  <2>2. worker[w] \in Worker /\ worker \in [Workers -> Worker] /\ orders + 1 \in Nat
    BY DEF TypeOK
  <2> DEFINE y == [worker[w] EXCEPT !.pc = pc, !.order = orders + 1]
  <2>3. /\ y \in Worker /\ y.pc = pc /\ y.order = orders + 1 /\ y.rid = 0
        /\ y.cert = worker[w].cert /\ y.object = worker[w].object
        /\ y.renewing = worker[w].renewing
    BY <1>2, <2>2 DEF Worker, PC
  <2>4. worker' = [worker EXCEPT ![w] = y]
    BY <2>1
  <2>5. worker[w].object \in Row
    BY <2>2 DEF Worker
  <2>6. PICK x \in Row : /\ Saved(c, x)
                         /\ x.status = worker[w].object.status
                         /\ x.names = worker[w].object.names
                         /\ x.mat = worker[w].object.mat
    BY <1>1, <1>5, <2>5, SaveObjectSaves
  <2> HIDE DEF y, c
  <2>7. worker'[w] = y /\ Alone(w)
    <3>1. worker' \in [Workers -> Worker] /\ worker'[w] = y
      BY <2>2, <2>3, <2>4
    <3>2. \A v \in Workers : v # w => worker'[v] = worker[v]
      BY <2>2, <2>4
    <3>3. y # IdleWorker
      BY <2>3 DEF IdleWorker
    <3> QED
      BY <2>3, <3>1, <3>2, <3>3 DEF Alone
  <2> USE DEF Alone
  <2>8. x.status = "issuing"
    BY <1>1, <2>6 DEF Working
  <2>9. TypeOK'
    <3>1. orders \in Nat /\ orders' = orders + 1
      BY <1>5 DEF TypeOK
    <3>2. 1..orders \subseteq 1..orders'
      BY <3>1
    <3> QED
      BY <1>3, <2>6, <2>7, <3>1, <3>2 DEF TypeOK, Saved
  <2>10. Equipped' /\ OrdersDistinct'
    <3>1. orders \in Nat /\ orders' = orders + 1
      BY <1>5 DEF TypeOK
    <3>2. \A v \in Workers : v # w => worker[v].order \in 0..orders /\ worker[v].order # orders'
      BY <3>1 DEF Equipped
    <3>3. Equipped'
      BY <1>1, <2>3, <2>7, <3>1, <3>2 DEF Equipped, At, Of, Unordered, Planting
    <3>4. OrdersDistinct'
      BY <2>3, <2>7, <3>1, <3>2 DEF OrdersDistinct
    <3> QED
      BY <3>3, <3>4
  <2>11. Sole'
    BY <1>1, <2>3, <2>7 DEF Sole, Owning, Past, At, Of
  <2>12. Holding'
    BY <1>2, <1>3, <2>3, <2>7 DEF Holding, Planted, At, Of, InFlight, Past
  <2>13. Cleaning'
    BY <1>1, <1>3, <2>3, <2>7 DEF Cleaning, At, Of
  <2>14. Reservation'
    BY <1>2, <1>3, <2>3, <2>7 DEF Reservation, Planted, At
  <2>15. Values' /\ ChallengeIntact'
    BY <1>3, <2>3, <2>7 DEF Values, ChallengeIntact
  <2>16. \A v \in Workers : v # w /\ InFlight(v) => Of(v) # c /\ Of(v) \in Certs
    BY <1>1 DEF c, Sole, Owning, InFlight, Past, At, Of, Equipped
  <2>17. \A v \in Workers : v # w => (InFlight(v)' <=> InFlight(v)) /\ worker'[v] = worker[v]
    BY <2>7 DEF InFlight, Past
  <2>18. worker'[w].cert = c /\ c \in Certs
    BY <1>1, <2>3, <2>7 DEF c, Of
  <2>19. Working'
    <3> SUFFICES ASSUME NEW v \in Workers, InFlight(v)'
                 PROVE  LET row == rows'[Of(v)'] IN
                        /\ worker'[v].object.status = "issuing"
                        /\ row.status \in {"issuing", "revoked"}
                        /\ Of(v)' \notin revoked =>
                              row.status = "issuing" /\ row.names = worker'[v].object.names
      BY <1>3 DEF Working
    <3>1. CASE v = w
      <4>1. rows'[Of(v)'] = x /\ worker'[v].object = worker[w].object
        BY <3>1, <2>3, <2>6, <2>7, <2>18 DEF Saved, Of
      <4> QED
        BY <4>1, <2>6, <2>8
    <3>2. CASE v # w
      <4>1. rows'[Of(v)'] = rows[Of(v)] /\ worker'[v] = worker[v] /\ Of(v)' = Of(v)
              /\ InFlight(v)
        BY <3>2, <2>6, <2>16, <2>17 DEF Saved, Of
      <4> QED
        BY <4>1 DEF Working
    <3> QED
      BY <3>1, <3>2
  <2>20. Material'
    <3>1. Valid(x) <=> Valid(worker[w].object)
      BY <2>6 DEF Valid, HasValidMaterial
    <3>2. revoker.cert = c /\ Valid(revoker.object) => Valid(worker[w].object)
      BY <1>1 DEF Material, c
    <3>3. revoker.cert \in Certs \union {NoCert}
      BY DEF TypeOK
    <3>4. Valid(worker[w].object) => worker[w].renewing
      BY <1>1 DEF Material
    <3>5. \A v \in Workers : InFlight(v)' =>
             /\ Valid(rows'[Of(v)']) => Valid(worker'[v].object)
             /\ revoker.cert = Of(v)' /\ Valid(revoker.object) => Valid(worker'[v].object)
             /\ Valid(worker'[v].object) => worker'[v].renewing
      <4> SUFFICES ASSUME NEW v \in Workers, InFlight(v)'
                   PROVE  /\ Valid(rows'[Of(v)']) => Valid(worker'[v].object)
                          /\ revoker.cert = Of(v)' /\ Valid(revoker.object)
                                => Valid(worker'[v].object)
                          /\ Valid(worker'[v].object) => worker'[v].renewing
        OBVIOUS
      <4>1. CASE v = w
        <5>1. rows'[Of(v)'] = x /\ worker'[v].object = worker[w].object
                /\ worker'[v].renewing = worker[w].renewing /\ Of(v)' = c
          BY <4>1, <2>3, <2>6, <2>7, <2>18 DEF Saved, Of
        <5> QED
          BY <5>1, <3>1, <3>2, <3>4
      <4>2. CASE v # w
        <5>1. rows'[Of(v)'] = rows[Of(v)] /\ worker'[v] = worker[v] /\ Of(v)' = Of(v)
                /\ InFlight(v)
          BY <4>2, <2>6, <2>16, <2>17 DEF Saved, Of
        <5> QED
          BY <5>1 DEF Material
      <4> QED
        BY <4>1, <4>2
    <3>6. revoker.cert # NoCert /\ Valid(revoker.object) => Valid(rows'[revoker.cert])
      BY <2>6, <3>1, <3>2, <3>3 DEF Material, Saved
    <3>7. \A d \in Certs :
             Valid(rows'[d]) => rows'[d].status \in {"issuing", "active", "revoked"}
      BY <2>6, <2>8 DEF Material, Saved
    <3> QED
      BY <1>3, <3>5, <3>6, <3>7 DEF Material, Valid, HasValidMaterial
  <2>21. OneServing'
    <3>1. c \notin revoked => Serving(c) /\ x.names = rows[c].names
      BY <1>1, <2>6 DEF Working, Serving, c
    <3> QED
      BY <1>3, <2>6, <2>18, <3>1, ServingKept
  <2> QED
    BY <2>9, <2>10, <2>11, <2>12, <2>13, <2>14, <2>15, <2>19, <2>20, <2>21
<1> QED
  BY <1>4, <1>5 DEF NewOrder

-----------------------------------------------------------------------------
(* The challenge and the certificate.                                      *)

\* The reservation is had when nobody has it, or when it was left by a worker
\* of the same certificate that died.
LEMMA ReserveInv ==
    ASSUME IInv, NEW w \in Workers, Reserve(w)
    PROVE  IInv'
<1> USE DEF IInv, dnsVars, jobVars, histVars
<1>1. At(w, "reserve") /\ InFlight(w) /\ Owning(w) /\ ~At(w, "idle") /\ Of(w) \in Certs
  BY DEF Reserve, InFlight, Past, Owning, At, Equipped
<1>2. worker[w].order \in 1..orders /\ worker[w].rid = 0 /\ ~Planted(w)
  BY <1>1 DEF Equipped, At, Planted, TypeOK
<1>3. UNCHANGED <<rows, zone, queued, keys, revoker, orders, dues, used, revoked, lost>>
  BY DEF Reserve
<1>4. CASE ~(resv.state = "none" \/ resv.owner = Of(w))
  <2>1. Goto(w, "fail") /\ UNCHANGED resv
    BY <1>4 DEF Reserve
  <2>2. used' \in 0..MaxFaults
    BY <1>3 DEF TypeOK
  <2> QED
    BY <1>1, <1>3, <2>1, <2>2, FailsInv
<1>5. CASE resv.state = "none" \/ resv.owner = Of(w)
  <2> DEFINE id == IF resv.state = "none" THEN worker[w].order ELSE resv.id
             y == [worker[w] EXCEPT !.pc = "upsert", !.rid = id]
             r == [state |-> "reserved", owner |-> Of(w), id |-> id,
                   value |-> worker[w].order]
  <2>1. resv' = r /\ worker' = [worker EXCEPT ![w] = y]
    BY <1>5 DEF Reserve
  <2>2. worker[w] \in Worker /\ worker \in [Workers -> Worker] /\ orders \in Nat
    BY DEF TypeOK
  <2>3. id \in 1..orders /\ id # 0
    BY <1>2, <2>2 DEF TypeOK
  <2>4. id \in Nat
    BY <2>2, <2>3
  <2> HIDE DEF id
  <2>5. /\ y \in Worker /\ y.pc = "upsert" /\ y.rid = id
        /\ y.order = worker[w].order /\ y.cert = worker[w].cert
        /\ y.object = worker[w].object /\ y.renewing = worker[w].renewing
    BY <2>2, <2>4 DEF Worker, PC
  <2>6. /\ r \in [state : {"none", "reserved", "cleanup_pending"},
                  owner : Certs \union {NoCert}, id : Nat, value : Nat]
        /\ r.state = "reserved" /\ r.owner = Of(w) /\ r.id = id
        /\ r.value = worker[w].order
    BY <1>1, <1>2, <2>2, <2>4
  <2> HIDE DEF y, r
  <2>7. worker'[w] = y /\ Alone(w)
    <3>1. worker' \in [Workers -> Worker] /\ worker'[w] = y
      BY <2>1, <2>2, <2>5
    <3>2. \A v \in Workers : v # w => worker'[v] = worker[v]
      BY <2>1, <2>2
    <3>3. y # IdleWorker
      BY <2>5 DEF IdleWorker
    <3> QED
      BY <2>5, <3>1, <3>2, <3>3 DEF Alone
  <2> USE DEF Alone
  <2>8. TypeOK'
    BY <1>2, <1>3, <2>1, <2>3, <2>6, <2>7 DEF TypeOK
  <2>9. Equipped' /\ OrdersDistinct'
    BY <1>1, <1>2, <1>3, <2>3, <2>5, <2>7
       DEF Equipped, OrdersDistinct, At, Of, Unordered, Planting
  <2>10. Sole'
    BY <1>1, <2>5, <2>7 DEF Sole, Owning, Past, At, Of
  <2>11. \A v \in Workers : ~Planted(v)
    <3> SUFFICES ASSUME NEW v \in Workers, Planted(v) PROVE FALSE
      OBVIOUS
    <3>1. resv.state = "reserved" /\ resv.owner \in {Of(v), NoCert} /\ v # w
      BY <1>2 DEF Holding
    <3>2. Of(v) = Of(w)
      BY <1>1, <1>5, <3>1
    <3>3. Owning(v)
      BY DEF Planted, Owning, Past, Equipped, TypeOK, IdleWorker, Unordered, At
    <3> QED
      BY <1>1, <3>1, <3>2, <3>3 DEF Sole
  <2>12. Holding'
    <3>1. \A v \in Workers : v # w => ~Planted(v)'
      BY <2>7, <2>11 DEF Planted, At
    <3>2. InFlight(w)' => Of(w)' = Of(w)
      BY <2>5, <2>7 DEF Of
    <3> QED
      BY <2>1, <2>5, <2>6, <2>7, <3>1, <3>2 DEF Holding, Of
  <2>13. Cleaning'
    <3>1. \A v \in Workers : v # w => worker[v].pc \notin {"prerelease", "prepend"}
      BY <1>1, <1>5 DEF Cleaning, Sole, Owning, Past, At
    <3>2. \A v \in Workers : v # w => ~At(v, "release")
      BY <2>11 DEF Planted, Equipped, Planting, At
    <3> QED
      BY <1>3, <2>1, <2>5, <2>6, <2>7, <3>1, <3>2 DEF Cleaning, At, Of
  <2>14. Reservation'
    BY <2>1, <2>3, <2>5, <2>6, <2>7 DEF Reservation, Planted, At
  <2>15. Values'
    <3>1. resv.state # "none" => resv.value \in lost
      BY <1>1, <1>5, <2>11 DEF Cleaning, Reservation, At
    <3> QED
      BY <1>3, <2>1, <2>6, <3>1 DEF Values
  <2>16. ChallengeIntact'
    BY <1>3, <2>5, <2>7 DEF ChallengeIntact
  <2>17. Working' /\ Material' /\ OneServing'
    <3>1. InFlight(w)' /\ Of(w)' = Of(w) /\ worker'[w].object = worker[w].object
             /\ worker'[w].renewing = worker[w].renewing
      BY <2>5, <2>7 DEF InFlight, Past, Of
    <3>2. \A v \in Workers : v # w => (InFlight(v)' <=> InFlight(v)) /\ Of(v)' = Of(v)
      BY <2>7 DEF InFlight, Past, Of
    <3>3. Working'
      BY <1>1, <1>3, <2>7, <3>1, <3>2 DEF Working
    <3>4. Material'
      BY <1>1, <1>3, <2>7, <3>1, <3>2 DEF Material, Valid, HasValidMaterial
    <3>5. OneServing'
      BY <1>3 DEF OneServing, Serving
    <3> QED
      BY <3>3, <3>4, <3>5
  <2> QED
    BY <2>8, <2>9, <2>10, <2>12, <2>13, <2>14, <2>15, <2>16, <2>17
<1> QED
  BY <1>4, <1>5

\* The record gets the values of the one worker that has planted.
LEMMA UpsertInv ==
    ASSUME IInv, NEW w \in Workers, Upsert(w)
    PROVE  IInv'
<1> USE DEF IInv, dnsVars, jobVars, histVars
<1>1. At(w, "upsert") /\ InFlight(w) /\ Owning(w) /\ ~At(w, "idle")
  BY DEF Upsert, InFlight, Past, Owning, At
<1>2. Planted(w) /\ worker[w].order # 0
  BY <1>1 DEF Equipped, Planting, Planted, At
<1>3. UNCHANGED <<rows, resv, queued, keys, revoker, orders, dues, revoked, lost>>
  BY DEF Upsert
<1>4. used' \in 0..MaxFaults
  BY Spent DEF Upsert, TypeOK
<1>5. Guarded(w)
  BY <1>2 DEF Guarded, Holding
<1>6. PICK pc \in {"wait", "fail"} :
         /\ Goto(w, pc)
         /\ zone' = {worker[w].order} \/ (pc = "fail" /\ UNCHANGED zone)
  BY <1>5 DEF Upsert
<1>7. Moved(w, pc)
  BY <1>6, GotoMoves DEF PC
<1>8. CASE UNCHANGED zone /\ pc = "fail"
  BY <1>1, <1>3, <1>4, <1>6, <1>8, FailsInv
<1>9. CASE zone' = {worker[w].order}
  <2> USE DEF Moved, Alone
  <2>1. TypeOK'
    BY <1>2, <1>3, <1>4, <1>7, <1>9, AloneTyped DEF TypeOK, Equipped
  <2>2. Equipped' /\ OrdersDistinct' /\ Sole'
    BY <1>1, <1>2, <1>3, <1>7, MovedWorkers DEF PC, Unordered, Planted
  <2>3. Holding' /\ Reservation'
    BY <1>1, <1>2, <1>3, <1>7 DEF Holding, Reservation, Planted, At, Of, InFlight, Past
  <2>4. \A v \in Workers : v # w => ~Planted(v)
    BY <1>2, OnePlanted
  <2>5. Cleaning'
    <3>1. \A v \in Workers : v # w => ~At(v, "release") /\ ~At(v, "prerelease")
      BY <1>2, <2>4 DEF Planted, Equipped, Planting, At, Holding, Cleaning
    <3> QED
      BY <1>3, <1>7, <3>1 DEF Cleaning, At, Of
  <2>6. Values'
    BY <1>2, <1>3, <1>9 DEF Values, Holding
  <2>7. ChallengeIntact'
    <3>1. \A v \in Workers : v # w => worker[v].pc \notin {"wait", "answer"}
      BY <2>4 DEF Planted, Equipped, Planting, At
    <3> QED
      BY <1>7, <1>9, <3>1 DEF ChallengeIntact
  <2>8. Working' /\ Material' /\ OneServing'
    BY <1>1, <1>3, <1>7, MovedRows DEF PC
  <2> QED
    BY <2>1, <2>2, <2>3, <2>5, <2>6, <2>7, <2>8
<1> QED
  BY <1>6, <1>8, <1>9

\* The propagation and the CA's look leave everything but the worker alone.
LEMMA WaitInv ==
    ASSUME IInv, NEW w \in Workers, Wait(w) \/ Answer(w)
    PROVE  IInv'
<1> USE DEF IInv, dnsVars, jobVars, histVars
<1>1. /\ worker[w].pc \in {"wait", "answer"}
      /\ InFlight(w) /\ Owning(w) /\ ~At(w, "idle") /\ ~At(w, "supersede")
  BY DEF Wait, Answer, InFlight, Past, Owning, At
<1>2. Planted(w)
  BY <1>1 DEF Equipped, Planting, Planted, At
<1>3. UNCHANGED <<rows, resv, zone, queued, keys, revoker, orders, dues, revoked, lost>>
  BY DEF Wait, Answer
<1>4. used' \in 0..MaxFaults
  BY Spent DEF Wait, Answer, CARefuses, TypeOK
<1>5. PICK pc \in {"answer", "finalize", "fail"} : Goto(w, pc)
  BY DEF Wait, Answer, CARefuses
<1>6. Moved(w, pc)
  BY <1>5, GotoMoves DEF PC
<1>7. zone = {worker[w].order}
  BY <1>1 DEF ChallengeIntact
<1> QED
  BY <1>1, <1>2, <1>3, <1>4, <1>6, <1>7, MoveInv DEF PC, Unordered, Planted

\* The end of the try clause: the row is saved, and the worker that owned it
\* is past issuing.
LEMMA LeaveInv ==
    ASSUME IInv, NEW w \in Workers, NEW ok \in BOOLEAN, NEW x \in Row,
           At(w, "finalize") \/ At(w, "fail"), Leave(w, ok), Saved(Of(w), x), used' = used,
           UNCHANGED <<dnsVars, jobVars, revoker, orders, dues, histVars>>,
           Valid(rows[Of(w)]) => Valid(x),
           Valid(x) => x.status \in {"issuing", "active", "revoked"},
           x.status \in {"active", "failed"},
           Of(w) \in revoked \/ x.names = rows[Of(w)].names \/ x.status = "failed"
    PROVE  IInv'
<1> USE DEF IInv, dnsVars, jobVars, histVars
<1>1. InFlight(w) /\ Owning(w) /\ ~At(w, "idle") /\ ~At(w, "supersede") /\ Of(w) \in Certs
  BY DEF InFlight, Past, Owning, At, Equipped
<1>2. \/ Moved(w, "clear") /\ worker[w].rid # 0
      \/ Moved(w, "supersede") /\ worker[w].rid = 0
      \/ Ended(w) /\ worker[w].rid = 0
  BY LeaveMoves
<1>3. Alone(w)
  BY <1>2 DEF Moved, Ended
<1>4. TypeOK'
  BY <1>3, AloneTyped DEF TypeOK, Saved
<1>5. Equipped' /\ OrdersDistinct' /\ Sole'
  BY <1>1, <1>2, MovedWorkers, EndedWorkers DEF PC, Unordered, Planting
<1>6. Holding' /\ Cleaning' /\ Reservation' /\ Values' /\ ChallengeIntact'
  BY <1>1, <1>2, MovedDns, EndedDns DEF PC, Planted
<1>7. ~InFlight(w)'
  BY <1>2 DEF Moved, Ended, InFlight, Past, IdleWorker
<1>8. \A v \in Workers : InFlight(v)' =>
         /\ v # w /\ worker'[v] = worker[v] /\ InFlight(v)
         /\ Of(v)' = Of(v) /\ Of(v) # Of(w) /\ Of(v) \in Certs
         /\ rows'[Of(v)] = rows[Of(v)]
  <2> SUFFICES ASSUME NEW v \in Workers, InFlight(v)'
               PROVE  /\ v # w /\ worker'[v] = worker[v] /\ InFlight(v)
                      /\ Of(v)' = Of(v) /\ Of(v) # Of(w) /\ Of(v) \in Certs
                      /\ rows'[Of(v)] = rows[Of(v)]
    OBVIOUS
  <2>1. v # w /\ worker'[v] = worker[v] /\ InFlight(v) /\ Of(v)' = Of(v)
    BY <1>3, <1>7 DEF Alone, InFlight, Past, Of
  <2>2. Of(v) # Of(w) /\ Of(v) \in Certs
    BY <1>1, <2>1 DEF Sole, Owning, InFlight, Past, Equipped, At
  <2> QED
    BY <2>1, <2>2 DEF Saved
<1>9. Working'
  BY <1>8 DEF Working
<1>10. Material'
  <2>1. revoker.cert \in Certs \union {NoCert}
    BY DEF TypeOK
  <2>2. revoker.cert # NoCert /\ Valid(revoker.object) => Valid(rows'[revoker.cert])
    BY <1>1, <2>1 DEF Material, Saved
  <2>3. \A d \in Certs :
           Valid(rows'[d]) => rows'[d].status \in {"issuing", "active", "revoked"}
    BY <1>1 DEF Material, Saved
  <2> QED
    BY <1>8, <2>2, <2>3 DEF Material, Valid, HasValidMaterial
<1>11. OneServing'
  <2>1. Of(w) \notin revoked => Serving(Of(w))
    BY <1>1 DEF Working, Serving
  <2> QED
    BY <1>1, <2>1, ServingKept
<1> QED
  BY <1>4, <1>5, <1>6, <1>9, <1>10, <1>11

\* The certificate is had: the row is active and its material valid.
LEMMA FinalizeInv ==
    ASSUME IInv, NEW w \in Workers, Finalize(w)
    PROVE  IInv'
<1> USE DEF IInv, dnsVars, jobVars, histVars
<1>1. At(w, "finalize") /\ InFlight(w) /\ Of(w) \in Certs
  BY DEF Finalize, InFlight, Past, At, Equipped
<1>2. UNCHANGED <<resv, zone, queued, keys, revoker, orders, dues, revoked, lost, used>>
  BY DEF Finalize, CARefuses
<1>3. CASE CARefuses(w) /\ UNCHANGED rows
  <2>1. used' \in 0..MaxFaults /\ UNCHANGED orders
    BY <1>2 DEF TypeOK
  <2> QED
    BY <1>1, <1>2, <1>3, <2>1, FailsInv DEF CARefuses
<1>4. CASE SaveObject(w, [worker[w].object EXCEPT !.status = "active",
                          !.mat = "valid", !.due = FALSE, !.mark = rows[Of(w)].mark + 1])
           /\ Leave(w, TRUE)
  <2> DEFINE n == rows[Of(w)].mark + 1
             y == [worker[w].object EXCEPT !.status = "active",
                          !.mat = "valid", !.due = FALSE, !.mark = n]
  <2>1. rows[Of(w)] \in Row /\ worker[w] \in Worker
    BY <1>1 DEF TypeOK
  <2>2. n \in Nat /\ worker[w].object \in Row
    BY <2>1 DEF Row, Worker
  <2>3. SaveObject(w, y)
    BY <1>4
  <2> HIDE DEF n
  <2>4. y \in Row /\ y.status = "active" /\ y.mat = "valid" /\ y.names = worker[w].object.names
    BY <2>2 DEF Row, Status
  <2> HIDE DEF y
  <2>5. PICK x \in Row : /\ Saved(Of(w), x)
                         /\ x.status = y.status /\ x.names = y.names /\ x.mat = y.mat
    BY <1>1, <2>3, <2>4, SaveObjectSaves
  <2>6. Valid(x) /\ x.status = "active"
    BY <2>4, <2>5 DEF Valid, HasValidMaterial
  <2>7. Of(w) \in revoked \/ x.names = rows[Of(w)].names
    BY <1>1, <2>4, <2>5 DEF Working
  <2> QED
    BY <1>1, <1>2, <1>4, <2>5, <2>6, <2>7, LeaveInv
<1> QED
  BY <1>3, <1>4 DEF Finalize

\* What the failure handler leaves in the row: active when it renews valid
\* material, else failed.
LEMMA FailSaves ==
    ASSUME IInv, NEW w \in Workers, Fail(w)
    PROVE  \E x \in Row :
              /\ Saved(Of(w), x) /\ x.names = rows[Of(w)].names /\ x.mat = rows[Of(w)].mat
              /\ IF worker[w].renewing /\ Valid(rows[Of(w)]) THEN x.status = "active"
                 ELSE x.status = "failed"
<1> USE DEF IInv
<1> DEFINE c == Of(w)
           kept == worker[w].renewing /\ HasValidMaterial(rows[c])
           x == rows'[c]
<1>1. c \in Certs /\ rows \in [Certs -> Row] /\ rows[c] \in Row
  BY DEF Fail, Equipped, At, TypeOK
<1>2. rows[c].mark + 1 \in Nat
  BY <1>1 DEF Row
<1>3. \A d \in Certs : d # c => rows'[d] = rows[d]
  BY <1>1 DEF Fail
<1>4. x = IF kept THEN [rows[c] EXCEPT !.status = "active", !.due = FALSE,
                                       !.mark = @ + 1, !.stale = FALSE]
          ELSE [rows[c] EXCEPT !.status = "failed", !.stale = FALSE]
  BY <1>1 DEF Fail
<1>5. x \in Row /\ x.names = rows[c].names /\ x.mat = rows[c].mat
  BY <1>1, <1>2, <1>4 DEF Row, Status
<1>6. IF kept THEN x.status = "active" ELSE x.status = "failed"
  BY <1>1, <1>4 DEF Row
<1>7. rows' \in [Certs -> Row]
  <2>1. rows' = [d \in Certs |-> rows'[d]]
    BY <1>1 DEF Fail
  <2> QED
    BY <1>1, <1>3, <1>5, <2>1
<1> QED
  BY <1>3, <1>5, <1>6, <1>7 DEF Saved, Valid

\* The failure handler loses no valid material.
LEMMA FailInv ==
    ASSUME IInv, NEW w \in Workers, Fail(w)
    PROVE  IInv'
<1>1. PICK x \in Row :
         /\ Saved(Of(w), x) /\ x.names = rows[Of(w)].names /\ x.mat = rows[Of(w)].mat
         /\ IF worker[w].renewing /\ Valid(rows[Of(w)]) THEN x.status = "active"
            ELSE x.status = "failed"
  BY FailSaves
<1>2. At(w, "fail") /\ Leave(w, FALSE)
  BY DEF Fail
<1>3. Valid(rows[Of(w)]) => worker[w].renewing
  BY <1>2 DEF IInv, Material, InFlight, Past, At
<1>4. Valid(x) <=> Valid(rows[Of(w)])
  BY <1>1 DEF Valid, HasValidMaterial
<1>5. x.status \in {"active", "failed"} /\ (Valid(x) => x.status = "active")
  BY <1>1, <1>3, <1>4
<1> QED
  BY <1>1, <1>2, <1>4, <1>5, LeaveInv DEF Fail

\* Cleaning up after itself: the value is removed ...
LEMMA ClearInv ==
    ASSUME IInv, NEW w \in Workers, Clear(w)
    PROVE  IInv'
<1> USE DEF IInv
<1>1. At(w, "clear") /\ UNCHANGED <<rows, resv, jobVars, revoker, orders, dues, histVars>>
  BY DEF Clear
<1>2. Planted(w)
  BY <1>1 DEF Equipped, Planting, Planted, At
<1>3. Guarded(w) /\ resv.value = worker[w].order
  BY <1>2 DEF Guarded, Holding
<1>4. PICK pc \in {"release", "pend"} : Goto(w, pc) /\ UNCHANGED used
          /\ (zone' = zone \ {resv.value} \/ (pc = "pend" /\ UNCHANGED zone))
  BY <1>3 DEF Clear, Remove
<1>5. Moved(w, pc)
  BY <1>4, GotoMoves DEF PC
<1> QED
  BY <1>1, <1>4, <1>5, ZoneInv DEF PC

\* ... and the reservation is released, or marked for the next try.
LEMMA ClearSaveInv ==
    ASSUME IInv, NEW w \in Workers, ClearSave(w)
    PROVE  IInv'
<1> USE DEF IInv, dnsVars, jobVars, histVars
<1>1. worker[w].pc \in {"release", "pend"} /\ Owning(w) /\ ~At(w, "idle")
  BY DEF ClearSave, Owning, Past, At
<1>2. Planted(w)
  BY <1>1 DEF Equipped, Planting, Planted, At
<1>3. Guarded(w) /\ resv.state = "reserved" /\ resv.value = worker[w].order
  BY <1>2 DEF Guarded, Holding
<1>4. UNCHANGED <<rows, zone, queued, keys, revoker, orders, dues, used, revoked, lost>>
  BY DEF ClearSave
<1>5. Moved(w, "supersede") \/ Ended(w)
  BY GotoMoves, EndEnds DEF ClearSave, AfterClear, PC
<1>6. Alone(w)
  BY <1>5 DEF Moved, Ended
<1>7. \A v \in Workers : v # w => ~Planted(v)
  BY <1>2, OnePlanted
<1>8. \A v \in Workers : ~Planted(v)'
  BY <1>5, <1>7 DEF Moved, Ended, Alone, Planted, At, IdleWorker
<1>9. \/ At(w, "release") /\ resv' = NoResv
      \/ At(w, "pend") /\ resv' = [resv EXCEPT !.state = "cleanup_pending"]
  BY <1>3 DEF ClearSave
<1>10. /\ resv' \in [state : {"none", "reserved", "cleanup_pending"},
                     owner : Certs \union {NoCert}, id : Nat, value : Nat]
       /\ \/ At(w, "release") /\ resv' = NoResv /\ resv'.state = "none"
          \/ /\ resv'.state = "cleanup_pending" /\ resv'.owner = resv.owner
             /\ resv'.id = resv.id /\ resv'.value = resv.value
  <2>1. CASE resv' = NoResv
    BY <1>9, <2>1 DEF NoResv, At
  <2>2. CASE resv' = [resv EXCEPT !.state = "cleanup_pending"]
    BY <2>2 DEF TypeOK
  <2> QED
    BY <1>9, <2>1, <2>2
<1>11. TypeOK'
  BY <1>3, <1>4, <1>6, <1>10, AloneTyped DEF TypeOK
<1>12. Equipped' /\ OrdersDistinct' /\ Sole'
  BY <1>1, <1>4, <1>5, MovedWorkers, EndedWorkers DEF PC, Unordered, Planting
<1>13. Holding' /\ Reservation' /\ Values'
  <2>1. At(w, "release") => resv.value \notin zone
    BY <1>3 DEF Cleaning
  <2> QED
    BY <1>3, <1>4, <1>8, <1>10, <2>1 DEF Holding, Reservation, Values
<1>14. Cleaning'
  <2> SUFFICES ASSUME NEW v \in Workers
               PROVE  /\ worker'[v].pc \in {"prerelease", "prepend"} => FALSE
                      /\ worker'[v].pc \in {"order", "reserve"} => resv'.owner # Of(v)'
                      /\ worker'[v].pc \notin {"prerelease", "release"}
    BY DEF Cleaning, At
  <2>1. CASE v = w
    BY <1>5, <2>1 DEF Moved, Ended, IdleWorker
  <2>2. CASE v # w
    <3>1. worker'[v] = worker[v] /\ worker[v].pc \notin {"prerelease", "prepend"}
      BY <1>3, <1>6, <2>2 DEF Alone, Cleaning
    <3>2. worker[v].pc # "release"
      BY <1>7, <2>2 DEF Planted, Equipped, Planting, At
    <3>3. worker[v].pc \in {"order", "reserve"} => Of(v) \in Certs /\ Of(v) # Of(w)
      BY <1>1, <2>2 DEF Sole, Owning, Past, Equipped, At
    <3>4. resv'.owner \in {Of(w), NoCert}
      BY <1>2, <1>10 DEF Holding, NoResv
    <3> QED
      BY <3>1, <3>2, <3>3, <3>4 DEF Of
  <2> QED
    BY <2>1, <2>2
<1>15. ChallengeIntact'
  BY <1>4, <1>5 DEF ChallengeIntact, Moved, Ended, Alone, IdleWorker
<1>16. Working' /\ Material' /\ OneServing'
  BY <1>4, <1>5, MovedRows, EndedRows DEF PC
<1> QED
  BY <1>11, <1>12, <1>13, <1>14, <1>15, <1>16

\* A worker dies: what it planted is lost.
LEMMA CrashInv ==
    ASSUME IInv, NEW w \in Workers, Crash(w)
    PROVE  IInv'
<1> USE DEF IInv, dnsVars, jobVars, histVars
<1>1. UNCHANGED <<rows, resv, zone, queued, keys, revoker, orders, dues, revoked>>
  BY DEF Crash
<1>2. used' \in 0..MaxFaults
  BY Spent DEF Crash
<1>3. Ended(w)
  BY EndEnds DEF Crash
<1>4. lost \subseteq lost' /\ lost' \subseteq 1..orders
  <2>1. lost \subseteq 1..orders /\ orders \in Nat
    BY DEF TypeOK
  <2>2. worker[w].order # 0 => worker[w].order \in 1..orders
    BY <2>1 DEF Equipped
  <2>3. lost' = IF worker[w].order = 0 THEN lost ELSE lost \union {worker[w].order}
    BY DEF Crash
  <2> QED
    BY <2>1, <2>2, <2>3
<1>5. Planted(w) => worker[w].order \in lost'
  BY DEF Crash, Equipped, Planted
<1>6. TypeOK'
  BY <1>1, <1>2, <1>3, <1>4, AloneTyped DEF TypeOK, Ended
<1>7. Equipped' /\ OrdersDistinct' /\ Sole'
  BY <1>1, <1>3, EndedWorkers
<1>8. Holding' /\ Cleaning' /\ Reservation' /\ Values' /\ ChallengeIntact'
  BY <1>1, <1>3, <1>4, <1>5, EndedDns
<1>9. Working' /\ Material' /\ OneServing'
  BY <1>1, <1>3, EndedRows
<1> QED
  BY <1>6, <1>7, <1>8, <1>9

-----------------------------------------------------------------------------
(* Deletions, operators and the passing of time.                           *)

\* Only failed rows are deleted, and no worker issues for one: a reservation
\* loses at most the owner that has failed.
LEMMA DeleteInv ==
    ASSUME IInv, NEW gone \in SUBSET Certs, Delete(gone),
           \A c \in gone : rows[c].status = "failed",
           worker' \in [Workers -> Worker],
           \A v \in Workers : \/ worker'[v] = worker[v]
                              \/ worker'[v] = IdleWorker /\ At(v, "supersede"),
           UNCHANGED <<zone, jobVars, revoker, orders, dues, used, histVars>>
    PROVE  IInv'
<1> USE DEF IInv, jobVars, histVars
<1>1. /\ rows' \in [Certs -> Row]
      /\ \A c \in Certs \ gone : rows'[c] = rows[c]
      /\ \A c \in gone : rows'[c].status = "deleted" /\ rows'[c].mat = "none"
  <2> DEFINE x == [NoRow EXCEPT !.status = "deleted"]
  <2>1. x \in Row /\ x.status = "deleted" /\ x.mat = "none"
    BY NothingTyped DEF NoRow, Row, Status
  <2>2. rows \in [Certs -> Row] /\ rows' = [c \in Certs |-> IF c \in gone THEN x ELSE rows[c]]
    BY DEF TypeOK, Delete
  <2> HIDE DEF x
  <2> QED
    BY <2>1, <2>2
<1>2. /\ resv' \in [state : {"none", "reserved", "cleanup_pending"},
                    owner : Certs \union {NoCert}, id : Nat, value : Nat]
      /\ resv'.state = resv.state /\ resv'.id = resv.id /\ resv'.value = resv.value
      /\ resv'.owner \in {resv.owner, NoCert}
      /\ resv.owner \notin gone => resv' = resv
  BY DEF Delete, TypeOK
<1>3. TypeOK'
  <2>1. \A v \in Workers : worker'[v].pc = "idle" <=> worker'[v] = IdleWorker
    BY DEF TypeOK, IdleWorker
  <2> QED
    BY <1>1, <1>2, <2>1 DEF TypeOK
<1>4. Equipped' /\ OrdersDistinct' /\ Sole'
  <2>1. Equipped'
    BY DEF Equipped, IdleWorker, At, Of, TypeOK, Unordered, Planting
  <2>2. OrdersDistinct'
    BY DEF OrdersDistinct, IdleWorker
  <2>3. Sole'
    BY DEF Sole, Owning, Past, Of, IdleWorker
  <2> QED
    BY <2>1, <2>2, <2>3
<1>5. \A v \in Workers : InFlight(v) => Of(v) \in Certs \ gone
  BY DEF Working, Equipped, InFlight, Past, At
<1>6. \A v \in Workers : /\ InFlight(v)' <=> InFlight(v)
                         /\ Planted(v)' <=> Planted(v)
                         /\ InFlight(v) \/ Planted(v) => worker'[v] = worker[v]
  BY DEF InFlight, Past, Planted, At, IdleWorker
<1>7. Holding'
  BY <1>2, <1>5, <1>6 DEF Holding, Of
<1>8. Cleaning'
  <2> SUFFICES ASSUME NEW v \in Workers, InFlight(v) \/ At(v, "release")
               PROVE  /\ worker'[v].pc \in {"prerelease", "prepend"} =>
                            resv'.state = "cleanup_pending" /\ resv'.owner = Of(v)'
                      /\ worker'[v].pc \in {"order", "reserve"} /\ resv'.owner = Of(v)' =>
                            resv'.state = "reserved"
                      /\ worker'[v].pc = "prerelease" => resv'.value \notin zone'
                      /\ worker'[v].pc = "release" => worker'[v].order \notin zone'
    BY DEF Cleaning, InFlight, Past, At, IdleWorker
  <2>1. worker'[v] = worker[v] /\ Of(v)' = Of(v)
    BY DEF InFlight, Past, At, Of
  <2>2. InFlight(v) => Of(v) \in Certs \ gone /\ Of(v) # NoCert
    BY <1>5
  <2>3. worker'[v].pc \in {"prerelease", "prepend", "order", "reserve"} => InFlight(v)
    BY <2>1 DEF InFlight, Past, At
  <2> QED
    BY <1>2, <2>1, <2>2, <2>3 DEF Cleaning, At
<1>9. Reservation' /\ Values'
  <2>1. resv.state = "none" => resv' = NoResv
    BY <1>2 DEF Reservation, NoResv, Delete
  <2> QED
    BY <1>2, <1>6, <2>1 DEF Reservation, Values
<1>10. ChallengeIntact'
  BY DEF ChallengeIntact, IdleWorker
<1>11. Working'
  BY <1>1, <1>5, <1>6 DEF Working, Of
<1>12. Material'
  <2>1. \A c \in gone : ~Valid(rows[c]) /\ ~Valid(rows'[c])
    BY <1>1 DEF Material, Valid, HasValidMaterial
  <2>2. revoker.cert \in Certs \union {NoCert}
    BY DEF TypeOK
  <2>3. revoker.cert # NoCert /\ Valid(revoker.object) => Valid(rows'[revoker.cert])
    BY <1>1, <2>1, <2>2 DEF Material
  <2>4. \A c \in Certs :
           Valid(rows'[c]) => rows'[c].status \in {"issuing", "active", "revoked"}
    BY <1>1, <2>1 DEF Material
  <2>5. \A v \in Workers : InFlight(v)' =>
           /\ worker'[v] = worker[v] /\ Of(v)' = Of(v) /\ rows'[Of(v)] = rows[Of(v)]
           /\ InFlight(v)
    BY <1>1, <1>5, <1>6 DEF Of
  <2> QED
    BY <2>3, <2>4, <2>5 DEF Material, Valid, HasValidMaterial
<1>13. OneServing'
  BY <1>1 DEF OneServing, Serving
<1> QED
  BY <1>3, <1>4, <1>7, <1>8, <1>9, <1>10, <1>11, <1>12, <1>13

\* Failed rows of the names that have been issued.
LEMMA SupersedeInv ==
    ASSUME IInv, NEW w \in Workers, Supersede(w)
    PROVE  IInv'
<1> DEFINE gone == {c \in Certs \ {Of(w)} : rows[c].status = "failed"
                                            /\ rows[c].names = worker[w].object.names}
<1>1. Delete(gone) /\ At(w, "supersede")
  BY DEF Supersede
<1>2. Ended(w)
  BY EndEnds DEF Supersede, IInv
<1> QED
  BY <1>1, <1>2, DeleteInv DEF Supersede, Ended, Alone

\* Failed rows an operator removes.
LEMMA RemoveFailedInv ==
    ASSUME IInv, NEW c \in Certs, RemoveFailed(c)
    PROVE  IInv'
  BY DeleteInv DEF RemoveFailed, IInv, TypeOK

\* A revocation loads the row, and saves it as it was, but revoked.
LEMMA RevokeLoadInv ==
    ASSUME IInv, NEW c \in Certs, RevokeLoad(c)
    PROVE  IInv'
<1> USE DEF IInv, dnsVars, jobVars, histVars
<1>1. UNCHANGED <<rows, resv, zone, queued, keys, worker, orders, dues, lost>>
  BY DEF RevokeLoad
<1>2. /\ revoker'.cert = c /\ revoker'.object = rows[c] /\ revoked' = revoked \union {c}
      /\ revoker' \in [cert : Certs \union {NoCert}, object : Row]
  BY DEF RevokeLoad, TypeOK
<1>3. used' \in 0..MaxFaults
  BY Spent DEF RevokeLoad
<1>4. TypeOK'
  BY <1>1, <1>2, <1>3 DEF TypeOK
<1>5. Working'
  BY <1>1, <1>2 DEF Working, InFlight, Past, Of
<1>6. Material'
  BY <1>1, <1>2 DEF Material, InFlight, Past, Of, Valid, HasValidMaterial
<1>7. OneServing'
  BY <1>1, <1>2 DEF OneServing, Serving
<1> QED
  BY <1>1, <1>4, <1>5, <1>6, <1>7, RowsInv

\* The save of a revocation puts back the row as it was loaded, but revoked.
LEMMA RevokeSaveInv ==
    ASSUME IInv, RevokeSave
    PROVE  IInv'
<1> USE DEF IInv, dnsVars, jobVars, histVars
<1> DEFINE c == revoker.cert
           n == rows[c].mod + 1
           x == [revoker.object EXCEPT !.status = "revoked", !.mod = n, !.stale = FALSE]
<1>1. c \in Certs /\ revoker.object \in Row /\ c \in revoked
  BY DEF RevokeSave, TypeOK, Working
<1>2. n \in Nat
  <2>1. rows[c] \in Row
    BY <1>1 DEF TypeOK
  <2> QED
    BY <2>1 DEF Row
<1>3. rows' = [rows EXCEPT ![c] = x]
  BY DEF RevokeSave
<1> HIDE DEF n
<1>4. x \in Row /\ x.status = "revoked" /\ x.mat = revoker.object.mat
  BY <1>1, <1>2 DEF Row, Status
<1> HIDE DEF x
<1>5. Saved(c, x)
  BY <1>1, <1>3, <1>4, SaveSaves
<1>6. UNCHANGED <<resv, zone, queued, keys, worker, orders, dues, used, revoked, lost>>
  BY DEF RevokeSave
<1>7. revoker'.cert = NoCert /\ revoker' \in [cert : Certs \union {NoCert}, object : Row]
  BY NothingTyped DEF RevokeSave, NoRevoker
<1>8. TypeOK'
  BY <1>5, <1>6, <1>7 DEF TypeOK, Saved
<1>9. Working'
  <2> SUFFICES ASSUME NEW w \in Workers, InFlight(w)
               PROVE  LET row == rows'[Of(w)] IN
                      /\ worker[w].object.status = "issuing"
                      /\ row.status \in {"issuing", "revoked"}
                      /\ Of(w) \notin revoked =>
                            row.status = "issuing" /\ row.names = worker[w].object.names
    BY <1>6, <1>7 DEF Working, InFlight, Past, Of
  <2>1. Of(w) \in Certs
    BY DEF Equipped, InFlight, Past, At
  <2>2. CASE Of(w) = c
    BY <1>1, <1>4, <1>5, <2>2 DEF Saved, Working
  <2>3. CASE Of(w) # c
    BY <1>5, <2>1, <2>3 DEF Saved, Working
  <2> QED
    BY <2>2, <2>3
<1>10. Material'
  <2>1. Valid(x) <=> Valid(revoker.object)
    BY <1>4 DEF Valid, HasValidMaterial
  <2>2. \A w \in Workers : InFlight(w) =>
           /\ Valid(rows'[Of(w)]) => Valid(worker[w].object)
           /\ Valid(worker[w].object) => worker[w].renewing
    <3> SUFFICES ASSUME NEW w \in Workers, InFlight(w)
                 PROVE  /\ Valid(rows'[Of(w)]) => Valid(worker[w].object)
                        /\ Valid(worker[w].object) => worker[w].renewing
      OBVIOUS
    <3>1. Of(w) \in Certs
      BY DEF Equipped, InFlight, Past, At
    <3>2. CASE Of(w) = c
      BY <1>5, <2>1, <3>2 DEF Saved, Material
    <3>3. CASE Of(w) # c
      BY <1>5, <3>1, <3>3 DEF Saved, Material
    <3> QED
      BY <3>2, <3>3
  <2>3. \A d \in Certs :
           Valid(rows'[d]) => rows'[d].status \in {"issuing", "active", "revoked"}
    BY <1>4, <1>5 DEF Saved, Material
  <2>4. \A w \in Workers : (InFlight(w)' <=> InFlight(w)) /\ Of(w)' = Of(w)
    BY <1>6 DEF InFlight, Past, Of
  <2>5. \A w \in Workers : InFlight(w) => Of(w) # NoCert
    BY DEF Equipped, InFlight, Past, At
  <2> QED
    BY <1>6, <1>7, <2>2, <2>3, <2>4, <2>5 DEF Material, Valid, HasValidMaterial
<1>11. OneServing'
  BY <1>1, <1>4, <1>5, <1>6, ServingKept
<1> QED
  BY <1>6, <1>8, <1>9, <1>10, <1>11, RowsInv

\* An operator edits the record while nobody has reserved it.
LEMMA HumanEditInv ==
    ASSUME IInv, HumanEdit
    PROVE  IInv'
<1> USE DEF IInv, dnsVars, jobVars, histVars
<1>1. UNCHANGED <<rows, resv, queued, keys, worker, revoker, orders, dues, used, revoked,
                  lost>>
  BY DEF HumanEdit
<1>2. resv.state = "none" /\ zone' \subseteq {Human}
  BY DEF HumanEdit
<1>3. \A w \in Workers : ~Planted(w)
  BY <1>2 DEF Holding
<1>4. TypeOK'
  BY <1>1, <1>2 DEF TypeOK
<1>5. Equipped' /\ OrdersDistinct' /\ Sole'
  BY <1>1, WorkersStay
<1>6. Holding' /\ Reservation' /\ Values'
  BY <1>1, <1>2 DEF Holding, Planted, Reservation, Values, At, Of, InFlight, Past
<1>7. \A w \in Workers : worker[w].pc \notin {"wait", "answer", "release", "prerelease"}
  BY <1>2, <1>3 DEF Planted, Equipped, Planting, At, Cleaning
<1>8. Cleaning' /\ ChallengeIntact'
  BY <1>1, <1>7 DEF Cleaning, ChallengeIntact, At, Of
<1>9. Working' /\ Material' /\ OneServing'
  BY <1>1, RowsStay
<1> QED
  BY <1>4, <1>5, <1>6, <1>8, <1>9

\* A flag of a row is set.
LEMMA FlagInv ==
    ASSUME IInv, NEW c \in Certs, NEW x \in Row, Saved(c, x),
           x.status = rows[c].status, x.names = rows[c].names, x.mat = rows[c].mat,
           dues' \in 0..MaxDue,
           UNCHANGED <<dnsVars, jobVars, worker, revoker, orders, used, histVars>>
    PROVE  IInv'
<1> USE DEF IInv, dnsVars, jobVars, histVars
<1>1. TypeOK'
  BY DEF TypeOK, Saved
<1>2. \A d \in Certs : /\ rows'[d].status = rows[d].status /\ rows'[d].names = rows[d].names
                       /\ rows'[d].mat = rows[d].mat
  BY DEF Saved
<1>3. \A w \in Workers : InFlight(w) => Of(w) \in Certs
  BY DEF Equipped, InFlight, Past, At
<1>4. \A w \in Workers : (InFlight(w)' <=> InFlight(w)) /\ Of(w)' = Of(w)
  BY DEF InFlight, Past, Of
<1>5. Working'
  BY <1>2, <1>3, <1>4 DEF Working
<1>6. Material'
  <2>1. revoker.cert \in Certs \union {NoCert}
    BY DEF TypeOK
  <2> QED
    BY <1>2, <1>3, <1>4, <2>1 DEF Material, Valid, HasValidMaterial
<1>7. OneServing'
  BY <1>2 DEF OneServing, Serving
<1> QED
  BY <1>1, <1>5, <1>6, <1>7, RowsInv

\* renew_after passes, or issuing_stale_seconds do.
LEMMA ClockInv ==
    ASSUME IInv, NEW c \in Certs, BecomesDue(c) \/ BecomesStale(c)
    PROVE  IInv'
<1> DEFINE y == [rows[c] EXCEPT !.due = TRUE]
           z == [rows[c] EXCEPT !.stale = TRUE]
<1>1. rows[c] \in Row
  BY DEF IInv, TypeOK
<1>2. /\ y \in Row /\ y.status = rows[c].status /\ y.names = rows[c].names
      /\ y.mat = rows[c].mat
      /\ z \in Row /\ z.status = rows[c].status /\ z.names = rows[c].names
      /\ z.mat = rows[c].mat
  BY <1>1 DEF Row
<1>3. CASE BecomesDue(c)
  <2>1. rows' = [rows EXCEPT ![c] = y]
    BY <1>3 DEF BecomesDue
  <2> HIDE DEF y
  <2>2. Saved(c, y)
    BY <1>2, <2>1, SaveSaves DEF IInv
  <2>3. dues' \in 0..MaxDue
    BY <1>3 DEF BecomesDue, IInv, TypeOK
  <2> QED
    BY <1>2, <1>3, <2>2, <2>3, FlagInv DEF BecomesDue
<1>4. CASE BecomesStale(c)
  <2>1. rows' = [rows EXCEPT ![c] = z]
    BY <1>4 DEF BecomesStale
  <2> HIDE DEF z
  <2>2. Saved(c, z)
    BY <1>2, <2>1, SaveSaves DEF IInv
  <2>3. dues' \in 0..MaxDue
    BY <1>4 DEF BecomesStale, IInv, TypeOK
  <2> QED
    BY <1>2, <1>4, <2>2, <2>3, FlagInv DEF BecomesStale
<1> QED
  BY <1>3, <1>4

\* Material that has expired is the same row.
LEMMA ExpiredRow ==
    ASSUME NEW row \in Row
    PROVE  /\ Expired(row) \in Row /\ ~Valid(Expired(row))
           /\ Expired(row).status = row.status /\ Expired(row).names = row.names
  BY DEF Expired, Row, Valid, HasValidMaterial

\* not_after passes for every copy of the material at once.
LEMMA LapseInv ==
    ASSUME IInv, NEW c \in Certs, Lapse(c)
    PROVE  IInv'
<1> USE DEF IInv, dnsVars, jobVars, histVars
<1>1. UNCHANGED <<resv, zone, queued, keys, orders, dues, revoked, lost>>
  BY DEF Lapse
<1>2. used' \in 0..MaxFaults
  BY Spent DEF Lapse
<1>3. rows \in [Certs -> Row] /\ rows' = [rows EXCEPT ![c] = Expired(rows[c])]
  BY DEF Lapse, TypeOK
<1>4. Saved(c, Expired(rows[c])) /\ Expired(rows[c]) \in Row
  BY <1>3, ExpiredRow, SaveSaves
<1>5. /\ rows'[c].status = rows[c].status /\ rows'[c].names = rows[c].names
      /\ ~Valid(rows'[c])
  BY <1>3, <1>4, ExpiredRow DEF Saved
<1>6. \A v \in Workers :
         /\ worker'[v] \in Worker
         /\ worker'[v].pc = worker[v].pc /\ worker'[v].cert = worker[v].cert
         /\ worker'[v].order = worker[v].order /\ worker'[v].rid = worker[v].rid
         /\ worker'[v].renewing = worker[v].renewing
         /\ worker'[v].object.status = worker[v].object.status
         /\ worker'[v].object.names = worker[v].object.names
         /\ Of(v) # c => worker'[v] = worker[v]
         /\ Of(v) = c => worker'[v].object = Expired(worker[v].object)
  <2> SUFFICES ASSUME NEW v \in Workers
               PROVE  /\ worker'[v] \in Worker
                      /\ worker'[v].pc = worker[v].pc /\ worker'[v].cert = worker[v].cert
                      /\ worker'[v].order = worker[v].order /\ worker'[v].rid = worker[v].rid
                      /\ worker'[v].renewing = worker[v].renewing
                      /\ worker'[v].object.status = worker[v].object.status
                      /\ worker'[v].object.names = worker[v].object.names
                      /\ Of(v) # c => worker'[v] = worker[v]
                      /\ Of(v) = c => worker'[v].object = Expired(worker[v].object)
    OBVIOUS
  <2>1. worker[v] \in Worker
    BY DEF TypeOK
  <2>2. worker[v].object \in Row
    BY <2>1 DEF Worker
  <2>3. CASE Of(v) # c
    BY <2>1, <2>3 DEF Lapse
  <2>4. CASE Of(v) = c
    <3> DEFINE x == Expired(worker[v].object)
               y == [worker[v] EXCEPT !.object = x]
    <3>1. worker'[v] = y
      BY <2>4 DEF Lapse
    <3>2. x \in Row /\ x.status = worker[v].object.status /\ x.names = worker[v].object.names
      BY <2>2, ExpiredRow
    <3> HIDE DEF x
    <3>3. /\ y \in Worker /\ y.pc = worker[v].pc /\ y.cert = worker[v].cert
          /\ y.order = worker[v].order /\ y.rid = worker[v].rid
          /\ y.renewing = worker[v].renewing /\ y.object = x
      BY <2>1, <3>2 DEF Worker
    <3> QED
      BY <2>4, <3>1, <3>2, <3>3 DEF x
  <2> QED
    BY <2>3, <2>4
<1>7. worker' \in [Workers -> Worker]
  <2>1. worker' = [v \in Workers |-> worker'[v]]
    BY DEF Lapse
  <2> QED
    BY <1>6, <2>1
<1>8. revoker' \in [cert : Certs \union {NoCert}, object : Row]
      /\ revoker'.cert = revoker.cert
      /\ (revoker.cert = c => ~Valid(revoker'.object))
      /\ (revoker.cert # c => revoker' = revoker)
  <2>1. revoker \in [cert : Certs \union {NoCert}, object : Row]
    BY DEF TypeOK
  <2> DEFINE x == Expired(revoker.object)
             y == [revoker EXCEPT !.object = x]
  <2>2. revoker' = IF revoker.cert = c THEN y ELSE revoker
    BY DEF Lapse
  <2>3. x \in Row /\ ~Valid(x)
    BY <2>1, ExpiredRow
  <2> HIDE DEF x
  <2>4. y \in [cert : Certs \union {NoCert}, object : Row] /\ y.cert = revoker.cert
        /\ y.object = x
    BY <2>1, <2>3
  <2> QED
    BY <2>1, <2>2, <2>3, <2>4
<1>9. TypeOK'
  <2>1. \A v \in Workers : worker'[v].pc = "idle" <=> worker'[v] = IdleWorker
    <3>1. \A v \in Workers : worker[v].pc = "idle" => Of(v) # c
      BY DEF TypeOK, IdleWorker, Of
    <3>2. \A v \in Workers : worker[v].pc = "idle" <=> worker[v] = IdleWorker
      BY DEF TypeOK
    <3>3. IdleWorker.pc = "idle"
      BY DEF IdleWorker
    <3> QED
      BY <1>6, <3>1, <3>2, <3>3
  <2> QED
    BY <1>1, <1>2, <1>4, <1>7, <1>8, <2>1 DEF TypeOK, Saved
<1>10. Equipped' /\ OrdersDistinct' /\ Sole'
  BY <1>1, <1>6 DEF Equipped, OrdersDistinct, Sole, Owning, Past, At, Of, Unordered, Planting
<1>11. \A v \in Workers : /\ InFlight(v)' <=> InFlight(v)
                          /\ Planted(v)' <=> Planted(v)
                          /\ Of(v)' = Of(v)
  BY <1>6 DEF InFlight, Past, Planted, At, Of
<1>12. Holding' /\ Cleaning'
  BY <1>1, <1>6, <1>11 DEF Holding, Cleaning, At
<1>13. Reservation' /\ Values' /\ ChallengeIntact'
  BY <1>1, <1>6, <1>11 DEF Reservation, Values, ChallengeIntact
<1>14. \A v \in Workers : InFlight(v) => Of(v) \in Certs
  BY DEF Equipped, InFlight, Past, At
<1>15. Working'
  BY <1>1, <1>4, <1>5, <1>6, <1>8, <1>11, <1>14 DEF Working, Saved
<1>16. Material'
  <2>1. \A v \in Workers : InFlight(v) =>
           /\ Valid(rows'[Of(v)]) => Valid(worker'[v].object)
           /\ revoker.cert = Of(v) /\ Valid(revoker'.object) => Valid(worker'[v].object)
           /\ Valid(worker'[v].object) => worker'[v].renewing
    <3> SUFFICES ASSUME NEW v \in Workers, InFlight(v)
                 PROVE  /\ Valid(rows'[Of(v)]) => Valid(worker'[v].object)
                        /\ revoker.cert = Of(v) /\ Valid(revoker'.object)
                              => Valid(worker'[v].object)
                        /\ Valid(worker'[v].object) => worker'[v].renewing
      OBVIOUS
    <3>1. CASE Of(v) # c
      BY <1>4, <1>6, <1>8, <1>14, <3>1 DEF Material, Saved
    <3>2. CASE Of(v) = c
      <4>1. worker[v] \in Worker
        BY DEF TypeOK
      <4>2. worker[v].object \in Row
        BY <4>1 DEF Worker
      <4>3. worker'[v].object = Expired(worker[v].object)
        BY <1>6, <3>2
      <4> QED
        BY <1>5, <1>8, <3>2, <4>2, <4>3, ExpiredRow
    <3> QED
      BY <3>1, <3>2
  <2>2. revoker.cert # NoCert /\ Valid(revoker'.object) => Valid(rows'[revoker.cert])
    <3>1. revoker.cert \in Certs \union {NoCert}
      BY DEF TypeOK
    <3> QED
      BY <1>4, <1>8, <3>1 DEF Material, Saved
  <2>3. \A d \in Certs :
           Valid(rows'[d]) => rows'[d].status \in {"issuing", "active", "revoked"}
    BY <1>4, <1>5 DEF Material, Saved
  <2> QED
    BY <1>8, <1>11, <2>1, <2>2, <2>3 DEF Material, Valid, HasValidMaterial
<1>17. OneServing'
  BY <1>1, <1>4, <1>5 DEF OneServing, Serving, Saved
<1> QED
  BY <1>9, <1>10, <1>12, <1>13, <1>15, <1>16, <1>17

-----------------------------------------------------------------------------
(* The theorems.                                                           *)

\* Every step preserves the invariant.
LEMMA StepInv == IInv /\ [Next]_vars => IInv'
<1> SUFFICES ASSUME IInv, [Next]_vars PROVE IInv'
  OBVIOUS
<1>1. CASE UNCHANGED vars
  BY <1>1, StutterInv
<1>2. ASSUME NEW n \in Names, Request(n) PROVE IInv'
  BY <1>2, RequestInv
<1>3. ASSUME NEW w \in Workers, Job(w) PROVE IInv'
  <2>1. CASE Take(w) \/ Rerun(w)
    BY <2>1, StartInv
  <2>2. CASE Lock(w) \/ Claim(w) \/ Preclean(w) \/ PrecleanSave(w)
    BY <2>2, LockInv, ClaimInv, PrecleanInv, PrecleanSaveInv
  <2>3. CASE NewOrder(w) \/ Reserve(w) \/ Upsert(w) \/ Wait(w) \/ Answer(w)
    BY <2>3, NewOrderInv, ReserveInv, UpsertInv, WaitInv
  <2>4. CASE Finalize(w) \/ Fail(w)
    BY <2>4, FinalizeInv, FailInv
  <2>5. CASE Clear(w) \/ ClearSave(w) \/ Supersede(w) \/ Crash(w)
    BY <2>5, ClearInv, ClearSaveInv, SupersedeInv, CrashInv
  <2> QED
    BY <1>3, <2>1, <2>2, <2>3, <2>4, <2>5 DEF Job, Issue
<1>4. ASSUME NEW c \in Certs, Scan(c) \/ Time(c) PROVE IInv'
  BY <1>4, ScanInv, ClockInv, LapseInv DEF Time
<1>5. CASE Prune
  BY <1>5, PruneInv
<1>6. CASE Operator
  BY <1>6, HumanEditInv, RevokeSaveInv, RemoveFailedInv, RevokeLoadInv DEF Operator
<1> QED
  BY <1>1, <1>2, <1>3, <1>4, <1>5, <1>6 DEF Next

\* Rows, reservation, record and workers are what they should be in every
\* state the code can reach.
THEOREM Invariant == Spec => []IInv
  BY InitInv, StepInv, PTL DEF Spec

\* Every variable has its type: no reservation is saved under an order that
\* was not made, and a worker at rest has nothing at hand.
THEOREM TypeCorrect == Spec => []TypeOK
<1>1. IInv => TypeOK
  BY DEF IInv
<1> QED
  BY <1>1, Invariant, PTL

\* The advisory lock and the issuing status together: one worker at a time
\* issues for a certificate, whatever crashes, retries and scans do.
THEOREM OneIssuerHolds == Spec => []OneIssuer
<1>1. IInv => OneIssuer
  <2> SUFFICES ASSUME IInv, NEW w \in Workers, InFlight(w)
               PROVE  /\ Owners(Of(w)) = {w}
                      /\ Of(w) \notin revoked => rows[Of(w)].status = "issuing"
    BY DEF OneIssuer
  <2>1. Owning(w)
    BY DEF InFlight, Past, Owning
  <2>2. Owners(Of(w)) = {w}
    BY <2>1 DEF Owners, Owning, Past, Of, IInv, Sole
  <2> QED
    BY <2>2 DEF IInv, Working
<1> QED
  BY <1>1, Invariant, PTL

\* The reservation: from the upsert to the CA's look nobody touches the values
\* a worker planted.
THEOREM ChallengeHolds == Spec => []ChallengeIntact
<1>1. IInv => ChallengeIntact
  BY DEF IInv
<1> QED
  BY <1>1, Invariant, PTL

\* cleanup_challenges, in the finally clause, and cleanup_for_certificate: what
\* no reservation accounts for was left by a worker that died.
THEOREM LeftoversHold == Spec => []LeftoverOwned
<1>1. IInv => LeftoverOwned
  BY DEF IInv, Values, LeftoverOwned
<1> QED
  BY <1>1, Invariant, PTL

\* request_certificate, under the lock of the Domain row: no two rows serve
\* the same names.
THEOREM OneRowHolds == Spec => []OneRowPerNames
<1>1. IInv => OneRowPerNames
  <2> SUFFICES ASSUME IInv, NEW n \in Names
               PROVE  Cardinality(Candidates(n) \ revoked) <= 1
    BY DEF OneRowPerNames
  <2> DEFINE S == Candidates(n) \ revoked
  <2>1. \A c, d \in S : c = d
    BY DEF Candidates, OfNames, Serving, IInv, OneServing
  <2>2. CASE S = {}
    BY <2>2, FS_EmptySet
  <2>3. CASE S # {}
    <3>1. PICK c \in S : TRUE
      BY <2>3
    <3>2. S = {c}
      BY <2>1, <3>1
    <3> QED
      BY <3>2, FS_Singleton
  <2> QED
    BY <2>2, <2>3
<1> QED
  BY <1>1, Invariant, PTL

\* No step fails a row whose material is valid.
KeepsValid ==
    \A c \in Certs : HasValidMaterial(rows[c]) /\ rows[c].status # "failed"
                        => rows'[c].status # "failed"

\* Only the failure handler fails rows, and it looks at their material.
LEMMA StepKeepsValid == IInv /\ [Next]_vars => KeepsValid
<1> SUFFICES ASSUME IInv, [Next]_vars, NEW c \in Certs, Valid(rows[c]),
                    rows[c].status # "failed"
             PROVE  rows'[c].status # "failed"
  BY DEF KeepsValid, Valid
<1>1. rows \in [Certs -> Row] /\ rows[c] \in Row
  BY DEF IInv, TypeOK
<1>2. CASE rows' = rows
  BY <1>2
<1>3. ASSUME NEW n \in Names, Request(n) PROVE rows'[c].status # "failed"
  BY <1>1, <1>3 DEF Request, Row
<1>4. ASSUME NEW w \in Workers, Claim(w) PROVE rows'[c].status # "failed"
  <2>1. PICK x : /\ rows' = rows \/ rows' = [rows EXCEPT ![Of(w)] = x]
                 /\ Of(w) \in Certs => x.status = "issuing"
    <3> DEFINE x == [rows[Of(w)] EXCEPT !.status = "issuing", !.mod = @ + 1, !.stale = FALSE]
    <3>1. Of(w) \in Certs => x.status = "issuing"
      BY <1>1 DEF Row
    <3>2. rows' = rows \/ rows' = [rows EXCEPT ![Of(w)] = x]
      BY <1>4 DEF Claim, Claimed
    <3> QED
      BY <3>1, <3>2
  <2> QED
    BY <1>1, <2>1
<1>5. ASSUME NEW w \in Workers, NEW row \in Row, SaveObject(w, row), Of(w) \in Certs,
             row.status # "failed"
      PROVE  rows'[c].status # "failed"
  BY <1>5, SaveObjectSaves DEF IInv, Saved
<1>6. ASSUME NEW w \in Workers, NewOrder(w) PROVE rows'[c].status # "failed"
  <2>1. worker[w] \in Worker /\ Of(w) \in Certs /\ worker[w].object.status = "issuing"
    BY <1>6 DEF NewOrder, IInv, TypeOK, Equipped, Working, InFlight, Past, At
  <2>2. rows' = rows \/ SaveObject(w, worker[w].object)
    BY <1>6 DEF NewOrder
  <2> QED
    BY <1>2, <1>5, <2>1, <2>2 DEF Worker
<1>7. ASSUME NEW w \in Workers, Finalize(w) PROVE rows'[c].status # "failed"
  <2> DEFINE n == rows[Of(w)].mark + 1
             y == [worker[w].object EXCEPT !.status = "active",
                          !.mat = "valid", !.due = FALSE, !.mark = n]
  <2>1. worker[w] \in Worker /\ Of(w) \in Certs
    BY <1>7 DEF Finalize, IInv, TypeOK, Equipped, At
  <2>2. rows[Of(w)] \in Row /\ worker[w].object \in Row
    BY <1>1, <2>1 DEF Worker
  <2>3. n \in Nat
    BY <2>2 DEF Row
  <2>4. rows' = rows \/ SaveObject(w, y)
    BY <1>7 DEF Finalize
  <2> HIDE DEF n
  <2>5. y \in Row /\ y.status = "active"
    BY <2>2, <2>3 DEF Row, Status
  <2> QED
    BY <1>2, <1>5, <2>1, <2>4, <2>5
<1>8. ASSUME NEW w \in Workers, Fail(w) PROVE rows'[c].status # "failed"
  <2>1. PICK x \in Row :
           /\ Saved(Of(w), x) /\ x.names = rows[Of(w)].names /\ x.mat = rows[Of(w)].mat
           /\ IF worker[w].renewing /\ Valid(rows[Of(w)]) THEN x.status = "active"
              ELSE x.status = "failed"
    BY <1>8, FailSaves
  <2>2. Valid(rows[Of(w)]) => worker[w].renewing
    BY <1>8 DEF Fail, IInv, Material, InFlight, Past, At
  <2>3. CASE c = Of(w)
    BY <2>1, <2>2, <2>3 DEF Saved
  <2>4. CASE c # Of(w)
    BY <2>1, <2>4 DEF Saved
  <2> QED
    BY <2>3, <2>4
<1>9. ASSUME NEW gone, Delete(gone) PROVE rows'[c].status # "failed"
  BY <1>9 DEF Delete, NoRow
<1>10. ASSUME RevokeSave PROVE rows'[c].status # "failed"
  <2> DEFINE x == [revoker.object EXCEPT !.status = "revoked",
                                         !.mod = rows[revoker.cert].mod + 1, !.stale = FALSE]
  <2>1. revoker.object \in Row
    BY DEF IInv, TypeOK
  <2>2. x.status = "revoked"
    BY <2>1 DEF Row
  <2>3. rows' = [rows EXCEPT ![revoker.cert] = x]
    BY <1>10 DEF RevokeSave
  <2> HIDE DEF x
  <2> QED
    BY <1>1, <2>2, <2>3
<1>11. ASSUME NEW d \in Certs, BecomesDue(d) \/ BecomesStale(d)
       PROVE  rows'[c].status # "failed"
  BY <1>1, <1>11 DEF BecomesDue, BecomesStale, Row
<1>12. ASSUME NEW d \in Certs, Lapse(d) PROVE rows'[c].status # "failed"
  <2>1. rows' = [rows EXCEPT ![d] = Expired(rows[d])]
    BY <1>12 DEF Lapse
  <2> QED
    BY <1>1, <2>1, ExpiredRow
<1>13. ASSUME NEW w \in Workers, Job(w) PROVE rows'[c].status # "failed"
  <2>1. CASE Take(w) \/ Rerun(w) \/ Lock(w) \/ Preclean(w) \/ PrecleanSave(w)
    BY <2>1, <1>2 DEF Take, Rerun, Lock, Preclean, PrecleanSave
  <2>2. CASE Reserve(w) \/ Upsert(w) \/ Wait(w) \/ Answer(w) \/ Clear(w) \/ ClearSave(w)
             \/ Crash(w)
    BY <2>2, <1>2 DEF Reserve, Upsert, Wait, Answer, Clear, ClearSave, Crash
  <2>3. CASE Supersede(w)
    BY <2>3, <1>9 DEF Supersede
  <2> QED
    BY <1>4, <1>6, <1>7, <1>8, <1>13, <2>1, <2>2, <2>3 DEF Job, Issue
<1>14. CASE UNCHANGED vars
  BY <1>2, <1>14 DEF vars
<1>15. ASSUME NEW d \in Certs, Scan(d) PROVE rows'[c].status # "failed"
  BY <1>2, <1>15 DEF Scan, RenewDue, RecoverStale
<1>16. CASE Prune
  BY <1>2, <1>16 DEF Prune
<1>17. CASE Operator
  BY <1>2, <1>9, <1>10, <1>17 DEF Operator, HumanEdit, RemoveFailed, RevokeLoad
<1> QED
  BY <1>3, <1>11, <1>12, <1>13, <1>14, <1>15, <1>16, <1>17 DEF Next, Time

\* _record_issue_failure and the claim of a stale row: a renewal that fails, or
\* dies and is recovered, never fails a row whose material is valid.
THEOREM ValidIsKept == Spec => ValidKept
<1>1. Spec => [][KeepsValid]_vars
  BY Invariant, StepKeepsValid, PTL DEF Spec
<1> QED
  BY <1>1, PTL DEF ValidKept, KeepsValid
=============================================================================
