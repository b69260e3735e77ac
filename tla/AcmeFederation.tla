---------------------------- MODULE AcmeFederation ----------------------------
(***************************************************************************)
(* A downstream installation that issues over the hub: certs.py with       *)
(* acme_hub_client.py on one side of the network, AcmeHub on the other.    *)
(* One issuance is modelled at a time.  The code locks the certificate, so *)
(* a new one of the same names, asked for once the last was saved as       *)
(* failed, may begin while that one's worker still withdraws: its request  *)
(* is here that of a client that died, and what is left out is that it     *)
(* clears the intent too, where the intent is still its reference.  A      *)
(* request the client stopped waiting for may arrive as late as it likes.  *)
(***************************************************************************)
EXTENDS AcmeHub

VARIABLES
    intent,    (* AcmeDelegation.cleanup_challenge_ref *)
    issued,    (* the refs that were drawn *)
    client,    (* where the issuance stands *)
    acked      (* history: the refs whose withdrawal the hub has confirmed *)

clientVars == <<intent, issued, client, acked>>
vars == <<hubVars, clientVars>>

\* waits: the session that serves the request the client waits for; tries: how
\* often it was sent.
Client == [pc : {"idle", "cleaning", "order", "intended", "publishing", "seen", "answered",
                 "leaving", "withdrawing"},
           ref : Refs \union {NoRef}, waits : Sessions \union {NoSession}, tries : 0..2]
NoIssuance == [pc |-> "idle", ref |-> NoRef, waits |-> NoSession, tries |-> 0]

TypeOK ==
    /\ HubTypeOK
    /\ intent \in Refs \union {NoRef}
    /\ issued \subseteq Refs /\ acked \subseteq issued /\ Stored \subseteq issued
    /\ client \in Client

Init ==
    /\ HubInit
    /\ intent = NoRef /\ issued = {} /\ acked = {}
    /\ client = NoIssuance

-----------------------------------------------------------------------------
(* acme_hub_client._post.                                                  *)

Request(s, op, r) ==
    /\ At(s, "free")
    /\ session' = [session EXCEPT ![s] = [Free EXCEPT !.pc = "sent", !.op = op, !.ref = r]]

\* The first attempt of a call, from which the client waits at pc.
Call(op, r, pc) ==
    /\ \E s \in Sessions :
          /\ Request(s, op, r)
          /\ client' = [client EXCEPT !.pc = pc, !.waits = s, !.tries = 1]
    /\ UNCHANGED <<lease, record, lock, used, intent, issued, acked>>

Waiting == client.waits # NoSession
Reply == session[client.waits].result
Replied == Waiting /\ At(client.waits, "reply")

\* What the client reads it takes off the session.
Consumed == [session EXCEPT ![client.waits] = Free]

\* A transport error or a 503 is tried once more.
Again(sessions) ==
    /\ client.tries = 1
    /\ \E s \in Sessions :
          /\ sessions[s].pc = "free"
          /\ session' = [sessions EXCEPT ![s] = [Free EXCEPT !.pc = "sent",
                !.op = IF client.pc = "publishing" THEN "publish" ELSE "withdraw",
                !.ref = IF client.pc = "cleaning" THEN intent ELSE client.ref]]
          /\ client' = [client EXCEPT !.waits = s, !.tries = 2]

Retry ==
    /\ Replied /\ Reply = "unavailable"
    /\ Again(Consumed)
    /\ UNCHANGED <<lease, record, lock, used, intent, issued, acked>>

Failed == IF client.pc = "publishing" THEN [client EXCEPT !.pc = "leaving", !.waits = NoSession]
          ELSE NoIssuance

\* The read times out; the request goes on, and nobody reads its reply.
TimesOut ==
    /\ Waiting
    /\ Spend("timeout")
    /\ \/ Again(session)
       \/ client.tries = 2 /\ client' = Failed /\ UNCHANGED session
    /\ UNCHANGED <<lease, record, lock, intent, issued, acked>>

\* An error reply that is not tried again.
CallFails ==
    /\ Replied
    /\ Reply = "refused" \/ (Reply = "unavailable" /\ client.tries = 2)
    /\ session' = Consumed
    /\ client' = Failed
    /\ UNCHANGED <<lease, record, lock, used, intent, issued, acked>>

-----------------------------------------------------------------------------
(* certs._issue_locked for a delegated domain.                             *)

\* Mutant: an intent that is left over is nobody's business.
BeginAnyway ==
    /\ client = NoIssuance
    /\ issued # Refs
    /\ client' = [client EXCEPT !.pc = "order"]
    /\ UNCHANGED <<hubVars, intent, issued, acked>>

\* _withdraw_pending_delegated_cleanup comes before the CA order.
Begin ==
    /\ client = NoIssuance
    /\ issued # Refs
    /\ IF intent # NoRef
       THEN Call("withdraw", intent, "cleaning")
       ELSE /\ client' = [client EXCEPT !.pc = "order"]
            /\ UNCHANGED <<hubVars, intent, issued, acked>>

\* The intent is forgotten where it is still this one.
Forget(r) ==
    /\ intent' = IF intent = r THEN NoRef ELSE intent
    /\ acked' = acked \union {r}

Cleaned ==
    /\ client.pc = "cleaning" /\ Replied /\ Reply = "ok"
    /\ session' = Consumed
    /\ Forget(intent)
    /\ client' = [client EXCEPT !.pc = "order", !.waits = NoSession]
    /\ UNCHANGED <<lease, record, lock, used, issued>>

\* "Commit cleanup intent before the ambiguous remote publish call."
Intend ==
    /\ client.pc = "order"
    /\ \E r \in Refs \ issued :
          /\ issued' = issued \union {r}
          /\ intent' = r
          /\ client' = [client EXCEPT !.pc = "intended", !.ref = r]
    /\ UNCHANGED <<hubVars, acked>>

PostPublish == client.pc = "intended" /\ Call("publish", client.ref, "publishing")

Published ==
    /\ client.pc = "publishing" /\ Replied /\ Reply = "ok"
    /\ session' = Consumed
    /\ client' = [client EXCEPT !.pc = "seen", !.waits = NoSession]
    /\ UNCHANGED <<lease, record, lock, used, intent, issued, acked>>

\* wait_for_txt on the target.
Visible ==
    /\ client.pc = "seen"
    /\ client' = [client EXCEPT !.pc =
          IF Digests[client.ref] \subseteq record THEN "answered" ELSE "leaving"]
    /\ UNCHANGED <<hubVars, intent, issued, acked>>

\* The CA has looked: finalized or failed, the finally clause comes.
CALooks ==
    /\ client.pc = "answered"
    /\ client' = [client EXCEPT !.pc = "leaving"]
    /\ UNCHANGED <<hubVars, intent, issued, acked>>

PostWithdraw == client.pc = "leaving" /\ Call("withdraw", client.ref, "withdrawing")

Withdrawn ==
    /\ client.pc = "withdrawing" /\ Replied /\ Reply = "ok"
    /\ session' = Consumed
    /\ Forget(client.ref)
    /\ client' = NoIssuance
    /\ UNCHANGED <<lease, record, lock, used, issued>>

\* The process of the issuance dies.
ClientDies ==
    /\ client # NoIssuance
    /\ Spend("client")
    /\ client' = NoIssuance
    /\ UNCHANGED <<lease, record, lock, session, intent, issued, acked>>

Issuance ==
    \/ Begin \/ Cleaned \/ Intend \/ PostPublish \/ Published \/ Visible \/ CALooks
    \/ PostWithdraw \/ Withdrawn \/ Retry \/ CallFails \/ TimesOut \/ ClientDies

-----------------------------------------------------------------------------
(* Both sides of the network.                                              *)

HubStep(s) == Serve(s) /\ UNCHANGED clientVars
SweepStep(s) == Sweep(s) /\ UNCHANGED clientVars

\* A reply nobody waits for.
Drop(s) ==
    /\ At(s, "reply") /\ client.waits # s
    /\ session' = [session EXCEPT ![s] = Free]
    /\ UNCHANGED <<lease, record, lock, used, clientVars>>

\* A session dies: Postgres releases its lock, its client loses the connection.
SessionDies(s) ==
    /\ ~At(s, "free") /\ ~At(s, "reply")
    /\ Spend("session")
    /\ lock' = IF lock = s THEN NoSession ELSE lock
    /\ session' = [session EXCEPT ![s] =
          IF client.waits = s THEN [Free EXCEPT !.pc = "reply", !.result = "unavailable"]
          ELSE Free]
    /\ UNCHANGED <<lease, record, clientVars>>

Hub(s) == HubStep(s) \/ SweepStep(s) \/ Drop(s) \/ SessionDies(s)

Next ==
    \/ Issuance
    \/ \E s \in Sessions : Hub(s)
    \/ \E r \in Refs : Age(r) /\ UNCHANGED clientVars

Spec == Init /\ [][Next]_vars

\* A session that is not dead goes on (the advisory lock is a queue), the sweep
\* comes round every five minutes, and leases age.  Nothing is asked of the
\* client: a lease ends without it.
Fairness ==
    /\ \A s \in Sessions :
          /\ SF_vars(HubStep(s) /\ UNCHANGED used)
          /\ WF_vars(Drop(s))
    /\ SF_vars(\E s \in Sessions : SweepStep(s))
    /\ \A r \in Refs : WF_vars(Age(r) /\ UNCHANGED clientVars)

FairSpec == Spec /\ Fairness

-----------------------------------------------------------------------------
(* Properties.                                                             *)

\* "retries any unreconciled intent after worker death or an ambiguous provider
\* response": when nobody is at work and no row asks for reconciliation, the
\* record is exactly the union of the live leases.  Whoever died where, what
\* differs is known to the sweep.
ReconciledIsExact ==
    (lock = NoSession /\ \A r \in Stored : lease[r].done) => record = Desired

\* A challenge the hub has confirmed stays in the record, through late copies of
\* its request, sweeps, failures and the leases of other challenges, until the
\* issuance is through with it or the lease has run out.
ConfirmedIsServed ==
    client.pc \in {"seen", "answered"} =>
       \/ Digests[client.ref] \subseteq record
       \/ lease[client.ref].old

\* "A withdrawn or expired reference cannot be republished": whichever order the
\* copies of its requests arrive in.
RetiredStaysRetired ==
    [][\A r \in Refs : IsRetired(r) => lease'[r].state = lease[r].state]_vars

\* "Commit cleanup intent before the ambiguous remote publish call": a lease the
\* hub keeps alive is the one the installation knows it has to withdraw, or one
\* that was withdrawn before its publish arrived.
LeaseIsIntended == \A r \in Refs : IsLive(r) => intent = r \/ r \in acked

\* Every lease ends, and its values leave the record unless another lease asks
\* for them, also when the installation is never heard of again.
Gone(r) == IsRetired(r) /\ Digests[r] \intersect record \subseteq Desired
LeaseEnds == \A r \in Refs : IsLive(r) ~> Gone(r)
=============================================================================
