---------------------------- MODULE JobPublisher ----------------------------
(***************************************************************************)
(* publish() of mojo/apps/jobs/__init__.py: the row is committed first and *)
(* mirrored to Redis next.  Several callers may publish one idempotency    *)
(* key at once; a job id here stands for the key as well.                  *)
(***************************************************************************)
EXTENDS JobStore

VARIABLE pub  (* how many publishers of each job stand before the mirror *)

PublisherTypeOK == pub \in [Jobs -> Nat]
PublisherInit == pub = [j \in Jobs |-> 0]

\* The row is created and committed.
Publish(j) ==
    /\ rows[j].status = "absent"
    /\ SaveStatus(j, "pending")
    /\ pub' = [pub EXCEPT ![j] = @ + 1]
    /\ UNCHANGED <<queue, lease, sched, overdue, used>>

\* The row of a publish whose mirror failed, which a second one may resume.
CanResume(j) ==
    /\ rows[j].status = "failed"
    /\ rows[j].attempt = 0
    /\ rows[j].unqueued

\* A second publish of the same key: a pending row is mirrored once more, a
\* row that never reached Redis is set to pending again, any other row is
\* returned as it is.
Republish(j) ==
    /\ rows[j].status = "pending" \/ CanResume(j)
    /\ Spend("republish")
    /\ SaveError(j, "pending", IF CanResume(j) THEN FALSE ELSE rows[j].unqueued)
    /\ pub' = [pub EXCEPT ![j] = @ + 1]
    /\ UNCHANGED <<queue, lease, sched, overdue>>

\* Mutant: the mirror runs without a publisher.
MirrorUnasked(j) ==
    /\ rows[j].status = "pending"
    /\ pub' = [pub EXCEPT ![j] = @ - 1]
    /\ Push(j)
    /\ UNCHANGED <<rows, lease, sched, overdue, used>>

\* A run_at in the future goes to the ZSET, anything else to the List.  A
\* retry has put a run_at on the row of an immediate job too.
Write(j) ==
    \/ Push(j) /\ UNCHANGED sched
    \/ /\ j \in Delayed \/ rows[j].attempt > 0
       /\ sched' = [sched EXCEPT ![j] = "waiting"]
       /\ UNCHANGED queue

\* The mirror.
Mirror(j) ==
    /\ pub[j] > 0
    /\ pub' = [pub EXCEPT ![j] = @ - 1]
    /\ Write(j)
    /\ UNCHANGED <<rows, lease, overdue, used>>

\* The Redis call raises, applied or not; the row is saved as failed without
\* another look at it.
MirrorFails(j) ==
    /\ pub[j] > 0
    /\ pub' = [pub EXCEPT ![j] = @ - 1]
    /\ SaveError(j, "failed", TRUE)
    /\ \/ Spend("redis") /\ UNCHANGED <<queue, sched>>
       \/ Spend("lostReply") /\ Write(j)
    /\ UNCHANGED <<lease, overdue>>

\* The publishing process dies between the commit and the mirror.
PublisherCrash(j) ==
    /\ pub[j] > 0
    /\ Spend("windowCrash")
    /\ pub' = [pub EXCEPT ![j] = @ - 1]
    /\ UNCHANGED <<rows, queue, lease, sched, overdue>>

PublisherNext ==
    \E j \in Jobs : Publish(j) \/ Republish(j) \/ Mirror(j) \/ MirrorFails(j)
                    \/ PublisherCrash(j)
=============================================================================
