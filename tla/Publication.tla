---------------------------- MODULE Publication ----------------------------
(****************************************************************************)
(* The events of one submission of the Temporal backend: the journal its    *)
(* Activities and its finalization write (publication.py), the Worker's     *)
(* publisher that relays it to the transport's outbox (delivery.py for the  *)
(* web socket, communication_publication.py for the messengers), and the    *)
(* erasure that removes both (retention.py, erasure.py) once nobody holds a *)
(* reference (references.py).                                               *)
(*                                                                          *)
(* One Worker publishes; a session deletion may run in another process.     *)
(****************************************************************************)
EXTENDS Naturals, Sequences, SequencesExt

CONSTANTS
  EventBound,   \* events written before the final one (the model's bound)
  OutboxLimit,  \* COMPANION_OUTBOX_LIMIT, events the transport keeps unacknowledged
  MaxCrashes    \* failures of the publisher's round (the model's bound)

ASSUME PublicationAssumption == EventBound \in Nat /\ OutboxLimit \in Nat \ {0} /\ MaxCrashes \in Nat

VARIABLES
  psub,     \* temporal_submissions.state, "gone" once purged
  journal,  \* temporal_events by seq: kind and delivery
  pfin,     \* temporal_finalizations.state
  target,   \* the transport of the submission's context
  stream,   \* what the transport's store accepted, in its order
  acked,    \* the floor of the stream: acknowledged, expired or erased
  told,     \* status of the input or command the submission answers
  pubr,     \* the publisher: where its round is, the row it read, the events it read
  actv,     \* an Activity holds a reference
  job,      \* temporal_erasures: state and reason
  eras,     \* where an eraser is
  wfl,      \* the remote Workflow
  wiped,    \* the session's transport data was erased
  crashes

pubVars == <<psub, journal, pfin, target, stream, acked, told, pubr, actv, job, eras, wfl, wiped, crashes>>

Settled == {"completed", "cancelled", "uncertain"}
EventKinds == {"delta", "wait", "final"}
PubIdle == [pc |-> "idle", row |-> "running", todo |-> {}]

PubInit ==
  /\ psub = "running" /\ journal = <<>> /\ pfin = "none"
  /\ target \in {"websocket", "communication"}
  /\ stream = <<>> /\ acked = 0 /\ told = "open"
  /\ pubr = PubIdle /\ actv = FALSE
  /\ job = [st |-> "none", why |-> "retention"] /\ eras = "idle" /\ wfl = "open"
  /\ wiped = FALSE /\ crashes = 0

----------------------------------------------------------------------------
(* The journal *)

PubHolds == pubr.pc \in {"final", "final_mark", "read", "send", "mark"}
\* Mutant of Referenced: a publication does not count.
ReferencedByActivities == actv

\* references.blockers: rows of dead processes do not count.
Referenced == actv \/ PubHolds

HasFinal == \E i \in DOMAIN journal : journal[i].kind = "final"
Unsent == {i \in DOMAIN journal : journal[i].st = "pending"}

Entry(kind) == [kind |-> kind, st |-> IF target = "websocket" \/ kind # "delta" THEN "pending" ELSE "local"]
\* append(terminal=True) is idempotent by its key.
FinalAppended == IF HasFinal THEN journal ELSE Append(journal, Entry("final"))

ActOpen ==
  /\ ~actv /\ psub = "running" /\ actv' = TRUE
  /\ UNCHANGED <<psub, journal, pfin, target, stream, acked, told, pubr, job, eras, wfl, wiped, crashes>>

ActWrite ==
  /\ actv /\ psub = "running" /\ Len(journal) < EventBound
  /\ \E kind \in {"delta", "wait"} : journal' = Append(journal, Entry(kind))
  /\ UNCHANGED <<psub, pfin, target, stream, acked, told, pubr, actv, job, eras, wfl, wiped, crashes>>

ActClose ==
  /\ actv /\ actv' = FALSE
  /\ UNCHANGED <<psub, journal, pfin, target, stream, acked, told, pubr, job, eras, wfl, wiped, crashes>>

\* finish by the last Activity, a cancellation, workflow_failed: each leaves a final_intent.
SubmissionEnds ==
  /\ psub = "running" /\ psub' \in Settled /\ (psub' = "completed" => actv)
  /\ pfin' = "pending"
  /\ UNCHANGED <<journal, target, stream, acked, told, pubr, actv, job, eras, wfl, wiped, crashes>>

\* The finalization Activity and Store.finish finalize too, beside the publisher.
ActFinalize ==
  /\ actv /\ psub \in Settled /\ pfin = "pending"
  /\ journal' = FinalAppended /\ pfin' = IF HasFinal THEN "completed" ELSE pfin
  /\ UNCHANGED <<psub, target, stream, acked, told, pubr, actv, job, eras, wfl, wiped, crashes>>

WfClose ==
  /\ wfl = "open" /\ psub # "running" /\ wfl' = "closed"
  /\ UNCHANGED <<psub, journal, pfin, target, stream, acked, told, pubr, actv, job, eras, wiped, crashes>>

----------------------------------------------------------------------------
(* The publisher: reconcile, finalize, publish *)

Round(pc) == pubr' = [pubr EXCEPT !.pc = pc]
GiveUp == pubr' = PubIdle
OnlyRound == UNCHANGED <<psub, journal, pfin, target, stream, acked, told, actv, job, eras, wfl, wiped, crashes>>

Pick ==
  /\ pubr.pc = "idle" /\ psub \in Settled \union {"running"}
  /\ pfin = "pending" \/ Unsent # {}
  /\ pubr' = [PubIdle EXCEPT !.pc = "finalize", !.row = psub]
  /\ OnlyRound

\* reference(): refused once the row is fenced for erasure.
EnterScope(from, to) ==
  /\ pubr.pc = from
  /\ IF psub \in {"erasing", "gone"} THEN GiveUp ELSE Round(to)
  /\ OnlyRound

Finalize ==
  \/ pubr.row # "running" /\ pfin = "pending" /\ EnterScope("finalize", "final")
  \/ ~(pubr.row # "running" /\ pfin = "pending") /\ pubr.pc = "finalize" /\ Round("publish") /\ OnlyRound

FinalAppend ==
  /\ pubr.pc = "final"
  /\ IF psub = pubr.row THEN journal' = FinalAppended /\ Round("final_mark")
                        ELSE GiveUp /\ UNCHANGED journal
  /\ UNCHANGED <<psub, pfin, target, stream, acked, told, actv, job, eras, wfl, wiped, crashes>>

FinalMark ==
  /\ pubr.pc = "final_mark" /\ Round("publish")
  /\ pfin' = IF pfin = "none" THEN pfin ELSE "completed"
  /\ UNCHANGED <<psub, journal, target, stream, acked, told, actv, job, eras, wfl, wiped, crashes>>

Publish == EnterScope("publish", "read")

\* A settled submission that was cancelled or is uncertain shows its final event only.
Withdrawn == [i \in DOMAIN journal |->
  IF pubr.row \in {"cancelled", "uncertain"} /\ i \in Unsent /\ journal[i].kind # "final"
    THEN [journal[i] EXCEPT !.st = "cancelled"] ELSE journal[i]]

PublishRead ==
  /\ pubr.pc = "read"
  /\ journal' = Withdrawn
  /\ pubr' = [pubr EXCEPT !.pc = "send", !.todo = {i \in DOMAIN journal : Withdrawn[i].st = "pending"}]
  /\ UNCHANGED <<psub, pfin, target, stream, acked, told, actv, job, eras, wfl, wiped, crashes>>

Accepted(seq) == \E i \in DOMAIN stream : stream[i].seq = seq

\* Mutant of Accept: the store does not look the event's key up.
AcceptAlways(seq, kind) ==
  /\ stream' = Append(stream, [seq |-> seq, kind |-> kind])
  /\ told' = IF kind = "final" THEN "final" ELSE told

\* EventStore.append: a key is stored once; a full outbox refuses.
\* queue_delivery and complete_command: the same, without the outbox limit.
Accept(seq, kind) ==
  IF Accepted(seq) THEN UNCHANGED <<stream, told>>
  ELSE /\ stream' = Append(stream, [seq |-> seq, kind |-> kind])
       /\ told' = CASE kind = "final" -> "final"
                    [] kind = "wait" /\ target = "websocket" -> "suspended"
                    [] OTHER -> told

Room(seq) == target = "communication" \/ Accepted(seq) \/ Len(stream) - acked < OutboxLimit

\* The rows read are relayed in the order of their seq.
Due == Min(pubr.todo)

PublishSend ==
  /\ pubr.pc = "send"
  /\ IF pubr.todo # {} /\ Room(Due)
       THEN Accept(Due, journal[Due].kind) /\ Round("mark")
       ELSE GiveUp /\ UNCHANGED <<stream, told>>
  /\ UNCHANGED <<psub, journal, pfin, target, acked, actv, job, eras, wfl, wiped, crashes>>

PublishMark ==
  /\ pubr.pc = "mark"
  /\ journal' = [journal EXCEPT ![Due].st = "sent"]
  /\ pubr' = [pubr EXCEPT !.pc = "send", !.todo = @ \ {Due}]
  /\ UNCHANGED <<psub, pfin, target, stream, acked, told, actv, job, eras, wfl, wiped, crashes>>

\* The round fails where it is; with the process, the Activities' references die too.
PublisherFails ==
  /\ pubr.pc # "idle" /\ crashes < MaxCrashes /\ crashes' = crashes + 1
  /\ GiveUp /\ actv' \in {actv, FALSE}
  /\ UNCHANGED <<psub, journal, pfin, target, stream, acked, told, job, eras, wfl, wiped>>

\* The client acknowledges, or the events expire.
Ack ==
  /\ acked' \in (acked + 1)..Len(stream)
  /\ UNCHANGED <<psub, journal, pfin, target, stream, told, pubr, actv, job, eras, wfl, wiped, crashes>>

----------------------------------------------------------------------------
(* Erasure *)

Eligible == psub \in {"completed", "cancelled"} /\ pfin = "completed" /\ Unsent = {} /\ ~Referenced

\* retention.prepare: the tombstone and the new fence, in one transaction.
PrepareErasure ==
  /\ psub \in Settled \union {"running"} /\ psub' = "erasing"
  /\ \E why \in {"session", "retention"} : (why = "retention" => Eligible) /\ job' = [st |-> "pending", why |-> why]
  /\ UNCHANGED <<journal, pfin, target, stream, acked, told, pubr, actv, eras, wfl, wiped, crashes>>

EraseStep(from, to) == eras = from /\ eras' = to

\* remote: terminate what a session deletion authorizes, wait for the rest.
RemoteClose ==
  /\ job.st = "pending" /\ (job.why = "retention" => wfl = "closed")
  /\ EraseStep("idle", "closed") /\ wfl' = "closed"
  /\ UNCHANGED <<psub, journal, pfin, target, stream, acked, told, pubr, actv, job, wiped, crashes>>

RemoteCheck ==
  /\ EraseStep("closed", IF Referenced THEN "idle" ELSE "quiet")
  /\ UNCHANGED <<psub, journal, pfin, target, stream, acked, told, pubr, actv, job, wfl, wiped, crashes>>

RemoteDelete ==
  /\ EraseStep("quiet", "idle") /\ wfl' = "deleted" /\ job' = [job EXCEPT !.st = "remote_done"]
  /\ UNCHANGED <<psub, journal, pfin, target, stream, acked, told, pubr, actv, wiped, crashes>>

\* Deleting a session: guard_session, then EventStore.erase_owner or erase_session.
Wipe ==
  /\ job = [st |-> "remote_done", why |-> "session"] /\ ~Referenced /\ ~wiped
  /\ wiped' = TRUE /\ acked' = Len(stream) /\ told' = "deleted"
  /\ UNCHANGED <<psub, journal, pfin, target, stream, pubr, actv, job, eras, wfl, crashes>>

\* purge: the approvals are in another database; the references are checked again after.
PurgeApprovals ==
  /\ job.st = "remote_done" /\ (job.why = "retention" \/ wiped)
  /\ EraseStep("idle", "purge") /\ ~Referenced
  /\ UNCHANGED <<psub, journal, pfin, target, stream, acked, told, pubr, actv, job, wfl, wiped, crashes>>

PurgeRows ==
  /\ EraseStep("purge", "idle")
  /\ IF Referenced THEN UNCHANGED <<psub, journal, pfin, job>>
     ELSE psub' = "gone" /\ journal' = <<>> /\ pfin' = "none" /\ job' = [job EXCEPT !.st = "local_done"]
  /\ UNCHANGED <<target, stream, acked, told, pubr, actv, wfl, wiped, crashes>>

----------------------------------------------------------------------------
Publisher == Pick \/ Finalize \/ FinalAppend \/ FinalMark \/ Publish \/ PublishRead \/ PublishSend \/ PublishMark
Eraser == RemoteClose \/ RemoteCheck \/ RemoteDelete \/ PurgeApprovals \/ PurgeRows

PubNext ==
  \/ ActOpen \/ ActWrite \/ ActClose \/ SubmissionEnds \/ ActFinalize \/ WfClose
  \/ Publisher \/ PublisherFails \/ Ack
  \/ PrepareErasure \/ Eraser \/ Wipe

\* The Worker's loop, the end of an Activity and of a Workflow, the expiry of events.
PubFairness ==
  /\ WF_pubVars(Publisher) /\ WF_pubVars(Eraser)
  /\ WF_pubVars(ActClose) /\ WF_pubVars(WfClose) /\ WF_pubVars(Ack)

PubSpec == PubInit /\ [][PubNext]_pubVars /\ PubFairness

----------------------------------------------------------------------------
(* Properties *)

PubTypeOK ==
  /\ psub \in Settled \union {"running", "erasing", "gone"}
  /\ journal \in Seq([kind : EventKinds, st : {"pending", "sent", "cancelled", "local"}])
  /\ pfin \in {"none", "pending", "completed"}
  /\ target \in {"websocket", "communication"}
  /\ stream \in Seq([seq : Nat, kind : EventKinds]) /\ acked \in 0..Len(stream)
  /\ told \in {"open", "suspended", "final", "deleted"}
  /\ pubr \in [pc : {"idle", "finalize", "final", "final_mark", "publish", "read", "send", "mark"},
               row : Settled \union {"running"}, todo : SUBSET Nat]
  /\ actv \in BOOLEAN /\ wiped \in BOOLEAN /\ crashes \in Nat
  /\ job \in [st : {"none", "pending", "remote_done", "local_done"}, why : {"session", "retention"}]
  /\ eras \in {"idle", "closed", "quiet", "purge"} /\ wfl \in {"open", "closed", "deleted"}

\* Whatever the publisher's failures, the client's pace and a cancellation between two
\* events, the transport sees each event of the journal once, in the journal's order, and
\* nothing after the final one (publish, EventStore.append).
PublishedInOrder ==
  /\ \A i \in 1..(Len(stream) - 1) : stream[i].seq < stream[i + 1].seq
  /\ \A i \in 1..(Len(stream) - 1) : stream[i].kind # "final"
  /\ told = "final" => stream # <<>> /\ Last(stream).kind = "final"

\* Once a deleted session's transport data is erased, no publisher or Activity that was
\* under way brings any of it back (reference, blockers, guard_session).
NothingAfterErasure == [][wiped => UNCHANGED <<stream, told>> /\ journal' \in {journal, <<>>}]_pubVars

\* Settled: the final event of a settled submission has reached the transport, unless it is
\* being erased, and an erasure the retention ordered has ended.
PubBusy == pfin = "pending" \/ job.st = "pending"
PubSettled == IF job.st = "none" THEN told = "final"
                ELSE job.st = "local_done" \/ (job.st = "remote_done" /\ job.why = "session")
============================================================================
