----------------------------- MODULE MemoryJobs -----------------------------
(****************************************************************************)
(* The memory of one conversation (memory.py) and the processes that review *)
(* it in the background (memory_worker.py, memory_jobs).  A process that    *)
(* gets the lock file runs the worker thread, the others only add jobs.  A  *)
(* job is claimed under a lease; its owner alone may end it, and when the   *)
(* owner is known to be dead it is failed and never run again.  The         *)
(* foreground turn ends the episode that the reviews read, and a deletion   *)
(* erases it (workspace_lifecycle/erasure.py).                              *)
(****************************************************************************)
EXTENDS Naturals

CONSTANTS
  Reviewers,   \* the processes that may run the worker thread
  MaxJobs,     \* bound: rows of memory_jobs
  MaxDefers,   \* bound: provider answers 429 per job
  MaxDeaths    \* bound: processes that die

ASSUME MemoryAssumption == MaxJobs \in Nat \ {0} /\ {MaxDefers, MaxDeaths} \subseteq Nat

VARIABLES
  lockf,     \* background_worker.lock: whose file it is, and whether a pid is written in it
  role,      \* how far each process is with the lock file, and whether it runs the thread
  mjob,      \* memory_jobs
  rev,       \* the worker thread of each process: its place, its job, the status it read
  known,     \* the embedding jobs in the memory queue of each process
  chat,      \* the foreground turn: its place, how it ended, the status it read
  episode,   \* episodes.status
  eraser,    \* the deletion of the conversation
  executed,  \* history: how often each job was begun, and how often it was put back
  leftover,      \* history: memories and procedures a thread wrote after the erasure
  deaths     \* bounded by MaxDeaths

memoryVars == <<lockf, role, mjob, rev, known, chat, episode, eraser, executed, leftover, deaths>>

MemJobIds == 1..MaxJobs
Refusals == {"refused"}  \* rejected, needs_review and failed
NoFile == [by |-> "none", text |-> "absent"]
Absent == [st |-> "none", kind |-> "review", owner |-> "none", lease |-> "none"]
IdleThread == [pc |-> "idle", job |-> 0, seen |-> "none"]

MemInit ==
  /\ lockf = NoFile /\ role = [p \in Reviewers |-> "off"]
  /\ mjob = [j \in MemJobIds |-> Absent]
  /\ rev = [p \in Reviewers |-> IdleThread] /\ known = [p \in Reviewers |-> {}]
  /\ chat = [pc |-> "running", end |-> "none", seen |-> "none"]
  /\ episode = "running" /\ eraser = "none"
  /\ executed = [j \in MemJobIds |-> [begun |-> 0, deferred |-> 0]]
  /\ leftover = [p \in Reviewers |-> 0] /\ deaths = 0

----------------------------------------------------------------------------
(* The lock file *)

\* An empty file, or one whose writer is dead.
StaleFile == lockf.text = "empty" \/ (lockf.text = "pid" /\ lockf.by = "none")

\* The embedding jobs a new worker finds (enqueue_pending_embedding_backfills).
Backlog == {j \in MemJobIds : mjob[j].kind = "embedding" /\ mjob[j].st = "pending"}

\* O_CREAT | O_EXCL, or a look at the file that is there.
OpenLock(p) ==
  /\ role[p] = "off"
  /\ IF lockf = NoFile
       THEN lockf' = [by |-> p, text |-> "empty"] /\ role' = [role EXCEPT ![p] = "created"]
       ELSE role' = [role EXCEPT ![p] = IF StaleFile THEN "stale" ELSE "queue"] /\ UNCHANGED lockf
  /\ UNCHANGED <<mjob, rev, known, chat, episode, eraser, executed, leftover, deaths>>

\* unlink takes whatever file is there by now.
UnlinkLock(p) ==
  /\ role[p] = "stale" /\ lockf' = NoFile
  /\ role' = [role EXCEPT ![p] = IF lockf = NoFile THEN "queue" ELSE "unlinked"]
  /\ UNCHANGED <<mjob, rev, known, chat, episode, eraser, executed, leftover, deaths>>

CreateLock(p) ==
  /\ role[p] = "unlinked"
  /\ IF lockf = NoFile
       THEN lockf' = [by |-> p, text |-> "empty"] /\ role' = [role EXCEPT ![p] = "created"]
       ELSE role' = [role EXCEPT ![p] = "queue"] /\ UNCHANGED lockf
  /\ UNCHANGED <<mjob, rev, known, chat, episode, eraser, executed, leftover, deaths>>

\* The pid goes to the file this process created, which another may have unlinked.
BecomeWorker(p) ==
  /\ role[p] = "created" /\ role' = [role EXCEPT ![p] = "worker"]
  /\ lockf' = IF lockf.by = p THEN [lockf EXCEPT !.text = "pid"] ELSE lockf
  /\ known' = [known EXCEPT ![p] = Backlog]
  /\ UNCHANGED <<mjob, rev, chat, episode, eraser, executed, leftover, deaths>>

\* The process exits: stop releases the lock, and unlinks whatever file is there.
StopWorker(p) ==
  /\ role[p] = "worker" /\ rev[p].pc = "idle" /\ deaths < MaxDeaths /\ deaths' = deaths + 1
  /\ role' = [role EXCEPT ![p] = "off"] /\ lockf' = NoFile /\ known' = [known EXCEPT ![p] = {}]
  /\ UNCHANGED <<mjob, rev, chat, episode, eraser, executed, leftover>>

MemDies(p) ==
  /\ role[p] # "off" /\ deaths < MaxDeaths /\ deaths' = deaths + 1
  /\ role' = [role EXCEPT ![p] = "off"] /\ rev' = [rev EXCEPT ![p] = IdleThread]
  /\ known' = [known EXCEPT ![p] = {}]
  /\ lockf' = IF lockf.by = p THEN [lockf EXCEPT !.by = "none"] ELSE lockf
  /\ mjob' = [j \in MemJobIds |-> IF mjob[j].owner = p THEN [mjob[j] EXCEPT !.owner = "dead"] ELSE mjob[j]]
  /\ UNCHANGED <<chat, episode, eraser, executed, leftover>>

----------------------------------------------------------------------------
(* Jobs *)

Pending(kind) == [st |-> "pending", kind |-> kind, owner |-> "none", lease |-> "none"]
\* The next id of the table.
Fresh(j) == mjob[j].st = "none" /\ \A i \in MemJobIds : i < j => mjob[i].st # "none"
AddJob(j, kind) == Fresh(j) /\ mjob' = [mjob EXCEPT ![j] = Pending(kind)]
NewReview == \E j \in MemJobIds : AddJob(j, "review")

\* A review is found by the poll, an embedding only in the process's own queue; an
\* embedding that was put back (next_attempt_at) is due at any later moment.
ClaimJob(p, j) ==
  /\ role[p] = "worker" /\ rev[p].pc = "idle"
  /\ mjob[j].st = "pending" /\ (mjob[j].kind = "embedding" => j \in known[p])
  /\ mjob' = [mjob EXCEPT ![j] = [@ EXCEPT !.st = "processing", !.owner = p, !.lease = "live"]]
  /\ rev' = [rev EXCEPT ![p] = [pc |-> "claimed", job |-> j, seen |-> "none"]]
  /\ known' = [known EXCEPT ![p] = @ \ {j}]
  /\ executed' = [executed EXCEPT ![j].begun = @ + 1]
  /\ UNCHANGED <<lockf, role, chat, episode, eraser, leftover, deaths>>

\* The process was paused, its heartbeat raised, or it is dead.
JobLeaseEnds(j) ==
  /\ mjob[j].st = "processing" /\ mjob[j].lease = "live" /\ mjob' = [mjob EXCEPT ![j].lease = "expired"]
  /\ UNCHANGED <<lockf, role, rev, known, chat, episode, eraser, executed, leftover, deaths>>

EndedJob(st, job) == [job EXCEPT !.st = st, !.owner = "none", !.lease = "none"]

\* Mutant of Abandoned: the job of a dead owner is put back instead.
AbandonedAgain(job) == EndedJob("pending", job)

Abandoned(job) == EndedJob("failed", job)

\* recover: an expired lease is not enough, the owner has to be dead.
RecoverJobs(p) ==
  /\ role[p] = "worker" /\ rev[p].pc = "idle"
  /\ LET gone == {j \in MemJobIds : mjob[j].st = "processing" /\ mjob[j].lease = "expired" /\ mjob[j].owner = "dead"} IN
     /\ gone # {}
     /\ mjob' = [j \in MemJobIds |-> IF j \in gone THEN Abandoned(mjob[j]) ELSE mjob[j]]
  /\ UNCHANGED <<lockf, role, rev, known, chat, episode, eraser, executed, leftover, deaths>>

\* finish: under the own token and a live lease, and refused otherwise.
Owns(p) == LET job == mjob[rev[p].job] IN job.st = "processing" /\ job.owner = p
FinishJob(p, st) ==
  mjob' = IF Owns(p) /\ mjob[rev[p].job].lease = "live"
            THEN [mjob EXCEPT ![rev[p].job] = EndedJob(st, @)] ELSE mjob

----------------------------------------------------------------------------
(* The worker thread *)

At(p, pc) == rev[p].pc = pc
MoveTo(p, pc) == rev' = [rev EXCEPT ![p].pc = pc]

\* Mutant of Kept: add_event does not look at the episode.
KeptAlways == TRUE

\* add_event and add_semantic_memory refuse a deleted episode.
Kept == episode # "deleted"

\* The events are read once; erased ones hold no candidate.  Bound: one candidate with
\* triples, one procedure, in this order.
ReadEvents(p) ==
  /\ At(p, "claimed") /\ mjob[rev[p].job].kind = "review"
  /\ IF Kept THEN \E what \in {"triple", "procedure", "backfill"} : MoveTo(p, what) ELSE MoveTo(p, "backfill")
  /\ UNCHANGED <<lockf, role, mjob, known, chat, episode, eraser, executed, leftover, deaths>>

\* The classifier cannot be built: the job fails, the episode is left alone.
SetupFails(p) ==
  /\ At(p, "claimed") /\ mjob[rev[p].job].kind = "review" /\ MoveTo(p, "release") /\ FinishJob(p, "failed")
  /\ UNCHANGED <<lockf, role, known, chat, episode, eraser, executed, leftover, deaths>>

\* decide_semantic_update, then the event of the decision.  "more" is "triple" with something
\* found, which has to be reported at the end; a fact of this episode needs no decision.
DecideTriple(p) ==
  /\ At(p, "triple") \/ At(p, "more")
  /\ \/ MoveTo(p, "next")
     \/ IF Kept
          THEN \/ \E act \in {"add", "supersede"} : MoveTo(p, act)
               \/ At(p, "triple") /\ \E what \in {"procedure", "backfill"} : MoveTo(p, what)
          ELSE MoveTo(p, "backfill")
  /\ UNCHANGED <<lockf, role, mjob, known, chat, episode, eraser, executed, leftover, deaths>>

Row(p) == leftover' = IF episode = "deleted" THEN [leftover EXCEPT ![p] = @ + 1] ELSE leftover

\* add_semantic_memory looks at the episode again, supersede_semantic_memory does not.
InsertMemory(p) ==
  /\ \/ At(p, "add") /\ (IF Kept THEN MoveTo(p, "next") /\ Row(p) ELSE MoveTo(p, "backfill") /\ UNCHANGED leftover)
     \/ At(p, "supersede") /\ MoveTo(p, "next") /\ Row(p)
  /\ UNCHANGED <<lockf, role, mjob, known, chat, episode, eraser, executed, deaths>>

\* Another triple, or the event of the result, the next candidate and the end.
NextTriple(p) ==
  /\ At(p, "next")
  /\ \/ MoveTo(p, "more")
     \/ IF Kept THEN \E what \in {"procedure", "backfill"} : MoveTo(p, what) ELSE MoveTo(p, "backfill")
  /\ UNCHANGED <<lockf, role, mjob, known, chat, episode, eraser, executed, leftover, deaths>>

\* process_procedure_candidate: the status is read, the procedure is written later.
CheckProcedure(p) ==
  /\ At(p, "procedure") /\ MoveTo(p, IF episode \in Refusals THEN "backfill" ELSE "learn")
  /\ UNCHANGED <<lockf, role, mjob, known, chat, episode, eraser, executed, leftover, deaths>>

LearnProcedure(p) ==
  /\ At(p, "learn") /\ MoveTo(p, "backfill") /\ Row(p)
  /\ UNCHANGED <<lockf, role, mjob, known, chat, episode, eraser, executed, deaths>>

\* The forgetting policy and the jobs for memories without an embedding.
Backfill(p) ==
  /\ At(p, "backfill") /\ MoveTo(p, "complete")
  /\ \/ \E j \in MemJobIds : AddJob(j, "embedding") /\ known' = [known EXCEPT ![p] = @ \cup {j}]
     \/ UNCHANGED <<mjob, known>>
  /\ UNCHANGED <<lockf, role, chat, episode, eraser, executed, leftover, deaths>>

CompleteReview(p) ==
  /\ At(p, "complete") /\ MoveTo(p, "read") /\ \E st \in {"completed", "failed"} : FinishJob(p, st)
  /\ UNCHANGED <<lockf, role, known, chat, episode, eraser, executed, leftover, deaths>>

\* _process_embedding_item: the provider answers, fails, or asks to come back later.
Embed(p) ==
  /\ At(p, "claimed") /\ mjob[rev[p].job].kind = "embedding" /\ MoveTo(p, "release")
  /\ \E st \in {"completed", "failed", "pending"} :
       /\ st = "pending" => executed[rev[p].job].deferred < MaxDefers
       /\ FinishJob(p, st)
       /\ executed' = IF st = "pending" THEN [executed EXCEPT ![rev[p].job].deferred = @ + 1] ELSE executed
  /\ UNCHANGED <<lockf, role, known, chat, episode, eraser, leftover, deaths>>

\* finish_episode: the status is read in one connection and written in another.
Written(seen, status) ==
  episode' = CASE episode = "deleted" -> "deleted"
               [] episode # "deleted" /\ status = "verified" /\ seen \in Refusals -> seen
               [] OTHER -> status

ReadStatus(p) ==
  /\ At(p, "read") /\ rev' = [rev EXCEPT ![p] = [pc |-> "write", job |-> rev[p].job, seen |-> episode]]
  /\ UNCHANGED <<lockf, role, mjob, known, chat, episode, eraser, executed, leftover, deaths>>

WriteStatus(p) ==
  /\ At(p, "write") /\ MoveTo(p, "release") /\ Written(rev[p].seen, "verified")
  /\ UNCHANGED <<lockf, role, mjob, known, chat, eraser, executed, leftover, deaths>>

\* release_after_execution: a job that could not be ended is failed by its own thread.
ReleaseJob(p) ==
  /\ At(p, "release") /\ rev' = [rev EXCEPT ![p] = IdleThread]
  /\ mjob' = IF Owns(p) THEN [mjob EXCEPT ![rev[p].job] = EndedJob("failed", @)] ELSE mjob
  /\ UNCHANGED <<lockf, role, known, chat, episode, eraser, executed, leftover, deaths>>

----------------------------------------------------------------------------
(* The turn and the deletion *)

\* A suspended turn writes "running" and leaves a review; then it is resumed.
TurnSuspends ==
  /\ chat.pc = "running" /\ mjob[MaxJobs].st = "none" /\ ~Fresh(MaxJobs) /\ NewReview
  /\ episode' = IF episode = "deleted" THEN episode ELSE "running"
  /\ UNCHANGED <<lockf, role, rev, known, chat, eraser, executed, leftover, deaths>>

Over == [pc |-> "over", end |-> "none", seen |-> "none"]
\* finish_turn_memory_review: the episode first, then a review unless it is switched off.
TurnReads ==
  /\ chat.pc = "running"
  /\ \E st \in {"verified", "refused"} : chat' = [pc |-> "write", end |-> st, seen |-> episode]
  /\ UNCHANGED <<lockf, role, mjob, rev, known, episode, eraser, executed, leftover, deaths>>

TurnWrites ==
  /\ chat.pc = "write" /\ Written(chat.seen, chat.end)
  /\ \/ chat' = [chat EXCEPT !.pc = "review"]
     \/ chat' = Over
  /\ UNCHANGED <<lockf, role, mjob, rev, known, eraser, executed, leftover, deaths>>

TurnEnqueues ==
  /\ chat.pc = "review" /\ NewReview /\ chat' = Over
  /\ UNCHANGED <<lockf, role, rev, known, episode, eraser, executed, leftover, deaths>>

\* finalize_temporal: event, status and job in one transaction.
TurnFinalized ==
  /\ chat.pc = "running" /\ NewReview /\ Kept
  /\ \E st \in {"verified", "refused"} :
       episode' = IF episode \in Refusals THEN episode ELSE st
  /\ chat' = Over
  /\ UNCHANGED <<lockf, role, rev, known, eraser, executed, leftover, deaths>>

\* external_blockers: a job somebody runs blocks the deletion.
EraseChecks ==
  /\ chat.pc = "over" /\ eraser = "none" /\ \A j \in MemJobIds : mjob[j].st # "processing"
  /\ eraser' = "checked"
  /\ UNCHANGED <<lockf, role, mjob, rev, known, chat, episode, executed, leftover, deaths>>

\* erase_memory, after the other stores: a job may have been claimed meanwhile.
EraseMemory ==
  /\ eraser = "checked" /\ eraser' = "done" /\ episode' = "deleted"
  /\ mjob' = [j \in MemJobIds |-> IF mjob[j].st = "none" THEN mjob[j] ELSE [mjob[j] EXCEPT !.st = "cancelled"]]
  /\ UNCHANGED <<lockf, role, rev, known, chat, executed, leftover, deaths>>

----------------------------------------------------------------------------

LockStep(p) == OpenLock(p) \/ UnlinkLock(p) \/ CreateLock(p) \/ BecomeWorker(p)
ReviewStep(p) ==
  \/ ReadEvents(p) \/ SetupFails(p) \/ DecideTriple(p) \/ InsertMemory(p) \/ NextTriple(p) \/ CheckProcedure(p)
  \/ LearnProcedure(p) \/ Backfill(p) \/ CompleteReview(p) \/ Embed(p)
  \/ ReadStatus(p) \/ WriteStatus(p) \/ ReleaseJob(p)
TurnStep == TurnSuspends \/ TurnReads \/ TurnWrites \/ TurnEnqueues \/ TurnFinalized

MemNext ==
  \/ \E p \in Reviewers : \/ LockStep(p) \/ ReviewStep(p) \/ RecoverJobs(p)
                          \/ StopWorker(p) \/ MemDies(p)
                          \/ \E j \in MemJobIds : ClaimJob(p, j)
  \/ \E j \in MemJobIds : JobLeaseEnds(j)
  \/ TurnStep \/ EraseChecks \/ EraseMemory

LastTriple(p) == NextTriple(p) /\ ~(rev'[p].pc = "more")

\* Processes that died are started again, a thread goes on and has finitely many triples, the
\* lease of a dead owner runs out.
MemSpec ==
  /\ MemInit /\ [][MemNext]_memoryVars
  /\ \A p \in Reviewers : /\ WF_memoryVars(LockStep(p)) /\ WF_memoryVars(ReviewStep(p)) /\ SF_memoryVars(LastTriple(p))
                          /\ WF_memoryVars(RecoverJobs(p))
  /\ \A j \in MemJobIds : WF_memoryVars(mjob[j].owner = "dead" /\ JobLeaseEnds(j))

----------------------------------------------------------------------------

Statuses == {"running", "verified", "refused", "deleted"}
JobRows == [st : {"none", "pending", "processing", "completed", "failed", "cancelled"}, kind : {"review", "embedding"},
            owner : Reviewers \cup {"none", "dead"}, lease : {"none", "live", "expired"}]
Threads == [pc : {"idle", "claimed", "triple", "more", "add", "supersede", "next", "procedure", "learn", "backfill",
                  "complete", "read", "write", "release"}, job : 0..MaxJobs, seen : Statuses \cup {"none"}]

MemTypeOK ==
  /\ lockf \in [by : Reviewers \cup {"none"}, text : {"absent", "empty", "pid"}]
  /\ role \in [Reviewers -> {"off", "stale", "unlinked", "created", "queue", "worker"}]
  /\ mjob \in [MemJobIds -> JobRows] /\ rev \in [Reviewers -> Threads]
  /\ known \in [Reviewers -> SUBSET MemJobIds]
  /\ chat \in [pc : {"running", "write", "review", "over"}, end : {"none", "verified", "refused"}, seen : Statuses \cup {"none"}]
  /\ episode \in Statuses /\ eraser \in {"none", "checked", "done"}
  /\ executed \in [MemJobIds -> [begun : Nat, deferred : Nat]]
  /\ leftover \in [Reviewers -> Nat] /\ deaths \in 0..MaxDeaths

\* A review that was begun is not begun again, and an embedding only after the provider
\* asked for it: not after a crash, a lost lease or under two workers (claim, recover,
\* release_after_execution).
BegunOnce == \A j \in MemJobIds : executed[j].begun <= executed[j].deferred + 1

\* memory.py:344, "Deleted conversation cannot produce new memories": no thread writes a memory or a
\* procedure of an erased conversation.  The code breaks it: add_semantic_memory looks at the
\* episode again, supersede_semantic_memory and add_procedure do not.
NothingLearntAfterErasure == \A p \in Reviewers : leftover[p] = 0

\* What the code does keep of it: a thread the deletion has overtaken writes at most the one row
\* it had announced (add_event refuses a deleted episode), and no review of the episode can be
\* claimed again.
ErasedFallsSilent ==
  /\ \A p \in Reviewers : leftover[p] <= 1
  /\ eraser = "done" =>
       /\ episode = "deleted"
       /\ \A j \in MemJobIds : mjob[j].kind = "review" => mjob[j].st \in {"none", "cancelled"}

\* A job somebody claimed is ended, by its thread or, when that is dead, by a worker.
MemoryRests == \A j \in MemJobIds : mjob[j].st # "processing"
=============================================================================
