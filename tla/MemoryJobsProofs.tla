-------------------------- MODULE MemoryJobsProofs --------------------------
(****************************************************************************)
(* Any number of processes, jobs, deferrals and deaths: a memory job is     *)
(* begun once, and again only after its thread put it back itself, and the  *)
(* threads of a deleted episode write nothing more.                         *)
(****************************************************************************)
EXTENDS MemoryJobs, TLAPS

\* The jobs: one nobody has claimed, or one that was put back, has been begun no more often
\* than it was put back.
Unclaimed(j) == mjob[j].st \in {"none", "pending"}
Counted(j) == /\ executed[j].begun <= executed[j].deferred + 1
              /\ Unclaimed(j) => executed[j].begun <= executed[j].deferred
JobsOK == /\ mjob \in [MemJobIds -> JobRows]
          /\ executed \in [MemJobIds -> [begun : Nat, deferred : Nat]]
          /\ \A j \in MemJobIds : Counted(j)

\* The threads: one that is not idle has a job.
ThreadsOK == /\ rev \in [Reviewers -> Threads]
             /\ \A p \in Reviewers : rev[p].pc # "idle" => rev[p].job \in MemJobIds

\* The statuses a thread may read.
EpisodeOK == /\ episode \in Statuses
             /\ chat \in [pc : {"running", "write", "review", "over"}, end : {"none", "verified", "refused"},
                          seen : Statuses \cup {"none"}]
             /\ chat.pc = "write" => chat.end # "none"

BegunInv == JobsOK /\ ThreadsOK /\ EpisodeOK

Places == {"claimed", "triple", "more", "add", "supersede", "next", "procedure", "learn", "backfill",
           "complete", "read", "write", "release"}

-----------------------------------------------------------------------------
\* A store without jobs satisfies the invariant.
LEMMA MemInitial == MemInit => BegunInv
<1> SUFFICES ASSUME MemInit PROVE BegunInv
  OBVIOUS
<1>1. JobsOK
  BY DEF MemInit, JobsOK, JobRows, Absent, Counted, Unclaimed
<1>2. ThreadsOK
  BY MemoryAssumption DEF MemInit, ThreadsOK, Threads, IdleThread
<1>3. EpisodeOK
  BY DEF MemInit, EpisodeOK, Statuses
<1>q. QED BY <1>1, <1>2, <1>3 DEF BegunInv

\* A step that begins nothing and puts nothing back.
LEMMA JobsKept ==
  ASSUME JobsOK, mjob' \in [MemJobIds -> JobRows], executed' = executed,
         \A j \in MemJobIds : Unclaimed(j)' => Unclaimed(j)
  PROVE  JobsOK'
  BY DEF JobsOK, Counted

\* One row changes to a state that is not pending.
LEMMA RowEnds ==
  ASSUME JobsOK, executed' = executed, NEW j \in MemJobIds,
         NEW row \in JobRows, row.st \notin {"none", "pending"}, mjob' = [mjob EXCEPT ![j] = row]
  PROVE  JobsOK'
<1>1. mjob' \in [MemJobIds -> JobRows]
  BY DEF JobsOK
<1>2. \A i \in MemJobIds : mjob'[i] = IF i = j THEN row ELSE mjob[i]
  BY DEF JobsOK
<1>3. \A i \in MemJobIds : Unclaimed(i)' => Unclaimed(i)
  BY <1>2 DEF Unclaimed
<1>q. QED BY <1>1, <1>3, JobsKept

\* A job that is ended still is a row of the table.
LEMMA EndedIsRow ==
  ASSUME NEW row \in JobRows, NEW st \in {"pending", "completed", "failed"}
  PROVE  EndedJob(st, row) \in JobRows /\ EndedJob(st, row).st = st
  BY DEF EndedJob, JobRows

\* complete and fail of a job that was begun keep the count.
LEMMA FinishKeeps ==
  ASSUME JobsOK, executed' = executed, NEW p \in Reviewers, rev[p].job \in MemJobIds,
         NEW st \in {"completed", "failed"}, FinishJob(p, st)
  PROVE  JobsOK'
<1>1. mjob[rev[p].job] \in JobRows
  BY DEF JobsOK
<1>2. CASE mjob' = [mjob EXCEPT ![rev[p].job] = EndedJob(st, mjob[rev[p].job])]
  BY <1>1, <1>2, EndedIsRow, RowEnds
<1>3. CASE mjob' = mjob
  BY <1>3 DEF JobsOK, Counted, Unclaimed
<1>q. QED BY <1>2, <1>3 DEF FinishJob

\* A job that is added (INSERT OR IGNORE) has not been begun.
LEMMA AddKeeps ==
  ASSUME JobsOK, executed' = executed, NEW j \in MemJobIds, NEW kind \in {"review", "embedding"}, AddJob(j, kind)
  PROVE  JobsOK'
<1>1. [st |-> "pending", kind |-> kind, owner |-> "none", lease |-> "none"] \in JobRows
  BY DEF JobRows
<1>2. mjob' = [mjob EXCEPT ![j] = [st |-> "pending", kind |-> kind, owner |-> "none", lease |-> "none"]]
  BY DEF AddJob, Pending
<1>3. mjob' \in [MemJobIds -> JobRows] /\ \A i \in MemJobIds : i # j => mjob'[i] = mjob[i]
  BY <1>1, <1>2 DEF JobsOK
<1>4. Unclaimed(j)
  BY DEF AddJob, Fresh, Unclaimed
<1>5. \A i \in MemJobIds : Unclaimed(i)' => Unclaimed(i)
  BY <1>3, <1>4 DEF Unclaimed
<1>q. QED BY <1>3, <1>5, JobsKept

\* A thread goes to its next place with its job.
LEMMA MovesOn ==
  ASSUME ThreadsOK, NEW p \in Reviewers, rev[p].pc # "idle", NEW pc \in Places, MoveTo(p, pc)
  PROVE  ThreadsOK'
<1>1. rev[p] \in Threads /\ rev[p].job \in MemJobIds
  BY DEF ThreadsOK
<1>2. [rev[p] EXCEPT !.pc = pc] \in Threads /\ [rev[p] EXCEPT !.pc = pc].job = rev[p].job
  BY <1>1 DEF Threads, Places
<1>3. rev' = [rev EXCEPT ![p] = [rev[p] EXCEPT !.pc = pc]]
  BY DEF MoveTo
<1>q. QED BY <1>1, <1>2, <1>3 DEF ThreadsOK

-----------------------------------------------------------------------------
\* Every step of the worker, the turns and the deletion keeps the count of begun jobs.
LEMMA JobsInductive == BegunInv /\ [MemNext]_memoryVars => JobsOK'
<1> SUFFICES ASSUME BegunInv, [MemNext]_memoryVars PROVE JobsOK'
  OBVIOUS
<1>0. JobsOK /\ ThreadsOK
  BY DEF BegunInv
<1>1. ASSUME UNCHANGED <<mjob, executed>> PROVE JobsOK'
  BY <1>0, <1>1 DEF JobsOK, Counted, Unclaimed
<1>2. ASSUME NEW p \in Reviewers, LockStep(p) \/ StopWorker(p) PROVE JobsOK'
  BY <1>1, <1>2 DEF LockStep, OpenLock, UnlinkLock, CreateLock, BecomeWorker, StopWorker
<1>3. ASSUME NEW p \in Reviewers, MemDies(p) PROVE JobsOK'
  <2>1. \A j \in MemJobIds : mjob[j] \in JobRows /\ [mjob[j] EXCEPT !.owner = "dead"] \in JobRows
                             /\ [mjob[j] EXCEPT !.owner = "dead"].st = mjob[j].st
    BY <1>0 DEF JobsOK, JobRows
  <2>2. mjob' = [j \in MemJobIds |-> IF mjob[j].owner = p THEN [mjob[j] EXCEPT !.owner = "dead"] ELSE mjob[j]]
    BY <1>3 DEF MemDies
  <2>3. mjob' \in [MemJobIds -> JobRows] /\ \A j \in MemJobIds : mjob'[j].st = mjob[j].st
    BY <2>1, <2>2
  <2>q. QED BY <1>0, <1>3, <2>3, JobsKept DEF MemDies, Unclaimed
<1>4. ASSUME NEW p \in Reviewers, NEW j \in MemJobIds, ClaimJob(p, j) PROVE JobsOK'
  <2>1. mjob[j] \in JobRows /\ mjob[j].st = "pending"
    BY <1>0, <1>4 DEF JobsOK, ClaimJob
  <2>2. [mjob[j] EXCEPT !.st = "processing", !.owner = p, !.lease = "live"] \in JobRows
        /\ [mjob[j] EXCEPT !.st = "processing", !.owner = p, !.lease = "live"].st = "processing"
    BY <2>1 DEF JobRows
  <2>3. mjob' \in [MemJobIds -> JobRows] /\ mjob'[j].st = "processing" /\ \A i \in MemJobIds : i # j => mjob'[i] = mjob[i]
    BY <1>0, <1>4, <2>2 DEF ClaimJob, JobsOK
  <2>4. executed[j] \in [begun : Nat, deferred : Nat] /\ executed[j].begun <= executed[j].deferred
    BY <1>0, <2>1 DEF JobsOK, Counted, Unclaimed
  <2>5. [executed[j] EXCEPT !.begun = executed[j].begun + 1] \in [begun : Nat, deferred : Nat]
        /\ [executed[j] EXCEPT !.begun = executed[j].begun + 1].begun <= [executed[j] EXCEPT !.begun = executed[j].begun + 1].deferred + 1
    BY <2>4
  <2>6. executed' = [executed EXCEPT ![j] = [executed[j] EXCEPT !.begun = executed[j].begun + 1]]
    BY <1>4 DEF ClaimJob
  <2>7. /\ executed' \in [MemJobIds -> [begun : Nat, deferred : Nat]]
        /\ executed'[j].begun <= executed'[j].deferred + 1
        /\ \A i \in MemJobIds : i # j => executed'[i] = executed[i]
    BY <1>0, <2>5, <2>6 DEF JobsOK
  <2>q. QED BY <1>0, <2>3, <2>7 DEF JobsOK, Counted, Unclaimed
<1>5. ASSUME NEW j \in MemJobIds, JobLeaseEnds(j) PROVE JobsOK'
  <2>1. mjob[j] \in JobRows /\ mjob[j].st = "processing"
    BY <1>0, <1>5 DEF JobsOK, JobLeaseEnds
  <2>2. [mjob[j] EXCEPT !.lease = "expired"] \in JobRows /\ [mjob[j] EXCEPT !.lease = "expired"].st = "processing"
    BY <2>1 DEF JobRows
  <2>3. mjob' = [mjob EXCEPT ![j] = [mjob[j] EXCEPT !.lease = "expired"]] /\ executed' = executed
    BY <1>5 DEF JobLeaseEnds
  <2>q. QED BY <1>0, <2>2, <2>3, RowEnds
<1>6. ASSUME NEW p \in Reviewers, RecoverJobs(p) PROVE JobsOK'
  <2>1. PICK gone \in SUBSET MemJobIds :
          mjob' = [j \in MemJobIds |-> IF j \in gone THEN EndedJob("failed", mjob[j]) ELSE mjob[j]]
    BY <1>6 DEF RecoverJobs, Abandoned
  <2>2. \A j \in MemJobIds : mjob[j] \in JobRows
    BY <1>0 DEF JobsOK
  <2>3. \A j \in MemJobIds : EndedJob("failed", mjob[j]) \in JobRows /\ EndedJob("failed", mjob[j]).st = "failed"
    BY <2>2, EndedIsRow
  <2>4. mjob' \in [MemJobIds -> JobRows] /\ \A j \in MemJobIds : mjob'[j] = mjob[j] \/ mjob'[j].st = "failed"
    BY <2>1, <2>2, <2>3
  <2>q. QED BY <1>0, <1>6, <2>4, JobsKept DEF RecoverJobs, Unclaimed
<1>7. ASSUME NEW p \in Reviewers, Embed(p) PROVE JobsOK'
  <2>1. rev[p].job \in MemJobIds
    BY <1>0, <1>7 DEF Embed, At, ThreadsOK
  <2>2. PICK j \in MemJobIds : j = rev[p].job
    BY <2>1
  <2>3. mjob[j] \in JobRows /\ executed[j] \in [begun : Nat, deferred : Nat] /\ executed[j].begun <= executed[j].deferred + 1
    BY <1>0 DEF JobsOK, Counted
  <2>4. CASE executed' = executed /\ \E st \in {"completed", "failed"} : FinishJob(p, st)
    BY <1>0, <2>1, <2>4, FinishKeeps
  <2>5. CASE FinishJob(p, "pending") /\ executed' = [executed EXCEPT ![j].deferred = @ + 1]
    <3>1. /\ [executed[j] EXCEPT !.deferred = @ + 1] \in [begun : Nat, deferred : Nat]
          /\ [executed[j] EXCEPT !.deferred = @ + 1].begun <= [executed[j] EXCEPT !.deferred = @ + 1].deferred
      BY <2>3
    <3>2. /\ executed' \in [MemJobIds -> [begun : Nat, deferred : Nat]]
          /\ executed'[j] = [executed[j] EXCEPT !.deferred = @ + 1]
          /\ \A i \in MemJobIds : i # j => executed'[i] = executed[i]
      BY <1>0, <2>3, <2>5, <3>1 DEF JobsOK
    <3>3. mjob' \in [MemJobIds -> JobRows] /\ \A i \in MemJobIds : i # j => mjob'[i] = mjob[i]
      BY <1>0, <2>2, <2>3, <2>5, EndedIsRow DEF FinishJob, JobsOK
    <3>4. \A i \in MemJobIds : Counted(i)'
      <4>1. Counted(j)'
        BY <3>1, <3>2 DEF Counted
      <4>2. ASSUME NEW i \in MemJobIds, i # j PROVE Counted(i)'
        BY <1>0, <3>2, <3>3, <4>2 DEF JobsOK, Counted, Unclaimed
      <4>q. QED BY <4>1, <4>2
    <3>q. QED BY <3>2, <3>3, <3>4 DEF JobsOK
  <2>q. QED BY <1>7, <2>2, <2>4, <2>5 DEF Embed
<1>8. ASSUME NEW p \in Reviewers, SetupFails(p) \/ CompleteReview(p) PROVE JobsOK'
  <2>1. rev[p].job \in MemJobIds /\ executed' = executed /\ \E st \in {"completed", "failed"} : FinishJob(p, st)
    BY <1>0, <1>8 DEF SetupFails, CompleteReview, At, ThreadsOK
  <2>q. QED BY <1>0, <2>1, FinishKeeps
<1>9. ASSUME NEW p \in Reviewers, Backfill(p) PROVE JobsOK'
  <2>1. CASE \E j \in MemJobIds : AddJob(j, "embedding")
    BY <1>0, <1>9, <2>1, AddKeeps DEF Backfill
  <2>2. CASE UNCHANGED <<mjob, known>>
    BY <1>1, <1>9, <2>2 DEF Backfill
  <2>q. QED BY <1>9, <2>1, <2>2 DEF Backfill
<1>10. ASSUME NEW p \in Reviewers, ReleaseJob(p) PROVE JobsOK'
  <2>1. rev[p].job \in MemJobIds /\ executed' = executed
    BY <1>0, <1>10 DEF ReleaseJob, At, ThreadsOK
  <2>2. mjob[rev[p].job] \in JobRows
    BY <1>0, <2>1 DEF JobsOK
  <2>3. CASE mjob' = [mjob EXCEPT ![rev[p].job] = EndedJob("failed", mjob[rev[p].job])]
    BY <1>0, <2>1, <2>2, <2>3, EndedIsRow, RowEnds
  <2>4. CASE mjob' = mjob
    BY <1>1, <2>1, <2>4
  <2>q. QED BY <1>10, <2>3, <2>4 DEF ReleaseJob
<1>11. ASSUME NEW p \in Reviewers, \/ ReadEvents(p) \/ DecideTriple(p) \/ InsertMemory(p) \/ NextTriple(p) \/ CheckProcedure(p)
                                   \/ LearnProcedure(p) \/ ReadStatus(p) \/ WriteStatus(p)
       PROVE JobsOK'
  BY <1>1, <1>11 DEF ReadEvents, DecideTriple, InsertMemory, NextTriple, CheckProcedure, LearnProcedure, ReadStatus, WriteStatus
<1>12. ASSUME TurnStep \/ EraseChecks PROVE JobsOK'
  <2>1. CASE NewReview /\ executed' = executed
    BY <1>0, <2>1, AddKeeps DEF NewReview
  <2>2. CASE UNCHANGED <<mjob, executed>>
    BY <1>1, <2>2
  <2>q. QED BY <1>12, <2>1, <2>2 DEF TurnStep, TurnSuspends, TurnReads, TurnWrites, TurnEnqueues, TurnFinalized, EraseChecks
<1>13. ASSUME EraseMemory PROVE JobsOK'
  <2>1. \A j \in MemJobIds : mjob[j] \in JobRows /\ [mjob[j] EXCEPT !.st = "cancelled"] \in JobRows
                             /\ [mjob[j] EXCEPT !.st = "cancelled"].st = "cancelled"
    BY <1>0 DEF JobsOK, JobRows
  <2>2. mjob' = [j \in MemJobIds |-> IF mjob[j].st = "none" THEN mjob[j] ELSE [mjob[j] EXCEPT !.st = "cancelled"]]
    BY <1>13 DEF EraseMemory
  <2>3. mjob' \in [MemJobIds -> JobRows] /\ \A j \in MemJobIds : mjob'[j] = mjob[j] \/ mjob'[j].st = "cancelled"
    BY <2>1, <2>2
  <2>q. QED BY <1>0, <1>13, <2>3, JobsKept DEF EraseMemory, Unclaimed
<1>q. QED
  BY <1>1, <1>2, <1>3, <1>4, <1>5, <1>6, <1>7, <1>8, <1>9, <1>10, <1>11, <1>12, <1>13 DEF MemNext, ReviewStep, memoryVars

-----------------------------------------------------------------------------
\* Every step keeps that a working thread has a job.
LEMMA ThreadsInductive == BegunInv /\ [MemNext]_memoryVars => ThreadsOK'
<1> SUFFICES ASSUME BegunInv, [MemNext]_memoryVars PROVE ThreadsOK'
  OBVIOUS
<1>0. ThreadsOK /\ episode \in Statuses
  BY DEF BegunInv, EpisodeOK
<1>1. ASSUME rev' = rev PROVE ThreadsOK'
  BY <1>0, <1>1 DEF ThreadsOK
<1>2. ASSUME NEW p \in Reviewers, \/ LockStep(p) \/ StopWorker(p) \/ RecoverJobs(p) PROVE ThreadsOK'
  BY <1>1, <1>2 DEF LockStep, OpenLock, UnlinkLock, CreateLock, BecomeWorker, StopWorker, RecoverJobs
<1>3. ASSUME NEW p \in Reviewers, rev' = [rev EXCEPT ![p] = IdleThread] PROVE ThreadsOK'
  BY <1>0, <1>3, MemoryAssumption DEF ThreadsOK, Threads, IdleThread
<1>4. ASSUME NEW p \in Reviewers, MemDies(p) \/ ReleaseJob(p) PROVE ThreadsOK'
  BY <1>3, <1>4 DEF MemDies, ReleaseJob
<1>5. ASSUME NEW p \in Reviewers, NEW j \in MemJobIds, ClaimJob(p, j) PROVE ThreadsOK'
  BY <1>0, <1>5 DEF ClaimJob, ThreadsOK, Threads, MemJobIds
<1>6. ASSUME NEW p \in Reviewers, ReadStatus(p) PROVE ThreadsOK'
  <2>1. rev[p] \in Threads /\ rev[p].job \in MemJobIds
    BY <1>0, <1>6 DEF ThreadsOK, ReadStatus, At
  <2>2. rev' = [rev EXCEPT ![p] = [pc |-> "write", job |-> rev[p].job, seen |-> episode]]
    BY <1>6 DEF ReadStatus
  <2>q. QED BY <1>0, <2>1, <2>2 DEF ThreadsOK, Threads
<1>7. ASSUME NEW p \in Reviewers,
             \/ ReadEvents(p) \/ SetupFails(p) \/ DecideTriple(p) \/ InsertMemory(p) \/ NextTriple(p) \/ CheckProcedure(p)
             \/ LearnProcedure(p) \/ Backfill(p) \/ CompleteReview(p) \/ Embed(p) \/ WriteStatus(p)
      PROVE ThreadsOK'
  <2>1. rev[p].pc # "idle"
    BY <1>7 DEF ReadEvents, SetupFails, DecideTriple, InsertMemory, NextTriple, CheckProcedure, LearnProcedure, Backfill,
                CompleteReview, Embed, WriteStatus, At
  <2>2. \E pc \in Places : MoveTo(p, pc)
    BY <1>7 DEF ReadEvents, SetupFails, DecideTriple, InsertMemory, NextTriple, CheckProcedure, LearnProcedure, Backfill,
                CompleteReview, Embed, WriteStatus, Places
  <2>q. QED BY <1>0, <2>1, <2>2, MovesOn
<1>8. ASSUME TurnStep \/ EraseChecks \/ EraseMemory \/ \E j \in MemJobIds : JobLeaseEnds(j) PROVE ThreadsOK'
  BY <1>1, <1>8 DEF TurnStep, TurnSuspends, TurnReads, TurnWrites, TurnEnqueues, TurnFinalized, EraseChecks, EraseMemory, JobLeaseEnds
<1>q. QED
  BY <1>1, <1>2, <1>4, <1>5, <1>6, <1>7, <1>8 DEF MemNext, ReviewStep, memoryVars

\* finish_episode writes one of the statuses of the table.
LEMMA WrittenIsStatus ==
  ASSUME episode \in Statuses, NEW seen, NEW status \in Statuses, Written(seen, status)
  PROVE  episode' \in Statuses
  BY DEF Written, Statuses, Refusals

\* Every step keeps the domain of the episode's status.
LEMMA EpisodeInductive == BegunInv /\ [MemNext]_memoryVars => EpisodeOK'
<1> SUFFICES ASSUME BegunInv, [MemNext]_memoryVars PROVE EpisodeOK'
  OBVIOUS
<1>0. EpisodeOK
  BY DEF BegunInv
<1>1. ASSUME UNCHANGED <<episode, chat>> PROVE EpisodeOK'
  BY <1>0, <1>1 DEF EpisodeOK
<1>2. ASSUME NEW p \in Reviewers, WriteStatus(p) PROVE EpisodeOK'
  <2>1. episode' \in Statuses
    BY <1>0, <1>2, WrittenIsStatus DEF WriteStatus, EpisodeOK, Statuses
  <2>q. QED BY <1>0, <1>2, <2>1 DEF WriteStatus, EpisodeOK
<1>3. ASSUME TurnStep PROVE EpisodeOK'
  <2>1. CASE TurnSuspends
    BY <1>0, <2>1 DEF TurnSuspends, EpisodeOK, Statuses
  <2>2. CASE TurnReads
    BY <1>0, <2>2 DEF TurnReads, EpisodeOK
  <2>3. CASE TurnWrites
    <3>1. chat.end \in Statuses => episode' \in Statuses
      BY <1>0, <2>3, WrittenIsStatus DEF TurnWrites, EpisodeOK
    <3>2. episode' \in Statuses
      BY <1>0, <2>3, <3>1 DEF TurnWrites, EpisodeOK, Statuses
    <3>3. chat' \in [pc : {"running", "write", "review", "over"}, end : {"none", "verified", "refused"}, seen : Statuses \cup {"none"}]
      BY <1>0, <2>3 DEF TurnWrites, Over, EpisodeOK
    <3>4. chat'.pc # "write"
      BY <1>0, <2>3 DEF TurnWrites, Over, EpisodeOK
    <3>q. QED BY <3>2, <3>3, <3>4 DEF EpisodeOK
  <2>4. CASE TurnEnqueues
    BY <1>0, <2>4 DEF TurnEnqueues, Over, EpisodeOK
  <2>5. CASE TurnFinalized
    BY <1>0, <2>5 DEF TurnFinalized, Over, EpisodeOK, Statuses, Refusals
  <2>q. QED BY <1>3, <2>1, <2>2, <2>3, <2>4, <2>5 DEF TurnStep
<1>4. ASSUME EraseChecks \/ EraseMemory PROVE EpisodeOK'
  BY <1>0, <1>4 DEF EraseChecks, EraseMemory, EpisodeOK, Statuses
<1>5. ASSUME NEW p \in Reviewers,
             \/ LockStep(p) \/ StopWorker(p) \/ RecoverJobs(p) \/ MemDies(p) \/ ReleaseJob(p) \/ ReadStatus(p)
             \/ ReadEvents(p) \/ SetupFails(p) \/ DecideTriple(p) \/ InsertMemory(p) \/ NextTriple(p) \/ CheckProcedure(p)
             \/ LearnProcedure(p) \/ Backfill(p) \/ CompleteReview(p) \/ Embed(p)
             \/ \E j \in MemJobIds : ClaimJob(p, j)
      PROVE EpisodeOK'
  BY <1>1, <1>5 DEF LockStep, OpenLock, UnlinkLock, CreateLock, BecomeWorker, StopWorker, RecoverJobs, MemDies, ReleaseJob,
     ReadStatus, ReadEvents, SetupFails, DecideTriple, InsertMemory, NextTriple, CheckProcedure, LearnProcedure, Backfill,
     CompleteReview, Embed, ClaimJob
<1>6. ASSUME NEW j \in MemJobIds, JobLeaseEnds(j) PROVE EpisodeOK'
  BY <1>1, <1>6 DEF JobLeaseEnds
<1>q. QED
  BY <1>1, <1>2, <1>3, <1>4, <1>5, <1>6 DEF MemNext, ReviewStep, memoryVars

-----------------------------------------------------------------------------
\* A review that was begun is not begun again, and an embedding job only after its thread put
\* it back, under any interleaving of claim, recover and release_after_execution.
THEOREM JobsBegunOnce == MemSpec => []BegunOnce
<1>1. BegunInv => BegunOnce
  BY DEF BegunInv, JobsOK, BegunOnce, Counted
<1>2. BegunInv /\ [MemNext]_memoryVars => BegunInv'
  BY JobsInductive, ThreadsInductive, EpisodeInductive DEF BegunInv
<1>q. QED
  BY MemInitial, <1>1, <1>2, PTL DEF MemSpec

-----------------------------------------------------------------------------
(* The deletion *)

\* The episode is deleted by the erasure alone, which waits for the end of the turn.
ErasePhases == /\ eraser \in {"none", "checked", "done"}
               /\ episode = "deleted" <=> eraser = "done"
               /\ eraser # "none" => chat.pc = "over"

\* A thread writes after the erasure only where it had announced the row before, and no
\* place it reaches from there announces another.
Announced == {"supersede", "learn", "procedure"}
Muted(p) == /\ leftover[p] \in {0, 1}
            /\ eraser # "done" => leftover[p] = 0
            /\ leftover[p] = 1 => rev[p].pc \notin Announced

\* A review the erasure has seen is cancelled, and nobody adds one afterwards.
Silenced(j) == eraser = "done" /\ mjob[j].kind = "review" => mjob[j].st \in {"none", "cancelled"}

SilentInv == /\ ErasePhases
             /\ leftover \in [Reviewers -> Nat] /\ \A p \in Reviewers : Muted(p)
             /\ \A j \in MemJobIds : Silenced(j)

\* A store nobody deletes from satisfies the invariant of the deletion.
LEMMA SilentInitial == MemInit => SilentInv
BY DEF MemInit, SilentInv, ErasePhases, Muted, Silenced

\* finish_episode never revives a deleted episode and never deletes one.
LEMMA WrittenKeepsDeleted ==
  ASSUME NEW seen, NEW status \in {"verified", "refused"}, Written(seen, status)
  PROVE  episode' = "deleted" <=> episode = "deleted"
BY DEF Written, Refusals

\* Every step keeps what a phase of the deletion says of the episode and its jobs.
LEMMA PhasesInductive == BegunInv /\ SilentInv /\ [MemNext]_memoryVars => ErasePhases'
<1> SUFFICES ASSUME BegunInv, SilentInv, [MemNext]_memoryVars PROVE ErasePhases'
  OBVIOUS
<1>0. ErasePhases /\ EpisodeOK
  BY DEF BegunInv, SilentInv
<1>1. ASSUME UNCHANGED <<episode, chat, eraser>> PROVE ErasePhases'
  BY <1>0, <1>1 DEF ErasePhases
<1>2. ASSUME NEW p \in Reviewers, WriteStatus(p) PROVE ErasePhases'
  <2>1. UNCHANGED <<chat, eraser>> /\ (episode' = "deleted" <=> episode = "deleted")
    BY <1>2, WrittenKeepsDeleted DEF WriteStatus
  <2>q. QED BY <1>0, <2>1 DEF ErasePhases
<1>3. ASSUME TurnStep PROVE ErasePhases'
  <2>1. chat.pc # "over" /\ UNCHANGED eraser
    BY <1>3 DEF TurnStep, TurnSuspends, TurnReads, TurnWrites, TurnEnqueues, TurnFinalized
  <2>2. eraser = "none" /\ episode # "deleted"
    BY <1>0, <2>1 DEF ErasePhases
  <2>3. CASE TurnWrites
    <3>1. chat.end \in {"verified", "refused"}
      BY <1>0, <2>3 DEF TurnWrites, EpisodeOK
    <3>2. episode' # "deleted"
      BY <2>2, <2>3, <3>1, WrittenKeepsDeleted DEF TurnWrites
    <3>q. QED BY <2>1, <2>2, <3>2 DEF ErasePhases
  <2>4. CASE TurnSuspends \/ TurnReads \/ TurnEnqueues \/ TurnFinalized
    <3>1. episode' # "deleted"
      BY <2>2, <2>4 DEF TurnSuspends, TurnReads, TurnEnqueues, TurnFinalized, Refusals
    <3>q. QED BY <2>1, <2>2, <3>1 DEF ErasePhases
  <2>q. QED BY <1>3, <2>3, <2>4 DEF TurnStep
<1>4. ASSUME EraseChecks \/ EraseMemory PROVE ErasePhases'
  BY <1>0, <1>4 DEF EraseChecks, EraseMemory, ErasePhases
<1>5. ASSUME NEW p \in Reviewers,
             \/ LockStep(p) \/ StopWorker(p) \/ RecoverJobs(p) \/ MemDies(p) \/ ReleaseJob(p) \/ ReadStatus(p)
             \/ ReadEvents(p) \/ SetupFails(p) \/ DecideTriple(p) \/ InsertMemory(p) \/ NextTriple(p) \/ CheckProcedure(p)
             \/ LearnProcedure(p) \/ Backfill(p) \/ CompleteReview(p) \/ Embed(p)
             \/ \E j \in MemJobIds : ClaimJob(p, j)
      PROVE ErasePhases'
  BY <1>1, <1>5 DEF LockStep, OpenLock, UnlinkLock, CreateLock, BecomeWorker, StopWorker, RecoverJobs, MemDies, ReleaseJob,
     ReadStatus, ReadEvents, SetupFails, DecideTriple, InsertMemory, NextTriple, CheckProcedure, LearnProcedure, Backfill,
     CompleteReview, Embed, ClaimJob
<1>6. ASSUME NEW j \in MemJobIds, JobLeaseEnds(j) PROVE ErasePhases'
  BY <1>1, <1>6 DEF JobLeaseEnds
<1>q. QED
  BY <1>1, <1>2, <1>3, <1>4, <1>5, <1>6 DEF MemNext, ReviewStep, memoryVars

\* A row is written by a thread at a place that announced it.
LEMMA QuietInductive ==
  BegunInv /\ SilentInv /\ [MemNext]_memoryVars
    => leftover' \in [Reviewers -> Nat] /\ \A p \in Reviewers : Muted(p)'
<1> SUFFICES ASSUME BegunInv, SilentInv, [MemNext]_memoryVars
             PROVE  leftover' \in [Reviewers -> Nat] /\ \A p \in Reviewers : Muted(p)'
  OBVIOUS
<1>0. ErasePhases /\ leftover \in [Reviewers -> Nat] /\ (\A p \in Reviewers : Muted(p)) /\ rev \in [Reviewers -> Threads]
  BY DEF BegunInv, SilentInv, ThreadsOK
<1> DEFINE Goal == leftover' \in [Reviewers -> Nat] /\ \A p \in Reviewers : Muted(p)'
\* Nobody enters a place that announces, and no row is written.
<1>1. ASSUME UNCHANGED leftover, eraser' = eraser \/ eraser' = "done",
             \A p \in Reviewers : leftover[p] = 1 => rev'[p].pc \notin Announced
      PROVE  Goal
  BY <1>0, <1>1 DEF Muted
<1>2. ASSUME UNCHANGED <<leftover, rev>>, eraser' = eraser \/ eraser' = "done" PROVE Goal
  BY <1>0, <1>1, <1>2 DEF Muted
<1>3. ASSUME NEW p \in Reviewers, NEW pc \in Places, MoveTo(p, pc), UNCHANGED <<leftover, eraser>>,
             pc \in Announced => episode # "deleted" \/ rev[p].pc \in Announced
      PROVE  Goal
  <2>1. rev'[p].pc = pc /\ \A q \in Reviewers \ {p} : rev'[q] = rev[q]
    BY <1>0, <1>3 DEF MoveTo, Threads
  <2>2. ASSUME NEW q \in Reviewers, leftover[q] = 1 PROVE rev'[q].pc \notin Announced
    <3>1. eraser = "done" /\ episode = "deleted" /\ rev[q].pc \notin Announced
      BY <1>0, <2>2 DEF Muted, ErasePhases
    <3>q. QED BY <1>3, <2>1, <3>1
  <2>q. QED BY <1>1, <1>3, <2>2
<1>4. ASSUME NEW p \in Reviewers, NEW pc \in {"next", "backfill"}, MoveTo(p, pc), Row(p), UNCHANGED eraser,
             rev[p].pc \in Announced \/ episode # "deleted"
      PROVE  Goal
  <2>1. rev'[p].pc = pc /\ \A q \in Reviewers \ {p} : rev'[q] = rev[q]
    BY <1>0, <1>4 DEF MoveTo, Threads
  <2>2. CASE episode = "deleted"
    <3>1. eraser = "done" /\ leftover[p] = 0
      BY <1>0, <1>4, <2>2 DEF ErasePhases, Muted
    <3>2. leftover' = [leftover EXCEPT ![p] = leftover[p] + 1]
      BY <1>4, <2>2 DEF Row
    <3>3. leftover' \in [Reviewers -> Nat] /\ leftover'[p] = 1 /\ \A q \in Reviewers \ {p} : leftover'[q] = leftover[q]
      BY <1>0, <3>1, <3>2
    <3>4. Muted(p)'
      BY <1>4, <2>1, <3>1, <3>3 DEF Muted, Announced
    <3>5. ASSUME NEW q \in Reviewers \ {p} PROVE Muted(q)'
      BY <1>0, <1>4, <2>1, <3>3 DEF Muted
    <3>q. QED BY <3>3, <3>4, <3>5
  <2>3. CASE episode # "deleted"
    <3>1. UNCHANGED leftover /\ eraser # "done"
      BY <1>0, <1>4, <2>3 DEF Row, ErasePhases
    <3>2. \A q \in Reviewers : leftover[q] = 0
      BY <1>0, <3>1 DEF Muted
    <3>q. QED BY <1>1, <1>4, <3>1, <3>2
  <2>q. QED BY <2>2, <2>3
<1>5. ASSUME NEW p \in Reviewers, LockStep(p) \/ StopWorker(p) \/ RecoverJobs(p) PROVE Goal
  BY <1>2, <1>5 DEF LockStep, OpenLock, UnlinkLock, CreateLock, BecomeWorker, StopWorker, RecoverJobs
<1>6. ASSUME NEW p \in Reviewers, MemDies(p) \/ ReleaseJob(p) \/ ReadStatus(p) \/ \E j \in MemJobIds : ClaimJob(p, j) PROVE Goal
  <2>1. /\ UNCHANGED <<leftover, eraser>>
        /\ \E t \in {"idle", "write", "claimed"} : \E row : row.pc = t /\ rev' = [rev EXCEPT ![p] = row]
    <3>1. CASE MemDies(p) \/ ReleaseJob(p)
      BY <3>1 DEF MemDies, ReleaseJob, IdleThread
    <3>2. CASE ReadStatus(p)
      BY <3>2 DEF ReadStatus
    <3>3. CASE \E j \in MemJobIds : ClaimJob(p, j)
      BY <3>3 DEF ClaimJob
    <3>q. QED BY <1>6, <3>1, <3>2, <3>3
  <2>2. rev'[p].pc \notin Announced /\ \A q \in Reviewers \ {p} : rev'[q] = rev[q]
    BY <1>0, <2>1 DEF Announced
  <2>q. QED BY <1>0, <1>1, <2>1, <2>2 DEF Muted
<1>7. ASSUME NEW p \in Reviewers, InsertMemory(p) PROVE Goal
  <2>1. CASE MoveTo(p, "next") /\ Row(p) /\ (rev[p].pc = "supersede" \/ episode # "deleted")
    BY <1>4, <1>7, <2>1 DEF InsertMemory, Announced
  <2>2. CASE MoveTo(p, "backfill") /\ UNCHANGED leftover
    BY <1>3, <1>7, <2>2 DEF InsertMemory, Places, Announced
  <2>q. QED BY <1>7, <2>1, <2>2 DEF InsertMemory, At, Kept
<1>8. ASSUME NEW p \in Reviewers, LearnProcedure(p) PROVE Goal
  BY <1>4, <1>8 DEF LearnProcedure, At, Announced
<1>9. ASSUME NEW p \in Reviewers, \/ ReadEvents(p) \/ DecideTriple(p) \/ NextTriple(p) \/ CheckProcedure(p)
      PROVE  Goal
  <2>1. UNCHANGED <<leftover, eraser>>
    BY <1>9 DEF ReadEvents, DecideTriple, NextTriple, CheckProcedure
  <2>2. PICK pc \in Places : MoveTo(p, pc) /\ (pc \in Announced => episode # "deleted" \/ rev[p].pc \in Announced)
    BY <1>9 DEF ReadEvents, DecideTriple, NextTriple, CheckProcedure, Places, Announced, Kept, At
  <2>q. QED BY <1>3, <2>1, <2>2
<1>10. ASSUME NEW p \in Reviewers, SetupFails(p) \/ Backfill(p) \/ CompleteReview(p) \/ Embed(p) \/ WriteStatus(p)
       PROVE  Goal
  <2>1. UNCHANGED <<leftover, eraser>>
    BY <1>10 DEF SetupFails, Backfill, CompleteReview, Embed, WriteStatus
  <2>2. PICK pc \in {"release", "complete", "read"} : MoveTo(p, pc)
    BY <1>10 DEF SetupFails, Backfill, CompleteReview, Embed, WriteStatus
  <2>q. QED BY <1>3, <2>1, <2>2 DEF Places, Announced
<1>11. ASSUME TurnStep \/ EraseChecks \/ EraseMemory \/ \E j \in MemJobIds : JobLeaseEnds(j) PROVE Goal
  <2>1. CASE EraseChecks
    <3>1. UNCHANGED <<leftover, rev>> /\ eraser = "none" /\ eraser' = "checked"
      BY <2>1 DEF EraseChecks
    <3>q. QED BY <1>0, <3>1 DEF Muted
  <2>2. CASE TurnStep \/ EraseMemory \/ \E j \in MemJobIds : JobLeaseEnds(j)
    BY <1>2, <2>2 DEF TurnStep, TurnSuspends, TurnReads, TurnWrites, TurnEnqueues, TurnFinalized, EraseMemory, JobLeaseEnds
  <2>q. QED BY <1>11, <2>1, <2>2
<1>q. QED
  BY <1>2, <1>5, <1>6, <1>7, <1>8, <1>9, <1>10, <1>11 DEF MemNext, ReviewStep, memoryVars

\* A row that changes keeps its kind and, when it is no embedding, was not cancelled; so the
\* cancelled reviews stay.
LEMMA RowsStaySilent ==
  ASSUME SilentInv, UNCHANGED eraser,
         \A j \in MemJobIds : \/ mjob'[j].kind = mjob[j].kind /\ mjob'[j].st = mjob[j].st
                              \/ mjob'[j].kind = mjob[j].kind /\ mjob[j].st \in {"pending", "processing"}
                              \/ mjob'[j].kind = "embedding"
  PROVE  \A j \in MemJobIds : Silenced(j)'
BY DEF SilentInv, Silenced

\* After the deletion no step adds to what a job may still write.
LEMMA SilencedInductive == BegunInv /\ SilentInv /\ [MemNext]_memoryVars => \A j \in MemJobIds : Silenced(j)'
<1> SUFFICES ASSUME BegunInv, SilentInv, [MemNext]_memoryVars PROVE \A j \in MemJobIds : Silenced(j)'
  OBVIOUS
<1>0. ErasePhases /\ mjob \in [MemJobIds -> JobRows] /\ ThreadsOK
  BY DEF BegunInv, SilentInv, JobsOK
<1> DEFINE Goal == \A j \in MemJobIds : Silenced(j)'
<1>1. ASSUME UNCHANGED <<mjob, eraser>> PROVE Goal
  BY <1>1, RowsStaySilent
<1>2. ASSUME eraser' # "done" PROVE Goal
  BY <1>2 DEF Silenced
\* A row that was processed is ended.
<1>3. ASSUME NEW p \in Reviewers, rev[p].job \in MemJobIds, UNCHANGED eraser,
             NEW st \in {"completed", "failed", "pending"}, FinishJob(p, st)
      PROVE  Goal
  <2>1. CASE UNCHANGED mjob
    BY <1>1, <1>3, <2>1
  <2>2. CASE mjob[rev[p].job].st = "processing" /\ mjob' = [mjob EXCEPT ![rev[p].job] = EndedJob(st, mjob[rev[p].job])]
    <3>1. EndedJob(st, mjob[rev[p].job]).kind = mjob[rev[p].job].kind
      BY <1>0, <1>3 DEF EndedJob, JobRows
    <3>q. QED BY <1>0, <1>3, <2>2, <3>1, RowsStaySilent
  <2>q. QED BY <1>3, <2>1, <2>2 DEF FinishJob, Owns
<1>4. ASSUME NEW p \in Reviewers, MemDies(p) PROVE Goal
  <2>1. mjob' = [j \in MemJobIds |-> IF mjob[j].owner = p THEN [mjob[j] EXCEPT !.owner = "dead"] ELSE mjob[j]] /\ UNCHANGED eraser
    BY <1>4 DEF MemDies
  <2>2. \A j \in MemJobIds : mjob'[j].kind = mjob[j].kind /\ mjob'[j].st = mjob[j].st
    BY <1>0, <2>1 DEF JobRows
  <2>q. QED BY <2>1, <2>2, RowsStaySilent
<1>5. ASSUME NEW p \in Reviewers, NEW i \in MemJobIds, ClaimJob(p, i) PROVE Goal
  <2>1. mjob[i].st = "pending" /\ UNCHANGED eraser
        /\ mjob' = [mjob EXCEPT ![i] = [mjob[i] EXCEPT !.st = "processing", !.owner = p, !.lease = "live"]]
    BY <1>5 DEF ClaimJob
  <2>2. [mjob[i] EXCEPT !.st = "processing", !.owner = p, !.lease = "live"].kind = mjob[i].kind
    BY <1>0 DEF JobRows
  <2>q. QED BY <1>0, <2>1, <2>2, RowsStaySilent
<1>6. ASSUME NEW i \in MemJobIds, JobLeaseEnds(i) PROVE Goal
  <2>1. mjob' = [mjob EXCEPT ![i].lease = "expired"] /\ UNCHANGED eraser
    BY <1>6 DEF JobLeaseEnds
  <2>2. \A j \in MemJobIds : mjob'[j].kind = mjob[j].kind /\ mjob'[j].st = mjob[j].st
    BY <1>0, <2>1 DEF JobRows
  <2>q. QED BY <2>1, <2>2, RowsStaySilent
<1>7. ASSUME NEW p \in Reviewers, RecoverJobs(p) PROVE Goal
  <2>1. PICK gone \in SUBSET MemJobIds :
          /\ \A j \in gone : mjob[j].st = "processing"
          /\ mjob' = [j \in MemJobIds |-> IF j \in gone THEN EndedJob("failed", mjob[j]) ELSE mjob[j]]
    BY <1>7 DEF RecoverJobs, Abandoned
  <2>2. \A j \in MemJobIds : EndedJob("failed", mjob[j]).kind = mjob[j].kind
    BY <1>0 DEF EndedJob, JobRows
  <2>3. UNCHANGED eraser
    BY <1>7 DEF RecoverJobs
  <2>q. QED BY <1>0, <2>1, <2>2, <2>3, RowsStaySilent
<1>8. ASSUME NEW p \in Reviewers, SetupFails(p) \/ CompleteReview(p) \/ Embed(p) PROVE Goal
  <2>1. /\ rev[p].job \in MemJobIds /\ UNCHANGED eraser
        /\ \E st \in {"completed", "failed", "pending"} : FinishJob(p, st)
    BY <1>0, <1>8 DEF SetupFails, CompleteReview, Embed, At, ThreadsOK
  <2>q. QED BY <1>3, <2>1
<1>9. ASSUME NEW p \in Reviewers, ReleaseJob(p) PROVE Goal
  <2>1. rev[p].job \in MemJobIds /\ UNCHANGED eraser
    BY <1>0, <1>9 DEF ReleaseJob, At, ThreadsOK
  <2>2. CASE UNCHANGED mjob
    BY <1>1, <2>1, <2>2
  <2>3. CASE mjob[rev[p].job].st = "processing" /\ mjob' = [mjob EXCEPT ![rev[p].job] = EndedJob("failed", mjob[rev[p].job])]
    <3>1. EndedJob("failed", mjob[rev[p].job]).kind = mjob[rev[p].job].kind
      BY <1>0, <2>1 DEF EndedJob, JobRows
    <3>q. QED BY <1>0, <2>1, <2>3, <3>1, RowsStaySilent
  <2>q. QED BY <1>9, <2>2, <2>3 DEF ReleaseJob, Owns
<1>10. ASSUME NEW p \in Reviewers, Backfill(p) PROVE Goal
  <2>1. UNCHANGED eraser /\ (UNCHANGED mjob \/ \E j \in MemJobIds : AddJob(j, "embedding"))
    BY <1>10 DEF Backfill
  <2>2. ASSUME NEW i \in MemJobIds, AddJob(i, "embedding") PROVE Goal
    <3>1. mjob' = [mjob EXCEPT ![i] = Pending("embedding")] /\ Pending("embedding").kind = "embedding"
      BY <2>2 DEF AddJob, Pending
    <3>2. \A j \in MemJobIds : mjob'[j].kind = "embedding" \/ mjob'[j] = mjob[j]
      BY <1>0, <3>1
    <3>q. QED BY <2>1, <3>2, RowsStaySilent
  <2>q. QED BY <1>1, <2>1, <2>2
<1>11. ASSUME NEW p \in Reviewers, \/ LockStep(p) \/ StopWorker(p) \/ ReadStatus(p) \/ WriteStatus(p)
                                   \/ ReadEvents(p) \/ DecideTriple(p) \/ InsertMemory(p) \/ NextTriple(p)
                                   \/ CheckProcedure(p) \/ LearnProcedure(p)
       PROVE  Goal
  BY <1>1, <1>11 DEF LockStep, OpenLock, UnlinkLock, CreateLock, BecomeWorker, StopWorker, ReadStatus, WriteStatus, ReadEvents,
     DecideTriple, InsertMemory, NextTriple, CheckProcedure, LearnProcedure
<1>12. ASSUME TurnStep \/ EraseChecks PROVE Goal
  <2>1. eraser' # "done"
    BY <1>0, <1>12 DEF ErasePhases, TurnStep, TurnSuspends, TurnReads, TurnWrites, TurnEnqueues, TurnFinalized, EraseChecks
  <2>q. QED BY <1>2, <2>1
<1>13. ASSUME EraseMemory PROVE Goal
  <2>1. mjob' = [j \in MemJobIds |-> IF mjob[j].st = "none" THEN mjob[j] ELSE [mjob[j] EXCEPT !.st = "cancelled"]]
    BY <1>13 DEF EraseMemory
  <2>2. \A j \in MemJobIds : mjob'[j].st \in {"none", "cancelled"}
    BY <1>0, <2>1 DEF JobRows
  <2>q. QED BY <2>2 DEF Silenced
<1>q. QED
  BY <1>1, <1>4, <1>5, <1>6, <1>7, <1>8, <1>9, <1>10, <1>11, <1>12, <1>13 DEF MemNext, ReviewStep, memoryVars

LEMMA MemoryInductive == BegunInv /\ SilentInv /\ [MemNext]_memoryVars => BegunInv' /\ SilentInv'
BY JobsInductive, ThreadsInductive, EpisodeInductive, PhasesInductive, QuietInductive, SilencedInductive
DEF BegunInv, SilentInv

\* A thread the deletion has overtaken writes at most the one row it had announced, and no
\* review of the episode can be claimed again, under any number of processes, jobs and deaths
\* (add_event, add_semantic_memory, supersede_semantic_memory, erase_memory).
THEOREM ThreadsFallSilent == MemSpec => []ErasedFallsSilent
<1>1. SilentInv => ErasedFallsSilent
  BY DEF SilentInv, ErasePhases, Muted, Silenced, ErasedFallsSilent
<1>q. QED
  BY MemInitial, SilentInitial, MemoryInductive, <1>1, PTL DEF MemSpec

-----------------------------------------------------------------------------
(* The lock file and the queues of the processes *)

LocksTyped == /\ lockf \in [by : Reviewers \cup {"none"}, text : {"absent", "empty", "pid"}]
              /\ role \in [Reviewers -> {"off", "stale", "unlinked", "created", "queue", "worker"}]
              /\ known \in [Reviewers -> SUBSET MemJobIds] /\ deaths \in 0..MaxDeaths

\* Nobody runs yet.
LEMMA LocksInitial == MemInit => LocksTyped
BY MemoryAssumption DEF MemInit, LocksTyped, NoFile

\* The lock file changes hands, the queues lose what is claimed and gain what is found.
LEMMA LocksInductive == LocksTyped /\ [MemNext]_memoryVars => LocksTyped'
<1> SUFFICES ASSUME LocksTyped, [MemNext]_memoryVars PROVE LocksTyped'
  OBVIOUS
<1>1. ASSUME UNCHANGED <<lockf, role, known, deaths>> PROVE LocksTyped'
  BY <1>1 DEF LocksTyped
<1>2. ASSUME NEW p \in Reviewers, LockStep(p) PROVE LocksTyped'
  <2>1. CASE OpenLock(p) \/ UnlinkLock(p) \/ CreateLock(p)
    BY <2>1 DEF OpenLock, UnlinkLock, CreateLock, LocksTyped, NoFile
  <2>2. CASE BecomeWorker(p)
    <3>1. Backlog \subseteq MemJobIds
      BY DEF Backlog
    <3>2. lockf' \in [by : Reviewers \cup {"none"}, text : {"absent", "empty", "pid"}]
      BY <2>2 DEF BecomeWorker, LocksTyped
    <3>q. QED BY <2>2, <3>1, <3>2 DEF BecomeWorker, LocksTyped
  <2>q. QED BY <1>2, <2>1, <2>2 DEF LockStep
<1>3. ASSUME NEW p \in Reviewers, StopWorker(p) \/ MemDies(p) PROVE LocksTyped'
  <2>1. lockf' \in [by : Reviewers \cup {"none"}, text : {"absent", "empty", "pid"}]
    BY <1>3 DEF StopWorker, MemDies, LocksTyped, NoFile
  <2>2. deaths' \in 0..MaxDeaths
    BY <1>3, MemoryAssumption DEF StopWorker, MemDies, LocksTyped
  <2>3. role' = [role EXCEPT ![p] = "off"] /\ known' = [known EXCEPT ![p] = {}]
    BY <1>3 DEF StopWorker, MemDies
  <2>q. QED BY <2>1, <2>2, <2>3 DEF LocksTyped
<1>4. ASSUME NEW p \in Reviewers, NEW j \in MemJobIds, ClaimJob(p, j) PROVE LocksTyped'
  BY <1>4 DEF ClaimJob, LocksTyped
<1>5. ASSUME NEW p \in Reviewers, Backfill(p) PROVE LocksTyped'
  BY <1>5 DEF Backfill, LocksTyped
<1>6. ASSUME NEW p \in Reviewers, ReviewStep(p), ~Backfill(p) PROVE LocksTyped'
  BY <1>1, <1>6 DEF ReviewStep, ReadEvents, SetupFails, DecideTriple, InsertMemory, NextTriple, CheckProcedure,
     LearnProcedure, CompleteReview, Embed, ReadStatus, WriteStatus, ReleaseJob
<1>7. ASSUME NEW p \in Reviewers, RecoverJobs(p) PROVE LocksTyped'
  BY <1>1, <1>7 DEF RecoverJobs
<1>8. ASSUME NEW j \in MemJobIds, JobLeaseEnds(j) PROVE LocksTyped'
  BY <1>1, <1>8 DEF JobLeaseEnds
<1>9. ASSUME TurnStep \/ EraseChecks \/ EraseMemory PROVE LocksTyped'
  BY <1>1, <1>9 DEF TurnStep, TurnSuspends, TurnReads, TurnWrites, TurnEnqueues, TurnFinalized, EraseChecks, EraseMemory
<1>q. QED
  BY <1>1, <1>2, <1>3, <1>4, <1>5, <1>6, <1>7, <1>8, <1>9 DEF MemNext, memoryVars

MemInv == BegunInv /\ SilentInv /\ LocksTyped

LEMMA MemStarts == MemInit => MemInv
BY MemInitial, SilentInitial, LocksInitial DEF MemInv

LEMMA MemStep == MemInv /\ [MemNext]_memoryVars => MemInv'
BY MemoryInductive, LocksInductive DEF MemInv

\* What each row of the memory store, each thread and the lock file may hold.
LEMMA MemInvTypes == MemInv => MemTypeOK
BY DEF MemInv, BegunInv, SilentInv, JobsOK, ThreadsOK, EpisodeOK, ErasePhases, LocksTyped, MemTypeOK
=============================================================================
