--------------------------- MODULE ScheduleEngines ---------------------------
(****************************************************************************)
(* One scheduled job and the two engines that may run it: the local one     *)
(* (scheduling/store.py, engine.py), which claims a due row, and Temporal   *)
(* (schedules.py, schedule_workflow.py), where a remote Schedule fires an   *)
(* occurrence Workflow; and the migration between them                      *)
(* (schedule_migration.py).  A slot is a due time; the job is an agent job. *)
(****************************************************************************)
EXTENDS Naturals

CONSTANTS
  MaxSlot,    \* bound on the clock
  MaxFaults   \* bound on deaths: of a local worker, of a prepare Activity, of a synchronisation

ASSUME ScheduleAssumption == MaxSlot \in Nat /\ MaxFaults \in Nat

VARIABLES
  now,     \* the clock, in slots
  jrow,    \* scheduled_jobs: execution_backend, is_enabled, next_run_at
  lrun,    \* the last row of scheduled_job_runs and its lock
  bind,    \* temporal_schedule_bindings: exists, enabled, cancelled, retired, start_at, revision # applied
  mig,     \* temporal_schedule_migrations: state, restore_enabled, source_digest (still fresh)
  fence,   \* schedule_occurrence_fences by slot
  remote,  \* the Schedule of the service: exists, enabled, start_at
  sy,      \* sync under its rpc_lock: where it is, the row it read, whether it still is the row, what follows
  occ,     \* temporal_schedule_occurrences by slot, with whether the submission is recorded
  owf,     \* the occurrence Workflow by slot
  osub,    \* its submission
  ran,     \* how often a slot was started, by either engine
  off,     \* the human's last word was to stop the job
  faults

schedVars == <<now, jrow, lrun, bind, mig, fence, remote, sy, occ, owf, osub, ran, off, faults>>

Slots == 1..MaxSlot
Later == MaxSlot + 1  \* a due time outside the model
MovingTo == {"cutting_over", "activating", "rolling_back"}
Soonest(a, b) == IF a > b THEN a ELSE b
NoSync == [pc |-> "idle", row |-> [enabled |-> FALSE, gone |-> FALSE, start |-> 0], fresh |-> FALSE, next |-> "none"]

SchedInit ==
  /\ now = 0
  /\ jrow = [by |-> "sqlite", on |-> TRUE, due |-> 1]
  /\ lrun = [st |-> "none", live |-> FALSE]
  /\ bind = [is |-> FALSE, enabled |-> FALSE, cancelled |-> FALSE, retired |-> FALSE, start |-> 0, dirty |-> FALSE]
  /\ mig = [st |-> "none", restore |-> FALSE, fresh |-> FALSE]
  /\ fence = [s \in Slots |-> "none"]
  /\ remote = [is |-> FALSE, on |-> FALSE, start |-> 0]
  /\ sy = NoSync
  /\ occ = [s \in Slots |-> [st |-> "none", known |-> FALSE]]
  /\ owf = [s \in Slots |-> "none"] /\ osub = [s \in Slots |-> "none"]
  /\ ran = [s \in Slots |-> 0] /\ off = FALSE /\ faults = 0

\* revision=revision+1: what a synchronisation has read is no longer the row.
Bumped(row) == bind' = [row EXCEPT !.dirty = TRUE]
Stale == sy' = [sy EXCEPT !.fresh = FALSE]
\* A change of the legacy row: its digest is no longer the staged one.
Touched(row) == [row EXCEPT !.fresh = FALSE]

----------------------------------------------------------------------------
(* The local engine *)

\* admit_legacy: without a migration always; after one, once per slot.
AdmitLegacy == mig.st = "none" \/ (mig.st \in {"sqlite", "staged"} /\ fence[jrow.due] = "none")

\* claim_due of an agent job: a run whose worker is lost is never repeated.
ClaimDue ==
  /\ jrow.by = "sqlite" /\ jrow.on /\ jrow.due <= now /\ ~lrun.live
  /\ IF lrun.st = "running"
       THEN /\ lrun' = [lrun EXCEPT !.st = "uncertain"] /\ jrow' = [jrow EXCEPT !.on = FALSE]
            /\ mig' = Touched(mig) /\ UNCHANGED <<fence, ran>>
       ELSE IF ~AdmitLegacy
         THEN jrow' = [jrow EXCEPT !.on = FALSE] /\ mig' = Touched(mig) /\ UNCHANGED <<lrun, fence, ran>>
         ELSE /\ lrun' = [st |-> "running", live |-> TRUE]
              /\ fence' = IF mig.st = "none" THEN fence ELSE [fence EXCEPT ![jrow.due] = "sqlite"]
              /\ ran' = [ran EXCEPT ![jrow.due] = @ + 1] /\ UNCHANGED <<jrow, mig>>
  /\ UNCHANGED <<now, bind, remote, sy, occ, owf, osub, off, faults>>

\* complete, under a live lock; a failure or the run limit disables the job.
Complete ==
  /\ lrun.st = "running" /\ lrun.live
  /\ \E st \in {"done", "uncertain"}, on \in BOOLEAN :
       /\ lrun' = [st |-> st, live |-> FALSE] /\ (st = "uncertain" => ~on)
       /\ jrow' = [jrow EXCEPT !.on = @ /\ on, !.due = IF now < MaxSlot THEN now + 1 ELSE Later]
  /\ mig' = Touched(mig)
  /\ UNCHANGED <<now, bind, fence, remote, sy, occ, owf, osub, ran, off, faults>>

\* The worker is lost and its lock expires; complete is refused from then on.
LockExpires ==
  /\ lrun.live /\ faults < MaxFaults /\ faults' = faults + 1
  /\ lrun' = [lrun EXCEPT !.live = FALSE]
  /\ UNCHANGED <<now, jrow, bind, mig, fence, remote, sy, occ, owf, osub, ran, off>>

----------------------------------------------------------------------------
(* The human: disable, change, stage, cutover, rollback *)

Disable ==
  /\ ~off /\ off' = TRUE
  /\ jrow' = [jrow EXCEPT !.on = FALSE]
  /\ mig' = [Touched(mig) EXCEPT !.restore = FALSE]
  /\ IF bind.is THEN Bumped([bind EXCEPT !.enabled = FALSE]) /\ Stale ELSE UNCHANGED <<bind, sy>>
  /\ UNCHANGED <<now, lrun, fence, remote, occ, owf, osub, ran, faults>>

Editable == bind.is /\ mig.st = "temporal" /\ ~bind.retired /\ ~bind.cancelled
\* cancel_tasks: the submissions the occurrences know.
Cancels == [s \in Slots |-> IF occ[s].known /\ osub[s] = "open" THEN "cancelled" ELSE osub[s]]

Change(action) ==
  /\ Editable /\ off' = (action # "resume")
  /\ Bumped([bind EXCEPT !.enabled = (action = "resume"), !.cancelled = (action = "cancel")]) /\ Stale
  /\ osub' = IF action = "cancel" THEN Cancels ELSE osub
  /\ UNCHANGED <<now, jrow, lrun, mig, fence, remote, occ, owf, ran, faults>>

\* A second cancel cancels the tasks known by now.
CancelAgain ==
  /\ bind.cancelled /\ mig.st = "temporal" /\ ~bind.retired /\ osub' = Cancels
  /\ UNCHANGED <<now, jrow, lrun, bind, mig, fence, remote, sy, occ, owf, ran, off, faults>>

IdleLegacy == ~lrun.live /\ lrun.st \notin {"running", "uncertain"}

StageJob ==
  /\ jrow.by = "sqlite" /\ IdleLegacy /\ mig.st \in {"none", "sqlite", "staged"} /\ ~(mig.st = "staged" /\ mig.fresh)
  /\ Bumped([bind EXCEPT !.is = TRUE, !.enabled = FALSE, !.cancelled = FALSE, !.retired = FALSE, !.start = now + 1]) /\ Stale
  /\ mig' = [st |-> "staged", restore |-> jrow.on, fresh |-> TRUE]
  /\ UNCHANGED <<now, jrow, lrun, fence, remote, occ, owf, osub, ran, off, faults>>

Cutover ==
  /\ mig.st = "staged" /\ mig.fresh /\ IdleLegacy
  /\ jrow' = [jrow EXCEPT !.by = "transition", !.on = FALSE]
  /\ mig' = [mig EXCEPT !.st = "cutting_over"]
  /\ Bumped([bind EXCEPT !.enabled = FALSE, !.start = Soonest(now + 1, jrow.due)]) /\ Stale
  /\ UNCHANGED <<now, lrun, fence, remote, occ, owf, osub, ran, off, faults>>

\* Mutant of Restores: what the human stopped meanwhile is forgotten.
RestoresStaged == mig.restore

\* A rollback of a job that is off keeps it off.
Restores == mig.restore /\ ~(mig.st = "temporal" /\ ~bind.enabled)

Rollback ==
  /\ mig.st \in {"staged", "cutting_over", "activating", "temporal"}
  /\ jrow' = [jrow EXCEPT !.by = "transition", !.on = FALSE]
  /\ mig' = [mig EXCEPT !.st = "rolling_back", !.restore = Restores]
  /\ Bumped([bind EXCEPT !.enabled = FALSE]) /\ Stale
  /\ UNCHANGED <<now, lrun, fence, remote, occ, owf, osub, ran, off, faults>>

----------------------------------------------------------------------------
(* sync under the job's rpc_lock, and the step of apply that follows it *)

\* reconcile starts it for a changed row, apply in every state it moves on.
SyncStart(next) ==
  /\ sy.pc = "idle" /\ bind.is
  /\ \/ next = "none" /\ bind.dirty
     \/ next = mig.st /\ mig.st \in {"cutting_over", "rolling_back"} /\ ~bind.retired
     \/ next = "activating" /\ mig.st = "activating"
     \/ next = "retire" /\ mig.st = "rolling_back" /\ bind.retired
  /\ LET row == IF next = "activating"
                  THEN [bind EXCEPT !.enabled = mig.restore, !.start = Soonest(@, now + 1), !.dirty = TRUE] ELSE bind IN
     /\ bind' = row
     /\ sy' = [pc |-> "rpc", fresh |-> TRUE, next |-> next,
               row |-> [enabled |-> row.enabled, gone |-> row.cancelled \/ row.retired, start |-> row.start]]
  /\ UNCHANGED <<now, jrow, lrun, mig, fence, remote, occ, owf, osub, ran, off, faults>>

\* Delete and look, or create paused and update; a cancelled row's tasks are cancelled again.
SyncRpc ==
  /\ sy.pc = "rpc" /\ sy' = [sy EXCEPT !.pc = "mark"]
  /\ remote' = IF sy.row.gone THEN [remote EXCEPT !.is = FALSE, !.on = FALSE]
                              ELSE [is |-> TRUE, on |-> sy.row.enabled, start |-> sy.row.start]
  /\ osub' = IF sy.row.gone /\ bind.cancelled THEN Cancels ELSE osub
  /\ UNCHANGED <<now, jrow, lrun, bind, mig, fence, occ, owf, ran, off, faults>>

\* Mutant of SyncMark: the row is marked as applied, whatever it has become.
SyncMarkBlind ==
  /\ sy.pc = "mark" /\ bind' = [bind EXCEPT !.dirty = FALSE]
  /\ sy' = IF sy.next = "none" THEN NoSync ELSE [sy EXCEPT !.pc = "next"]
  /\ UNCHANGED <<now, jrow, lrun, mig, fence, remote, occ, owf, osub, ran, off, faults>>

\* UPDATE .. WHERE revision=the one it read.
SyncMark ==
  /\ sy.pc = "mark"
  /\ bind' = [bind EXCEPT !.dirty = @ /\ ~sy.fresh]
  /\ sy' = IF sy.next = "none" THEN NoSync ELSE [sy EXCEPT !.pc = "next"]
  /\ UNCHANGED <<now, jrow, lrun, mig, fence, remote, occ, owf, osub, ran, off, faults>>

\* The process dies: with the update lost, a new Schedule is left paused.
SyncDies ==
  /\ sy.pc # "idle" /\ faults < MaxFaults /\ faults' = faults + 1 /\ sy' = NoSync
  /\ remote' \in {remote, IF sy.pc = "rpc" /\ ~sy.row.gone /\ ~remote.is
                            THEN [is |-> TRUE, on |-> FALSE, start |-> sy.row.start] ELSE remote}
  /\ UNCHANGED <<now, jrow, lrun, bind, mig, fence, occ, owf, osub, ran, off>>

\* Mutant of Drained: an occurrence that is under way is not waited for.
DrainedRows == \A s \in Slots : occ[s].st # "uncertain" /\ (occ[s].known => osub[s] # "uncertain")

\* drain: no open occurrence, none whose result is unknown, no open task it knows.
Drained == \A s \in Slots : /\ occ[s].st \notin {"reserved", "running", "uncertain"}
                            /\ owf[s] \in {"none", "closed"}
                            /\ occ[s].known => osub[s] \notin {"open", "uncertain"}

ApplyCut ==
  /\ sy.next = "cutting_over" /\ mig.st = "cutting_over"
  /\ jrow' = [jrow EXCEPT !.by = "temporal", !.on = FALSE]
  /\ mig' = [mig EXCEPT !.st = "activating"]
  /\ Bumped([bind EXCEPT !.enabled = mig.restore])
ApplyActive ==
  /\ sy.next = "activating" /\ mig.st = "activating" /\ ~bind.dirty
  /\ mig' = [mig EXCEPT !.st = "temporal"] /\ UNCHANGED <<jrow, bind>>
ApplyRetire ==
  /\ sy.next = "rolling_back" /\ mig.st = "rolling_back" /\ Drained
  /\ Bumped([bind EXCEPT !.retired = TRUE]) /\ UNCHANGED <<jrow, mig>>

\* The first due time after now and after every fenced slot.
NextDue == CHOOSE d \in (now + 1)..Later : /\ \A s \in Slots : fence[s] # "none" => d > s
                                           /\ \A e \in (now + 1)..(d - 1) : \E s \in e..MaxSlot : fence[s] # "none"

ApplyRestore ==
  /\ sy.next = "retire" /\ mig.st = "rolling_back" /\ ~bind.dirty
  /\ jrow' = [by |-> "sqlite", on |-> mig.restore, due |-> NextDue]
  /\ mig' = [mig EXCEPT !.st = "sqlite"] /\ UNCHANGED bind

Refused == \/ mig.st # (IF sy.next = "retire" THEN "rolling_back" ELSE sy.next)
           \/ sy.next \in {"activating", "retire"} /\ bind.dirty
           \/ sy.next = "rolling_back" /\ ~Drained

\* Whatever does not fit any more is left to the next round.
Apply ==
  /\ sy.pc = "next" /\ sy' = NoSync
  /\ \/ ApplyCut \/ ApplyActive \/ ApplyRetire \/ ApplyRestore
     \/ Refused /\ UNCHANGED <<jrow, mig, bind>>
  /\ UNCHANGED <<now, lrun, fence, remote, occ, owf, osub, ran, off, faults>>

----------------------------------------------------------------------------
(* The occurrences *)

\* The Schedule fires with overlap SKIP: not while an occurrence Workflow is open.
Clock ==
  /\ now < MaxSlot /\ now' = now + 1
  /\ owf' = IF remote.is /\ remote.on /\ remote.start <= now + 1 /\ \A s \in Slots : owf[s] \in {"none", "closed"}
              THEN [owf EXCEPT ![now + 1] = "open"] ELSE owf
  /\ UNCHANGED <<jrow, lrun, bind, mig, fence, remote, sy, occ, osub, ran, off, faults>>

\* The metadata lock: a prepare holds it from the reservation on, the sync of a cancelled row too.
MetaFree == /\ \A s \in Slots : owf[s] \notin {"reserved", "submitted"}
            /\ ~(sy.pc # "idle" /\ sy.row.gone /\ bind.cancelled)

\* admit_native of a new occurrence.
AdmitNative(s) == /\ mig.st = "temporal" /\ bind.enabled /\ s >= bind.start
                  /\ fence[s] = "none"
AdmitExisting == mig.st \in {"temporal", "rolling_back"}

CloseWf(s) == owf' = [owf EXCEPT ![s] = "closed"]

\* prepare up to its first commit: refused, or a reservation; the run limit may be reached with it.
ReserveOcc(s) ==
  /\ owf[s] = "open" /\ MetaFree
  /\ IF bind.retired \/ bind.cancelled \/ (IF occ[s].st = "none" THEN ~AdmitNative(s) ELSE ~AdmitExisting)
       THEN CloseWf(s) /\ UNCHANGED <<occ, fence, bind, sy>>
       ELSE /\ owf' = [owf EXCEPT ![s] = "reserved"]
            /\ IF occ[s].st # "none" THEN UNCHANGED <<occ, fence, bind, sy>>
                 ELSE /\ occ' = [occ EXCEPT ![s].st = "reserved"] /\ fence' = [fence EXCEPT ![s] = "temporal"]
                      /\ \/ UNCHANGED <<bind, sy>>
                         \/ Bumped([bind EXCEPT !.enabled = FALSE]) /\ Stale
  /\ UNCHANGED <<now, jrow, lrun, mig, remote, osub, ran, off, faults>>

\* for_task: the identity is deterministic, a repeated prepare finds the submission.
SubmitOcc(s) ==
  /\ owf[s] = "reserved" /\ owf' = [owf EXCEPT ![s] = "submitted"]
  /\ IF osub[s] = "none" THEN osub' = [osub EXCEPT ![s] = "open"] /\ ran' = [ran EXCEPT ![s] = @ + 1]
                         ELSE UNCHANGED <<osub, ran>>
  /\ UNCHANGED <<now, jrow, lrun, bind, mig, fence, remote, sy, occ, off, faults>>

RecordOcc(s) ==
  /\ owf[s] = "submitted" /\ owf' = [owf EXCEPT ![s] = "polling"]
  /\ occ' = IF occ[s].st = "reserved" THEN [occ EXCEPT ![s] = [st |-> "running", known |-> TRUE]] ELSE occ
  /\ UNCHANGED <<now, jrow, lrun, bind, mig, fence, remote, sy, osub, ran, off, faults>>

\* The worker dies in prepare: the Activity is repeated, or its attempts are used up.
PrepareDies(s) ==
  /\ owf[s] \in {"open", "reserved", "submitted"} /\ faults < MaxFaults /\ faults' = faults + 1
  /\ \E o \in {"open", "closed"} : owf' = [owf EXCEPT ![s] = o]
  /\ UNCHANGED <<now, jrow, lrun, bind, mig, fence, remote, sy, occ, osub, ran, off>>

\* The submission ends by itself.
SubEnds(s) ==
  /\ osub[s] = "open" /\ \E o \in {"completed", "failed", "uncertain"} : osub' = [osub EXCEPT ![s] = o]
  /\ UNCHANGED <<now, jrow, lrun, bind, mig, fence, remote, sy, occ, owf, ran, off, faults>>

\* finish: once per occurrence; anything but success, or the run limit, stops the job for good.
FinishOcc(s, st) ==
  /\ occ' = IF occ[s].st \in {"reserved", "running"} THEN [occ EXCEPT ![s].st = st] ELSE occ
  /\ IF occ[s].st \notin {"reserved", "running"} \/ bind.cancelled THEN UNCHANGED <<bind, sy, mig>>
       ELSE \E stop \in BOOLEAN :
              /\ (st # "completed" => stop)
              /\ Bumped([bind EXCEPT !.enabled = @ /\ ~stop]) /\ Stale
              /\ mig' = [mig EXCEPT !.restore = @ /\ ~stop]

SubTerminal == {"completed", "failed", "uncertain", "cancelled"}

\* poll: a cancelled row cancels, an ended submission is consumed.
Poll(s) ==
  /\ owf[s] = "polling" /\ MetaFree /\ CloseWf(s)
  /\ \/ bind.cancelled /\ osub' = Cancels /\ UNCHANGED <<occ, bind, sy, mig>>
     \/ ~bind.cancelled /\ occ[s].known /\ osub[s] \in SubTerminal /\ FinishOcc(s, osub[s]) /\ UNCHANGED osub
  /\ UNCHANGED <<now, jrow, lrun, fence, remote, ran, off, faults>>

\* _stop: by the Workflow when poll keeps failing, by reconcile when the Workflow is closed.
StopOcc(s) ==
  /\ MetaFree /\ occ[s].st \in {"reserved", "running"}
  /\ \/ owf[s] = "closed" /\ UNCHANGED faults
     \/ owf[s] = "polling" /\ faults < MaxFaults /\ faults' = faults + 1
  /\ CloseWf(s) /\ FinishOcc(s, "cancelled")
  /\ osub' = IF occ[s].known /\ osub[s] = "open" THEN [osub EXCEPT ![s] = "cancelled"] ELSE osub
  /\ UNCHANGED <<now, jrow, lrun, fence, remote, ran, off>>

Human == Disable \/ CancelAgain \/ StageJob \/ Cutover \/ Rollback \/ \E a \in {"pause", "resume", "cancel"} : Change(a)
Syncs == (\E n \in {"none", "retire"} \cup MovingTo : SyncStart(n)) \/ SyncRpc \/ SyncMark \/ Apply
Occurrence == \E s \in Slots : ReserveOcc(s) \/ SubmitOcc(s) \/ RecordOcc(s) \/ SubEnds(s) \/ Poll(s) \/ StopOcc(s)

SchedNext == \/ Human \/ Syncs \/ Occurrence
             \/ ClaimDue \/ Complete \/ Clock
             \/ LockExpires \/ SyncDies \/ \E s \in Slots : PrepareDies(s)

\* The migration reconciler takes its turn apart from the one that only carries changes over.
Carried == SyncStart("none")
Migrating == \E n \in {"retire"} \cup MovingTo : SyncStart(n)
\* What waits for the metadata lock; every occurrence does so finitely often.
Locked == \E s \in Slots : ReserveOcc(s) \/ Poll(s) \/ (StopOcc(s) /\ owf[s] = "closed")
Unlocked == \E s \in Slots : SubmitOcc(s) \/ RecordOcc(s) \/ SubEnds(s)
SchedFairness == /\ SF_schedVars(Migrating) /\ SF_schedVars(Carried) /\ WF_schedVars(SyncRpc \/ SyncMark \/ Apply)
                 /\ SF_schedVars(Locked) /\ WF_schedVars(Unlocked)

SchedSpec == SchedInit /\ [][SchedNext]_schedVars
SchedFairSpec == SchedSpec /\ SchedFairness

----------------------------------------------------------------------------
(* Properties *)

LocalRows == [by : {"sqlite", "transition", "temporal"}, on : BOOLEAN, due : 1..Later]
LocalRuns == [st : {"none", "running", "done", "uncertain"}, live : BOOLEAN]
Bindings == [is : BOOLEAN, enabled : BOOLEAN, cancelled : BOOLEAN, retired : BOOLEAN, start : 0..Later, dirty : BOOLEAN]
Migrations == [st : {"none", "staged", "temporal", "sqlite"} \cup MovingTo, restore : BOOLEAN, fresh : BOOLEAN]
Schedules == [is : BOOLEAN, on : BOOLEAN, start : 0..Later]
ReadRows == [enabled : BOOLEAN, gone : BOOLEAN, start : 0..Later]
Synchronisations == [pc : {"idle", "rpc", "mark", "next"}, row : ReadRows, fresh : BOOLEAN, next : {"none", "retire"} \cup MovingTo]
OccRows == [st : {"none", "reserved", "running"} \cup SubTerminal, known : BOOLEAN]

SchedTypeOK ==
  /\ now \in 0..MaxSlot /\ faults \in 0..MaxFaults /\ off \in BOOLEAN
  /\ jrow \in LocalRows /\ lrun \in LocalRuns /\ bind \in Bindings /\ mig \in Migrations
  /\ fence \in [Slots -> {"none", "sqlite", "temporal"}]
  /\ remote \in Schedules /\ sy \in Synchronisations /\ occ \in [Slots -> OccRows]
  /\ owf \in [Slots -> {"none", "open", "reserved", "submitted", "polling", "closed"}]
  /\ osub \in [Slots -> {"none", "open"} \cup SubTerminal]
  /\ ran \in [Slots -> Nat]

\* Whatever the migrations, rollbacks and deaths in between, a due time is started at most once
\* by the two engines together, and never by one while the other is at work.
ScheduledOnce ==
  /\ \A s \in Slots : ran[s] <= 1
  /\ lrun.live => \A s \in Slots : occ[s].st \notin {"reserved", "running"}

\* A job a human has stopped is not enabled again, in either engine, by a migration, a rollback or a late result.
\* And a row marked as applied is what the Schedule of the service does: a change made while
\* the synchronisation was under way with the row it had read is carried over by another one.
OffStaysOff ==
  /\ off => ~jrow.on /\ ~bind.enabled
  /\ (bind.is /\ ~bind.dirty) => /\ remote.is = ~(bind.cancelled \/ bind.retired)
                                 /\ remote.on = (remote.is /\ bind.enabled)

\* A migration or rollback ends, unless an uncertain run waits for a human.
Migrates == mig.st \in MovingTo
MigrationOver == mig.st \notin MovingTo \/ \E s \in Slots : "uncertain" \in {occ[s].st, osub[s]}
=============================================================================
