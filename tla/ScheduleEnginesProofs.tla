------------------------ MODULE ScheduleEnginesProofs ------------------------
(****************************************************************************)
(* One scheduled job between its two engines, for any clock and any number  *)
(* of deaths: what a human stopped stays stopped, what is marked as applied *)
(* is applied, and a due time is started once.                              *)
(****************************************************************************)
EXTENDS ScheduleEngines, TLAPS, WellFoundedInduction

\* The states between cutover and rollback, in which the local row cannot run.
Remote == {"cutting_over", "activating", "temporal"}
Gone == bind.cancelled \/ bind.retired

\* What a stop has to reach, so that no later step enables the job again: the local row, the
\* binding, and what a rollback would restore.
StopInv ==
  /\ mig.st # "none" => bind.is
  /\ bind.enabled => bind.is
  /\ mig.st \in Remote \cup {"rolling_back"} => jrow.by # "sqlite" /\ ~jrow.on
  /\ off => ~jrow.on /\ ~bind.enabled /\ (mig.restore => mig.st = "temporal")

\* What a synchronisation knows of the row: either it still is the row, or the row stays
\* marked as changed.
SyncInv ==
  /\ sy.pc # "idle" => bind.is
  /\ sy.pc \in {"rpc", "mark"} =>
       \/ bind.dirty /\ ~sy.fresh
       \/ (sy.row.enabled <=> bind.enabled) /\ (sy.row.gone <=> Gone)
  /\ sy.pc = "mark" => (remote.is <=> ~sy.row.gone) /\ (remote.on <=> remote.is /\ sy.row.enabled)
  /\ bind.is /\ ~bind.dirty => (remote.is <=> ~Gone) /\ (remote.on <=> remote.is /\ bind.enabled)

\* Only one engine is at work: the other one is drained before the row goes back.
EngineInv ==
  /\ mig.st \in Remote => ~lrun.live
  /\ sy.next = "retire" => mig.st = "rolling_back" /\ bind.retired
  /\ \A s \in Slots : occ[s].st \in {"reserved", "running"} =>
       mig.st \in {"temporal", "rolling_back"} /\ ~lrun.live /\ ~bind.retired

\* A started slot is behind the local due time, behind the start of the Schedule, or fenced.
SlotKept(s) ==
  /\ ran[s] <= 1
  /\ occ[s].st # "none" => fence[s] = "temporal"
  /\ owf[s] \in {"reserved", "submitted", "polling"} => occ[s].st # "none"
  /\ fence[s] = "temporal" /\ osub[s] = "none" => ran[s] = 0
  /\ ran[s] > 0 \/ owf[s] # "none" => s <= now
  /\ ran[s] > 0 /\ fence[s] = "none" =>
       /\ s < jrow.due \/ (s = jrow.due /\ (lrun.st = "running" \/ ~jrow.on))
       /\ mig.st \in Remote => s < bind.start

SlotInv ==
  /\ mig.st = "none" => \A s \in Slots : fence[s] = "none"
  /\ \A s \in Slots : SlotKept(s)

EnginesInv == SchedTypeOK /\ StopInv /\ SyncInv /\ EngineInv /\ SlotInv

\* The worker of a local run is lost.
LEMMA LockExpiresKeeps ==
  ASSUME ScheduleAssumption, EnginesInv, LockExpires
  PROVE  EnginesInv'
<1>1. /\ faults < MaxFaults /\ faults' = faults + 1
      /\ lrun' = [lrun EXCEPT !.live = FALSE]
      /\ UNCHANGED <<now, jrow, bind, mig, fence, remote, sy, occ, owf, osub, ran, off>>
  BY DEF LockExpires
<1>2. /\ lrun' \in LocalRuns
      /\ lrun'.st = lrun.st /\ lrun'.live = FALSE
  BY <1>1 DEF EnginesInv, SchedTypeOK, LocalRuns
<1>3. SchedTypeOK'
  BY <1>1, <1>2, ScheduleAssumption DEF EnginesInv, SchedTypeOK
<1>4. StopInv'
  BY <1>1, <1>2 DEF EnginesInv, SchedTypeOK, StopInv, Remote
<1>5. SyncInv'
  BY <1>1, <1>2 DEF EnginesInv, SchedTypeOK, SyncInv, Gone
<1>6. EngineInv'
  BY <1>1, <1>2 DEF EnginesInv, SchedTypeOK, EngineInv, Remote
<1>7. SlotInv'
  BY <1>1, <1>2 DEF EnginesInv, SchedTypeOK, SlotInv, SlotKept, Remote, Slots, Later
<1>. QED  BY <1>3, <1>4, <1>5, <1>6, <1>7 DEF EnginesInv

\* A due row is claimed, found lost, or not admitted (claim_due, admit_legacy).
LEMMA ClaimDueKeeps ==
  ASSUME ScheduleAssumption, EnginesInv, ClaimDue
  PROVE  EnginesInv'
<1>1. CASE lrun.st = "running"
  <2>1. /\ lrun' = [lrun EXCEPT !.st = "uncertain"]
        /\ jrow' = [jrow EXCEPT !.on = FALSE]
        /\ mig' = [mig EXCEPT !.fresh = FALSE]
        /\ UNCHANGED <<now, bind, fence, remote, sy, occ, owf, osub, ran, off, faults>>
    BY <1>1 DEF ClaimDue, Touched
  <2>2. /\ lrun' \in LocalRuns
        /\ lrun'.st = "uncertain" /\ lrun'.live = lrun.live
    BY <1>1, <2>1 DEF EnginesInv, SchedTypeOK, LocalRuns
  <2>3. /\ jrow' \in LocalRows
        /\ jrow'.by = jrow.by /\ jrow'.on = FALSE /\ jrow'.due = jrow.due
    BY <1>1, <2>1 DEF EnginesInv, SchedTypeOK, LocalRows
  <2>4. /\ mig' \in Migrations
        /\ mig'.st = mig.st /\ mig'.restore = mig.restore /\ mig'.fresh = FALSE
    BY <1>1, <2>1 DEF EnginesInv, SchedTypeOK, Migrations
  <2>5. SchedTypeOK'
    BY <2>1, <2>2, <2>3, <2>4, ScheduleAssumption DEF EnginesInv, SchedTypeOK
  <2>6. StopInv'
    BY <1>1, <2>1, <2>2, <2>3, <2>4 DEF EnginesInv, SchedTypeOK, StopInv, Remote
  <2>7. SyncInv'
    BY <1>1, <2>1, <2>2, <2>3, <2>4 DEF EnginesInv, SchedTypeOK, SyncInv, Gone
  <2>8. EngineInv'
    BY <1>1, <2>1, <2>2, <2>3, <2>4 DEF EnginesInv, SchedTypeOK, EngineInv, Remote
  <2>9. SlotInv'
    BY <1>1, <2>1, <2>2, <2>3, <2>4 DEF EnginesInv, SchedTypeOK, SlotInv, SlotKept, Remote, Slots, Later
  <2>. QED  BY <2>5, <2>6, <2>7, <2>8, <2>9 DEF EnginesInv
<1>2. CASE lrun.st # "running" /\ ~AdmitLegacy
  <2>1. /\ jrow' = [jrow EXCEPT !.on = FALSE]
        /\ mig' = [mig EXCEPT !.fresh = FALSE]
        /\ UNCHANGED <<now, lrun, bind, fence, remote, sy, occ, owf, osub, ran, off, faults>>
    BY <1>2 DEF ClaimDue, Touched
  <2>2. /\ jrow' \in LocalRows
        /\ jrow'.by = jrow.by /\ jrow'.on = FALSE /\ jrow'.due = jrow.due
    BY <1>2, <2>1 DEF EnginesInv, SchedTypeOK, LocalRows
  <2>3. /\ mig' \in Migrations
        /\ mig'.st = mig.st /\ mig'.restore = mig.restore /\ mig'.fresh = FALSE
    BY <1>2, <2>1 DEF EnginesInv, SchedTypeOK, Migrations
  <2>4. SchedTypeOK'
    BY <2>1, <2>2, <2>3, ScheduleAssumption DEF EnginesInv, SchedTypeOK
  <2>5. StopInv'
    BY <1>2, <2>1, <2>2, <2>3 DEF EnginesInv, SchedTypeOK, StopInv, Remote
  <2>6. SyncInv'
    BY <1>2, <2>1, <2>2, <2>3 DEF EnginesInv, SchedTypeOK, SyncInv, Gone
  <2>7. EngineInv'
    BY <1>2, <2>1, <2>2, <2>3 DEF EnginesInv, SchedTypeOK, EngineInv, Remote
  <2>8. SlotInv'
    BY <1>2, <2>1, <2>2, <2>3 DEF EnginesInv, SchedTypeOK, SlotInv, SlotKept, Remote, Slots, Later
  <2>. QED  BY <2>4, <2>5, <2>6, <2>7, <2>8 DEF EnginesInv
<1>3. CASE lrun.st # "running" /\ AdmitLegacy
  <2>1. /\ jrow.by = "sqlite" /\ jrow.on /\ jrow.due <= now
        /\ mig.st = "none" \/ (mig.st \in {"sqlite", "staged"} /\ fence[jrow.due] = "none")
        /\ lrun' = [st |-> "running", live |-> TRUE]
        /\ fence' = IF mig.st = "none" THEN fence ELSE [fence EXCEPT ![jrow.due] = "sqlite"]
        /\ ran' = [ran EXCEPT ![jrow.due] = @ + 1]
        /\ UNCHANGED <<now, jrow, bind, mig, remote, sy, occ, owf, osub, off, faults>>
    BY <1>3 DEF ClaimDue, AdmitLegacy
  <2>2. /\ lrun' \in LocalRuns
        /\ lrun'.st = "running" /\ lrun'.live = TRUE
    BY <1>3, <2>1, ScheduleAssumption DEF EnginesInv, SchedTypeOK, LocalRuns, LocalRows, Slots, Later
  <2>3. jrow.due \in Slots
    BY <1>3, <2>1, ScheduleAssumption DEF EnginesInv, SchedTypeOK, LocalRows, Slots, Later
  <2>4. SchedTypeOK'
    BY <2>1, <2>2, <2>3, ScheduleAssumption DEF EnginesInv, SchedTypeOK
  <2>5. StopInv'
    BY <1>3, <2>1, <2>2, <2>3 DEF EnginesInv, SchedTypeOK, StopInv, Remote
  <2>6. SyncInv'
    BY <1>3, <2>1, <2>2, <2>3 DEF EnginesInv, SchedTypeOK, SyncInv, Gone
  <2>7. EngineInv'
    BY <1>3, <2>1, <2>2, <2>3 DEF EnginesInv, SchedTypeOK, EngineInv, Remote
  <2>8. SlotInv'
    BY <1>3, <2>1, <2>2, <2>3 DEF EnginesInv, SchedTypeOK, SlotInv, SlotKept, Remote, Slots, Later
  <2>. QED  BY <2>4, <2>5, <2>6, <2>7, <2>8 DEF EnginesInv
<1>. QED  BY <1>1, <1>2, <1>3

\* A local run ends (complete).
LEMMA CompleteKeeps ==
  ASSUME ScheduleAssumption, EnginesInv, Complete
  PROVE  EnginesInv'
<1>0. PICK due : due = IF now < MaxSlot THEN now + 1 ELSE Later
  OBVIOUS
<1>1. PICK st \in {"done", "uncertain"}, go \in BOOLEAN :
      /\ lrun.st = "running"
      /\ lrun' = [st |-> st, live |-> FALSE]
      /\ go => jrow.on
      /\ jrow' = [jrow EXCEPT !.on = go, !.due = due]
      /\ due = IF now < MaxSlot THEN now + 1 ELSE Later
      /\ mig' = [mig EXCEPT !.fresh = FALSE]
      /\ UNCHANGED <<now, bind, fence, remote, sy, occ, owf, osub, ran, off, faults>>
  BY <1>0 DEF Complete, Touched
<1>2. /\ lrun' \in LocalRuns
      /\ lrun'.st = st /\ lrun'.live = FALSE
  BY <1>1, ScheduleAssumption DEF EnginesInv, SchedTypeOK, LocalRuns, Later
<1>3. due \in 1..Later /\ due > now
  BY <1>1, ScheduleAssumption DEF EnginesInv, SchedTypeOK, Later
<1>4. /\ jrow' \in LocalRows
      /\ jrow'.by = jrow.by /\ jrow'.on = go /\ jrow'.due = due
  BY <1>1, <1>3, ScheduleAssumption DEF EnginesInv, SchedTypeOK, LocalRows, Later
<1>5. /\ mig' \in Migrations
      /\ mig'.st = mig.st /\ mig'.restore = mig.restore /\ mig'.fresh = FALSE
  BY <1>1, <1>3, ScheduleAssumption DEF EnginesInv, SchedTypeOK, Migrations, Later
<1>6. SchedTypeOK'
  BY <1>1, <1>2, <1>3, <1>4, <1>5, ScheduleAssumption DEF EnginesInv, SchedTypeOK
<1>7. StopInv'
  BY <1>1, <1>2, <1>3, <1>4, <1>5 DEF EnginesInv, SchedTypeOK, StopInv, Remote
<1>8. SyncInv'
  BY <1>1, <1>2, <1>3, <1>4, <1>5 DEF EnginesInv, SchedTypeOK, SyncInv, Gone
<1>9. EngineInv'
  BY <1>1, <1>2, <1>3, <1>4, <1>5 DEF EnginesInv, SchedTypeOK, EngineInv, Remote
<1>10. SlotInv'
  BY <1>1, <1>2, <1>3, <1>4, <1>5 DEF EnginesInv, SchedTypeOK, SlotInv, SlotKept, Remote, Slots, Later
<1>. QED  BY <1>6, <1>7, <1>8, <1>9, <1>10 DEF EnginesInv

\* The job is disabled, with its binding if there is one (disable).
LEMMA DisableKeeps ==
  ASSUME ScheduleAssumption, EnginesInv, Disable
  PROVE  EnginesInv'
<1>1. CASE bind.is
  <2>1. /\ off' = TRUE
        /\ jrow' = [jrow EXCEPT !.on = FALSE]
        /\ mig' = [[mig EXCEPT !.fresh = FALSE] EXCEPT !.restore = FALSE]
        /\ bind' = [[bind EXCEPT !.enabled = FALSE] EXCEPT !.dirty = TRUE]
        /\ sy' = [sy EXCEPT !.fresh = FALSE]
        /\ UNCHANGED <<now, lrun, fence, remote, occ, owf, osub, ran, faults>>
    BY <1>1 DEF Disable, Touched, Bumped, Stale
  <2>2. /\ jrow' \in LocalRows
        /\ jrow'.by = jrow.by /\ jrow'.on = FALSE /\ jrow'.due = jrow.due
    BY <1>1, <2>1 DEF EnginesInv, SchedTypeOK, LocalRows
  <2>3. /\ mig' \in Migrations
        /\ mig'.st = mig.st /\ mig'.restore = FALSE /\ mig'.fresh = FALSE
    BY <1>1, <2>1 DEF EnginesInv, SchedTypeOK, Migrations
  <2>4. /\ bind' \in Bindings
        /\ bind'.is = bind.is /\ bind'.enabled = FALSE /\ bind'.cancelled = bind.cancelled /\ bind'.retired = bind.retired /\ bind'.start = bind.start /\ bind'.dirty = TRUE
    BY <1>1, <2>1 DEF EnginesInv, SchedTypeOK, Bindings
  <2>5. /\ sy' \in Synchronisations
        /\ sy'.pc = sy.pc /\ sy'.row = sy.row /\ sy'.fresh = FALSE /\ sy'.next = sy.next
    BY <1>1, <2>1 DEF EnginesInv, SchedTypeOK, Synchronisations
  <2>6. SchedTypeOK'
    BY <2>1, <2>2, <2>3, <2>4, <2>5, ScheduleAssumption DEF EnginesInv, SchedTypeOK
  <2>7. StopInv'
    BY <1>1, <2>1, <2>2, <2>3, <2>4, <2>5 DEF EnginesInv, SchedTypeOK, StopInv, Remote
  <2>8. SyncInv'
    BY <1>1, <2>1, <2>2, <2>3, <2>4, <2>5 DEF EnginesInv, SchedTypeOK, SyncInv, Gone
  <2>9. EngineInv'
    BY <1>1, <2>1, <2>2, <2>3, <2>4, <2>5 DEF EnginesInv, SchedTypeOK, EngineInv, Remote
  <2>10. SlotInv'
    BY <1>1, <2>1, <2>2, <2>3, <2>4, <2>5 DEF EnginesInv, SchedTypeOK, SlotInv, SlotKept, Remote, Slots, Later
  <2>. QED  BY <2>6, <2>7, <2>8, <2>9, <2>10 DEF EnginesInv
<1>2. CASE ~bind.is
  <2>1. /\ off' = TRUE
        /\ jrow' = [jrow EXCEPT !.on = FALSE]
        /\ mig' = [[mig EXCEPT !.fresh = FALSE] EXCEPT !.restore = FALSE]
        /\ UNCHANGED <<now, lrun, bind, fence, remote, sy, occ, owf, osub, ran, faults>>
    BY <1>2 DEF Disable, Touched
  <2>2. /\ jrow' \in LocalRows
        /\ jrow'.by = jrow.by /\ jrow'.on = FALSE /\ jrow'.due = jrow.due
    BY <1>2, <2>1 DEF EnginesInv, SchedTypeOK, LocalRows
  <2>3. /\ mig' \in Migrations
        /\ mig'.st = mig.st /\ mig'.restore = FALSE /\ mig'.fresh = FALSE
    BY <1>2, <2>1 DEF EnginesInv, SchedTypeOK, Migrations
  <2>4. SchedTypeOK'
    BY <2>1, <2>2, <2>3, ScheduleAssumption DEF EnginesInv, SchedTypeOK
  <2>5. StopInv'
    BY <1>2, <2>1, <2>2, <2>3 DEF EnginesInv, SchedTypeOK, StopInv, Remote
  <2>6. SyncInv'
    BY <1>2, <2>1, <2>2, <2>3 DEF EnginesInv, SchedTypeOK, SyncInv, Gone
  <2>7. EngineInv'
    BY <1>2, <2>1, <2>2, <2>3 DEF EnginesInv, SchedTypeOK, EngineInv, Remote
  <2>8. SlotInv'
    BY <1>2, <2>1, <2>2, <2>3 DEF EnginesInv, SchedTypeOK, SlotInv, SlotKept, Remote, Slots, Later
  <2>. QED  BY <2>4, <2>5, <2>6, <2>7, <2>8 DEF EnginesInv
<1>. QED  BY <1>1, <1>2


\* A cancellation ends the submissions that are open; none comes or goes with it.
SubsKept == /\ osub' \in [Slots -> {"none", "open"} \cup SubTerminal]
            /\ \A t \in Slots : osub'[t] = "none" <=> osub[t] = "none"

\* Stopping the running submissions of a job (fence, cancel) neither adds nor removes one.
LEMMA CancelsKeep ==
  ASSUME EnginesInv, osub' \in {Cancels, osub}
  PROVE  SubsKept
  BY DEF EnginesInv, SchedTypeOK, SubsKept, Cancels, SubTerminal

\* A synchronisation that is not under way.
LEMMA NoSyncTyped ==
  ASSUME ScheduleAssumption
  PROVE  /\ NoSync \in Synchronisations
         /\ NoSync.pc = "idle" /\ NoSync.fresh = FALSE /\ NoSync.next = "none"
  BY DEF ScheduleAssumption, NoSync, Synchronisations, ReadRows, Later

\* The later of two times of the clock is one.
LEMMA SoonestTyped ==
  ASSUME NEW a \in 0..Later, NEW b \in 0..Later, ScheduleAssumption
  PROVE  Soonest(a, b) \in 0..Later /\ Soonest(a, b) >= a /\ Soonest(a, b) >= b
  BY DEF Soonest, Later, ScheduleAssumption

\* The human pauses, resumes or cancels the job of the service (pause, resume, cancel).
LEMMA ChangeKeeps ==
  ASSUME ScheduleAssumption, EnginesInv, NEW action \in {"pause", "resume", "cancel"}, Change(action)
  PROVE  EnginesInv'
<1>1. CASE action = "pause"
  <2>1. /\ bind.is /\ mig.st = "temporal" /\ ~bind.retired
        /\ off' = TRUE
        /\ bind' = [[bind EXCEPT !.enabled = FALSE, !.cancelled = FALSE] EXCEPT !.dirty = TRUE]
        /\ sy' = [sy EXCEPT !.fresh = FALSE]
        /\ osub' = osub
        /\ UNCHANGED <<now, jrow, lrun, mig, fence, remote, occ, owf, ran, faults>>
    BY <1>1 DEF Change, Editable, Bumped, Stale
  <2>2. /\ bind' \in Bindings
        /\ bind'.is = bind.is /\ bind'.enabled = FALSE /\ bind'.cancelled = FALSE /\ bind'.retired = bind.retired /\ bind'.start = bind.start /\ bind'.dirty = TRUE
    BY <1>1, <2>1, CancelsKeep DEF EnginesInv, SchedTypeOK, Bindings
  <2>3. /\ sy' \in Synchronisations
        /\ sy'.pc = sy.pc /\ sy'.row = sy.row /\ sy'.fresh = FALSE /\ sy'.next = sy.next
    BY <1>1, <2>1, CancelsKeep DEF EnginesInv, SchedTypeOK, Synchronisations
  <2>4. SubsKept
    BY <1>1, <2>1, CancelsKeep DEF EnginesInv, SchedTypeOK
  <2>5. SchedTypeOK'
    BY <2>1, <2>2, <2>3, <2>4, ScheduleAssumption DEF EnginesInv, SchedTypeOK, SubsKept
  <2>6. StopInv'
    BY <1>1, <2>1, <2>2, <2>3, <2>4 DEF EnginesInv, SchedTypeOK, StopInv, Remote
  <2>7. SyncInv'
    BY <1>1, <2>1, <2>2, <2>3, <2>4 DEF EnginesInv, SchedTypeOK, SyncInv, Gone
  <2>8. EngineInv'
    BY <1>1, <2>1, <2>2, <2>3, <2>4 DEF EnginesInv, SchedTypeOK, EngineInv, Remote
  <2>9. SlotInv'
    BY <1>1, <2>1, <2>2, <2>3, <2>4 DEF EnginesInv, SchedTypeOK, SlotInv, SlotKept, Remote, Slots, Later, SubsKept
  <2>. QED  BY <2>5, <2>6, <2>7, <2>8, <2>9 DEF EnginesInv
<1>2. CASE action = "resume"
  <2>1. /\ bind.is /\ mig.st = "temporal" /\ ~bind.retired
        /\ off' = FALSE
        /\ bind' = [[bind EXCEPT !.enabled = TRUE, !.cancelled = FALSE] EXCEPT !.dirty = TRUE]
        /\ sy' = [sy EXCEPT !.fresh = FALSE]
        /\ osub' = osub
        /\ UNCHANGED <<now, jrow, lrun, mig, fence, remote, occ, owf, ran, faults>>
    BY <1>2 DEF Change, Editable, Bumped, Stale
  <2>2. /\ bind' \in Bindings
        /\ bind'.is = bind.is /\ bind'.enabled = TRUE /\ bind'.cancelled = FALSE /\ bind'.retired = bind.retired /\ bind'.start = bind.start /\ bind'.dirty = TRUE
    BY <1>2, <2>1, CancelsKeep DEF EnginesInv, SchedTypeOK, Bindings
  <2>3. /\ sy' \in Synchronisations
        /\ sy'.pc = sy.pc /\ sy'.row = sy.row /\ sy'.fresh = FALSE /\ sy'.next = sy.next
    BY <1>2, <2>1, CancelsKeep DEF EnginesInv, SchedTypeOK, Synchronisations
  <2>4. SubsKept
    BY <1>2, <2>1, CancelsKeep DEF EnginesInv, SchedTypeOK
  <2>5. SchedTypeOK'
    BY <2>1, <2>2, <2>3, <2>4, ScheduleAssumption DEF EnginesInv, SchedTypeOK, SubsKept
  <2>6. StopInv'
    BY <1>2, <2>1, <2>2, <2>3, <2>4 DEF EnginesInv, SchedTypeOK, StopInv, Remote
  <2>7. SyncInv'
    BY <1>2, <2>1, <2>2, <2>3, <2>4 DEF EnginesInv, SchedTypeOK, SyncInv, Gone
  <2>8. EngineInv'
    BY <1>2, <2>1, <2>2, <2>3, <2>4 DEF EnginesInv, SchedTypeOK, EngineInv, Remote
  <2>9. SlotInv'
    BY <1>2, <2>1, <2>2, <2>3, <2>4 DEF EnginesInv, SchedTypeOK, SlotInv, SlotKept, Remote, Slots, Later, SubsKept
  <2>. QED  BY <2>5, <2>6, <2>7, <2>8, <2>9 DEF EnginesInv
<1>3. CASE action = "cancel"
  <2>1. /\ bind.is /\ mig.st = "temporal" /\ ~bind.retired
        /\ off' = TRUE
        /\ bind' = [[bind EXCEPT !.enabled = FALSE, !.cancelled = TRUE] EXCEPT !.dirty = TRUE]
        /\ sy' = [sy EXCEPT !.fresh = FALSE]
        /\ osub' = Cancels
        /\ UNCHANGED <<now, jrow, lrun, mig, fence, remote, occ, owf, ran, faults>>
    BY <1>3 DEF Change, Editable, Bumped, Stale
  <2>2. /\ bind' \in Bindings
        /\ bind'.is = bind.is /\ bind'.enabled = FALSE /\ bind'.cancelled = TRUE /\ bind'.retired = bind.retired /\ bind'.start = bind.start /\ bind'.dirty = TRUE
    BY <1>3, <2>1, CancelsKeep DEF EnginesInv, SchedTypeOK, Bindings
  <2>3. /\ sy' \in Synchronisations
        /\ sy'.pc = sy.pc /\ sy'.row = sy.row /\ sy'.fresh = FALSE /\ sy'.next = sy.next
    BY <1>3, <2>1, CancelsKeep DEF EnginesInv, SchedTypeOK, Synchronisations
  <2>4. SubsKept
    BY <1>3, <2>1, CancelsKeep DEF EnginesInv, SchedTypeOK
  <2>5. SchedTypeOK'
    BY <2>1, <2>2, <2>3, <2>4, ScheduleAssumption DEF EnginesInv, SchedTypeOK, SubsKept
  <2>6. StopInv'
    BY <1>3, <2>1, <2>2, <2>3, <2>4 DEF EnginesInv, SchedTypeOK, StopInv, Remote
  <2>7. SyncInv'
    BY <1>3, <2>1, <2>2, <2>3, <2>4 DEF EnginesInv, SchedTypeOK, SyncInv, Gone
  <2>8. EngineInv'
    BY <1>3, <2>1, <2>2, <2>3, <2>4 DEF EnginesInv, SchedTypeOK, EngineInv, Remote
  <2>9. SlotInv'
    BY <1>3, <2>1, <2>2, <2>3, <2>4 DEF EnginesInv, SchedTypeOK, SlotInv, SlotKept, Remote, Slots, Later, SubsKept
  <2>. QED  BY <2>5, <2>6, <2>7, <2>8, <2>9 DEF EnginesInv
<1>. QED  BY <1>1, <1>2, <1>3

\* A second cancel.
LEMMA CancelAgainKeeps ==
  ASSUME ScheduleAssumption, EnginesInv, CancelAgain
  PROVE  EnginesInv'
<1>1. /\ osub' = Cancels
      /\ UNCHANGED <<now, jrow, lrun, bind, mig, fence, remote, sy, occ, owf, ran, off, faults>>
  BY DEF CancelAgain
<1>2. SubsKept
  BY <1>1, CancelsKeep DEF EnginesInv, SchedTypeOK
<1>3. SchedTypeOK'
  BY <1>1, <1>2, ScheduleAssumption DEF EnginesInv, SchedTypeOK, SubsKept
<1>4. StopInv'
  BY <1>1, <1>2 DEF EnginesInv, SchedTypeOK, StopInv, Remote
<1>5. SyncInv'
  BY <1>1, <1>2 DEF EnginesInv, SchedTypeOK, SyncInv, Gone
<1>6. EngineInv'
  BY <1>1, <1>2 DEF EnginesInv, SchedTypeOK, EngineInv, Remote
<1>7. SlotInv'
  BY <1>1, <1>2 DEF EnginesInv, SchedTypeOK, SlotInv, SlotKept, Remote, Slots, Later, SubsKept
<1>. QED  BY <1>3, <1>4, <1>5, <1>6, <1>7 DEF EnginesInv

\* A job is staged, again if its row has changed (stage).
LEMMA StageJobKeeps ==
  ASSUME ScheduleAssumption, EnginesInv, StageJob
  PROVE  EnginesInv'
<1>1. /\ mig.st \in {"none", "sqlite", "staged"}
      /\ bind' = [[bind EXCEPT !.is = TRUE, !.enabled = FALSE, !.cancelled = FALSE, !.retired = FALSE, !.start = now + 1] EXCEPT !.dirty = TRUE]
      /\ sy' = [sy EXCEPT !.fresh = FALSE]
      /\ mig' = [st |-> "staged", restore |-> jrow.on, fresh |-> TRUE]
      /\ UNCHANGED <<now, jrow, lrun, fence, remote, occ, owf, osub, ran, off, faults>>
  BY DEF StageJob, Bumped, Stale
<1>2. now + 1 \in 0..Later /\ jrow.on \in BOOLEAN
  BY <1>1, ScheduleAssumption DEF EnginesInv, SchedTypeOK, Later, LocalRows
<1>3. /\ bind' \in Bindings
      /\ bind'.is = TRUE /\ bind'.enabled = FALSE /\ bind'.cancelled = FALSE /\ bind'.retired = FALSE /\ bind'.start = now + 1 /\ bind'.dirty = TRUE
  BY <1>1, <1>2, ScheduleAssumption DEF EnginesInv, SchedTypeOK, Bindings, Later, LocalRows
<1>4. /\ sy' \in Synchronisations
      /\ sy'.pc = sy.pc /\ sy'.row = sy.row /\ sy'.fresh = FALSE /\ sy'.next = sy.next
  BY <1>1, <1>2, ScheduleAssumption DEF EnginesInv, SchedTypeOK, Synchronisations, Later, LocalRows
<1>5. /\ mig' \in Migrations
      /\ mig'.st = "staged" /\ mig'.restore = jrow.on /\ mig'.fresh = TRUE
  BY <1>1, <1>2, ScheduleAssumption DEF EnginesInv, SchedTypeOK, Migrations, Later, LocalRows
<1>6. SchedTypeOK'
  BY <1>1, <1>2, <1>3, <1>4, <1>5, ScheduleAssumption DEF EnginesInv, SchedTypeOK
<1>7. StopInv'
  BY <1>1, <1>2, <1>3, <1>4, <1>5 DEF EnginesInv, SchedTypeOK, StopInv, Remote
<1>8. SyncInv'
  BY <1>1, <1>2, <1>3, <1>4, <1>5 DEF EnginesInv, SchedTypeOK, SyncInv, Gone
<1>9. EngineInv'
  BY <1>1, <1>2, <1>3, <1>4, <1>5 DEF EnginesInv, SchedTypeOK, EngineInv, Remote
<1>10. SlotInv'
  BY <1>1, <1>2, <1>3, <1>4, <1>5 DEF EnginesInv, SchedTypeOK, SlotInv, SlotKept, Remote, Slots, Later
<1>. QED  BY <1>6, <1>7, <1>8, <1>9, <1>10 DEF EnginesInv

\* The job goes over to the service (cutover).
LEMMA CutoverKeeps ==
  ASSUME ScheduleAssumption, EnginesInv, Cutover
  PROVE  EnginesInv'
<1>1. PICK from :
      /\ mig.st = "staged" /\ ~lrun.live
      /\ jrow' = [jrow EXCEPT !.by = "transition", !.on = FALSE]
      /\ mig' = [mig EXCEPT !.st = "cutting_over"]
      /\ bind' = [[bind EXCEPT !.enabled = FALSE, !.start = from] EXCEPT !.dirty = TRUE]
      /\ from = Soonest(now + 1, jrow.due)
      /\ sy' = [sy EXCEPT !.fresh = FALSE]
      /\ UNCHANGED <<now, lrun, fence, remote, occ, owf, osub, ran, off, faults>>
  BY DEF Cutover, IdleLegacy, Bumped, Stale
<1>2. now + 1 \in 0..Later /\ jrow.due \in 0..Later
  BY <1>1, SoonestTyped, ScheduleAssumption DEF EnginesInv, SchedTypeOK, Later, LocalRows, MovingTo
<1>3. from \in 0..Later /\ from > now
  BY <1>1, <1>2, SoonestTyped, ScheduleAssumption DEF EnginesInv, SchedTypeOK, Later, LocalRows, MovingTo
<1>4. /\ bind' \in Bindings
      /\ bind'.is = bind.is /\ bind'.enabled = FALSE /\ bind'.cancelled = bind.cancelled /\ bind'.retired = bind.retired /\ bind'.start = from /\ bind'.dirty = TRUE
  BY <1>1, <1>2, <1>3, SoonestTyped, ScheduleAssumption DEF EnginesInv, SchedTypeOK, Bindings, Later, LocalRows, MovingTo
<1>5. /\ sy' \in Synchronisations
      /\ sy'.pc = sy.pc /\ sy'.row = sy.row /\ sy'.fresh = FALSE /\ sy'.next = sy.next
  BY <1>1, <1>2, <1>3, SoonestTyped, ScheduleAssumption DEF EnginesInv, SchedTypeOK, Synchronisations, Later, LocalRows, MovingTo
<1>6. /\ jrow' \in LocalRows
      /\ jrow'.by = "transition" /\ jrow'.on = FALSE /\ jrow'.due = jrow.due
  BY <1>1, <1>2, <1>3, SoonestTyped, ScheduleAssumption DEF EnginesInv, SchedTypeOK, LocalRows, Later, LocalRows, MovingTo
<1>7. /\ mig' \in Migrations
      /\ mig'.st = "cutting_over" /\ mig'.restore = mig.restore /\ mig'.fresh = mig.fresh
  BY <1>1, <1>2, <1>3, SoonestTyped, ScheduleAssumption DEF EnginesInv, SchedTypeOK, Migrations, Later, LocalRows, MovingTo
<1>8. SchedTypeOK'
  BY <1>1, <1>2, <1>3, <1>4, <1>5, <1>6, <1>7, ScheduleAssumption DEF EnginesInv, SchedTypeOK
<1>9. StopInv'
  BY <1>1, <1>2, <1>3, <1>4, <1>5, <1>6, <1>7 DEF EnginesInv, SchedTypeOK, StopInv, Remote
<1>10. SyncInv'
  BY <1>1, <1>2, <1>3, <1>4, <1>5, <1>6, <1>7 DEF EnginesInv, SchedTypeOK, SyncInv, Gone
<1>11. EngineInv'
  BY <1>1, <1>2, <1>3, <1>4, <1>5, <1>6, <1>7 DEF EnginesInv, SchedTypeOK, EngineInv, Remote
<1>12. SlotInv'
  BY <1>1, <1>2, <1>3, <1>4, <1>5, <1>6, <1>7 DEF EnginesInv, SchedTypeOK, SlotInv, SlotKept, Remote, Slots, Later
<1>. QED  BY <1>8, <1>9, <1>10, <1>11, <1>12 DEF EnginesInv

\* The job goes back, off if it is off by now (rollback).
LEMMA RollbackKeeps ==
  ASSUME ScheduleAssumption, EnginesInv, Rollback
  PROVE  EnginesInv'
<1>1. PICK go \in BOOLEAN :
      /\ mig.st # "none" /\ mig.st # "rolling_back"
      /\ go => mig.restore /\ ~(mig.st = "temporal" /\ ~bind.enabled)
      /\ jrow' = [jrow EXCEPT !.by = "transition", !.on = FALSE]
      /\ mig' = [mig EXCEPT !.st = "rolling_back", !.restore = go]
      /\ bind' = [[bind EXCEPT !.enabled = FALSE] EXCEPT !.dirty = TRUE]
      /\ sy' = [sy EXCEPT !.fresh = FALSE]
      /\ UNCHANGED <<now, lrun, fence, remote, occ, owf, osub, ran, off, faults>>
  BY DEF Rollback, Restores, Bumped, Stale
<1>2. /\ bind' \in Bindings
      /\ bind'.is = bind.is /\ bind'.enabled = FALSE /\ bind'.cancelled = bind.cancelled /\ bind'.retired = bind.retired /\ bind'.start = bind.start /\ bind'.dirty = TRUE
  BY <1>1 DEF EnginesInv, SchedTypeOK, Bindings, MovingTo
<1>3. /\ sy' \in Synchronisations
      /\ sy'.pc = sy.pc /\ sy'.row = sy.row /\ sy'.fresh = FALSE /\ sy'.next = sy.next
  BY <1>1 DEF EnginesInv, SchedTypeOK, Synchronisations, MovingTo
<1>4. /\ jrow' \in LocalRows
      /\ jrow'.by = "transition" /\ jrow'.on = FALSE /\ jrow'.due = jrow.due
  BY <1>1 DEF EnginesInv, SchedTypeOK, LocalRows, MovingTo
<1>5. /\ mig' \in Migrations
      /\ mig'.st = "rolling_back" /\ mig'.restore = go /\ mig'.fresh = mig.fresh
  BY <1>1 DEF EnginesInv, SchedTypeOK, Migrations, MovingTo
<1>6. SchedTypeOK'
  BY <1>1, <1>2, <1>3, <1>4, <1>5, ScheduleAssumption DEF EnginesInv, SchedTypeOK
<1>7. StopInv'
  BY <1>1, <1>2, <1>3, <1>4, <1>5 DEF EnginesInv, SchedTypeOK, StopInv, Remote
<1>8. SyncInv'
  BY <1>1, <1>2, <1>3, <1>4, <1>5 DEF EnginesInv, SchedTypeOK, SyncInv, Gone
<1>9. EngineInv'
  BY <1>1, <1>2, <1>3, <1>4, <1>5 DEF EnginesInv, SchedTypeOK, EngineInv, Remote
<1>10. SlotInv'
  BY <1>1, <1>2, <1>3, <1>4, <1>5 DEF EnginesInv, SchedTypeOK, SlotInv, SlotKept, Remote, Slots, Later
<1>. QED  BY <1>6, <1>7, <1>8, <1>9, <1>10 DEF EnginesInv

\* A synchronisation reads the row, which is changed first when the job is activated (sync, apply).
LEMMA SyncStartKeeps ==
  ASSUME ScheduleAssumption, EnginesInv, NEW next \in {"none", "retire"} \cup MovingTo, SyncStart(next)
  PROVE  EnginesInv'
<1>1. CASE next = "activating"
  <2>1. /\ bind.is /\ mig.st = "activating"
        /\ bind' = [bind EXCEPT !.enabled = mig.restore, !.start = Soonest(bind.start, now + 1), !.dirty = TRUE]
        /\ sy' = [pc |-> "rpc", fresh |-> TRUE, next |-> next, row |-> [enabled |-> bind'.enabled, gone |-> bind'.cancelled \/ bind'.retired, start |-> bind'.start]]
        /\ UNCHANGED <<now, jrow, lrun, mig, fence, remote, occ, owf, osub, ran, off, faults>>
    BY <1>1 DEF SyncStart
  <2>2. now + 1 \in 0..Later /\ bind.start \in 0..Later
    BY <1>1, <2>1, SoonestTyped, ScheduleAssumption, <1>1 DEF EnginesInv, SchedTypeOK, Later, Bindings, Migrations, ReadRows, MovingTo
  <2>3. Soonest(bind.start, now + 1) \in 0..Later /\ Soonest(bind.start, now + 1) >= bind.start
    BY <1>1, <2>1, <2>2, SoonestTyped, ScheduleAssumption, <1>1 DEF EnginesInv, SchedTypeOK, Later, Bindings, Migrations, ReadRows, MovingTo
  <2>4. /\ bind' \in Bindings
        /\ bind'.is = bind.is /\ bind'.enabled = mig.restore /\ bind'.cancelled = bind.cancelled /\ bind'.retired = bind.retired /\ bind'.start = Soonest(bind.start, now + 1) /\ bind'.dirty = TRUE
    BY <1>1, <2>1, <2>2, <2>3, SoonestTyped, ScheduleAssumption, <1>1 DEF EnginesInv, SchedTypeOK, Bindings, Later, Bindings, Migrations, ReadRows, MovingTo
  <2>5. bind'.enabled \in BOOLEAN /\ (bind'.cancelled \/ bind'.retired) \in BOOLEAN /\ bind'.start \in 0..Later
    BY <1>1, <2>1, <2>2, <2>3, SoonestTyped, ScheduleAssumption, <1>1 DEF EnginesInv, SchedTypeOK, Later, Bindings, Migrations, ReadRows, MovingTo
  <2>6. bind'.cancelled = bind.cancelled /\ bind'.retired = bind.retired
    BY <1>1, <2>1, <2>2, <2>3, <2>5, SoonestTyped, ScheduleAssumption, <1>1 DEF EnginesInv, SchedTypeOK, Later, Bindings, Migrations, ReadRows, MovingTo
  <2>7. /\ sy' \in Synchronisations
        /\ sy'.pc = "rpc" /\ sy'.fresh = TRUE /\ sy'.next = next
        /\ sy'.row.enabled = bind'.enabled /\ (sy'.row.gone <=> bind'.cancelled \/ bind'.retired)
    BY <1>1, <2>1, <2>2, <2>3, <2>5, <2>6, SoonestTyped, ScheduleAssumption, <1>1 DEF EnginesInv, SchedTypeOK, Synchronisations, Later, Bindings, Migrations, ReadRows, MovingTo
  <2>8. SchedTypeOK'
    BY <2>1, <2>2, <2>3, <2>4, <2>5, <2>6, <2>7, ScheduleAssumption DEF EnginesInv, SchedTypeOK
  <2>9. StopInv'
    BY <1>1, <2>1, <2>2, <2>3, <2>4, <2>5, <2>6, <2>7 DEF EnginesInv, SchedTypeOK, StopInv, Remote
  <2>10. SyncInv'
    BY <1>1, <2>1, <2>2, <2>3, <2>4, <2>5, <2>6, <2>7 DEF EnginesInv, SchedTypeOK, SyncInv, Gone
  <2>11. EngineInv'
    BY <1>1, <2>1, <2>2, <2>3, <2>4, <2>5, <2>6, <2>7 DEF EnginesInv, SchedTypeOK, EngineInv, Remote
  <2>12. SlotInv'
    BY <1>1, <2>1, <2>2, <2>3, <2>4, <2>5, <2>6, <2>7 DEF EnginesInv, SchedTypeOK, SlotInv, SlotKept, Remote, Slots, Later
  <2>. QED  BY <2>8, <2>9, <2>10, <2>11, <2>12 DEF EnginesInv
<1>2. CASE next # "activating"
  <2>1. PICK gone :
        /\ bind.is /\ (next = "retire" => mig.st = "rolling_back" /\ bind.retired)
        /\ gone \in BOOLEAN /\ (gone <=> Gone)
        /\ sy' = [pc |-> "rpc", fresh |-> TRUE, next |-> next, row |-> [enabled |-> bind.enabled, gone |-> gone, start |-> bind.start]]
        /\ UNCHANGED <<now, jrow, lrun, bind, mig, fence, remote, occ, owf, osub, ran, off, faults>>
    BY <1>2 DEF SyncStart, Gone
  <2>2. /\ sy' \in Synchronisations
        /\ sy'.pc = "rpc" /\ sy'.fresh = TRUE /\ sy'.next = next
        /\ sy'.row.enabled = bind.enabled /\ sy'.row.gone = gone
    BY <1>2, <2>1 DEF EnginesInv, SchedTypeOK, Synchronisations, Bindings, ReadRows, MovingTo
  <2>3. SchedTypeOK'
    BY <2>1, <2>2, ScheduleAssumption DEF EnginesInv, SchedTypeOK
  <2>4. StopInv'
    BY <1>2, <2>1, <2>2 DEF EnginesInv, SchedTypeOK, StopInv, Remote
  <2>5. SyncInv'
    BY <1>2, <2>1, <2>2 DEF EnginesInv, SchedTypeOK, SyncInv, Gone
  <2>6. EngineInv'
    BY <1>2, <2>1, <2>2 DEF EnginesInv, SchedTypeOK, EngineInv, Remote
  <2>7. SlotInv'
    BY <1>2, <2>1, <2>2 DEF EnginesInv, SchedTypeOK, SlotInv, SlotKept, Remote, Slots, Later
  <2>. QED  BY <2>3, <2>4, <2>5, <2>6, <2>7 DEF EnginesInv
<1>. QED  BY <1>1, <1>2

\* The Schedule of the service becomes what was read, or is deleted (sync).
LEMMA SyncRpcKeeps ==
  ASSUME ScheduleAssumption, EnginesInv, SyncRpc
  PROVE  EnginesInv'
<1>1. CASE sy.row.gone
  <2>1. /\ sy.pc = "rpc"
        /\ sy' = [sy EXCEPT !.pc = "mark"]
        /\ remote' = [remote EXCEPT !.is = FALSE, !.on = FALSE]
        /\ osub' \in {Cancels, osub}
        /\ UNCHANGED <<now, jrow, lrun, bind, mig, fence, occ, owf, ran, off, faults>>
    BY <1>1 DEF SyncRpc
  <2>2. /\ sy' \in Synchronisations
        /\ sy'.pc = "mark" /\ sy'.row = sy.row /\ sy'.fresh = sy.fresh /\ sy'.next = sy.next
    BY <1>1, <2>1, CancelsKeep DEF EnginesInv, SchedTypeOK, Synchronisations
  <2>3. /\ remote' \in Schedules
        /\ remote'.is = FALSE /\ remote'.on = FALSE /\ remote'.start = remote.start
    BY <1>1, <2>1, CancelsKeep DEF EnginesInv, SchedTypeOK, Schedules
  <2>4. SubsKept
    BY <1>1, <2>1, CancelsKeep DEF EnginesInv, SchedTypeOK
  <2>5. SchedTypeOK'
    BY <2>1, <2>2, <2>3, <2>4, ScheduleAssumption DEF EnginesInv, SchedTypeOK, SubsKept
  <2>6. StopInv'
    BY <1>1, <2>1, <2>2, <2>3, <2>4 DEF EnginesInv, SchedTypeOK, StopInv, Remote
  <2>7. SyncInv'
    BY <1>1, <2>1, <2>2, <2>3, <2>4 DEF EnginesInv, SchedTypeOK, SyncInv, Gone
  <2>8. EngineInv'
    BY <1>1, <2>1, <2>2, <2>3, <2>4 DEF EnginesInv, SchedTypeOK, EngineInv, Remote
  <2>9. SlotInv'
    BY <1>1, <2>1, <2>2, <2>3, <2>4 DEF EnginesInv, SchedTypeOK, SlotInv, SlotKept, Remote, Slots, Later, SubsKept
  <2>. QED  BY <2>5, <2>6, <2>7, <2>8, <2>9 DEF EnginesInv
<1>2. CASE ~sy.row.gone
  <2>1. /\ sy.pc = "rpc"
        /\ sy' = [sy EXCEPT !.pc = "mark"]
        /\ remote' = [is |-> TRUE, on |-> sy.row.enabled, start |-> sy.row.start]
        /\ UNCHANGED <<now, jrow, lrun, bind, mig, fence, occ, owf, osub, ran, off, faults>>
    BY <1>2 DEF SyncRpc
  <2>2. /\ sy' \in Synchronisations
        /\ sy'.pc = "mark" /\ sy'.row = sy.row /\ sy'.fresh = sy.fresh /\ sy'.next = sy.next
    BY <1>2, <2>1 DEF EnginesInv, SchedTypeOK, Synchronisations, Synchronisations, ReadRows
  <2>3. /\ remote' \in Schedules
        /\ remote'.is = TRUE /\ remote'.on = sy.row.enabled /\ remote'.start = sy.row.start
    BY <1>2, <2>1 DEF EnginesInv, SchedTypeOK, Schedules, Synchronisations, ReadRows
  <2>4. SchedTypeOK'
    BY <2>1, <2>2, <2>3, ScheduleAssumption DEF EnginesInv, SchedTypeOK
  <2>5. StopInv'
    BY <1>2, <2>1, <2>2, <2>3 DEF EnginesInv, SchedTypeOK, StopInv, Remote
  <2>6. SyncInv'
    BY <1>2, <2>1, <2>2, <2>3 DEF EnginesInv, SchedTypeOK, SyncInv, Gone
  <2>7. EngineInv'
    BY <1>2, <2>1, <2>2, <2>3 DEF EnginesInv, SchedTypeOK, EngineInv, Remote
  <2>8. SlotInv'
    BY <1>2, <2>1, <2>2, <2>3 DEF EnginesInv, SchedTypeOK, SlotInv, SlotKept, Remote, Slots, Later
  <2>. QED  BY <2>4, <2>5, <2>6, <2>7, <2>8 DEF EnginesInv
<1>. QED  BY <1>1, <1>2

\* The row is marked as applied, if it is still the one that was read (sync).
LEMMA SyncMarkKeeps ==
  ASSUME ScheduleAssumption, EnginesInv, SyncMark
  PROVE  EnginesInv'
<1>1. CASE sy.next = "none"
  <2>1. PICK still \in BOOLEAN :
        /\ sy.pc = "mark"
        /\ still <=> bind.dirty /\ ~sy.fresh
        /\ bind' = [bind EXCEPT !.dirty = still]
        /\ sy' = NoSync
        /\ UNCHANGED <<now, jrow, lrun, mig, fence, remote, occ, owf, osub, ran, off, faults>>
    BY <1>1 DEF SyncMark
  <2>2. /\ bind' \in Bindings
        /\ bind'.is = bind.is /\ bind'.enabled = bind.enabled /\ bind'.cancelled = bind.cancelled /\ bind'.retired = bind.retired /\ bind'.start = bind.start /\ bind'.dirty = still
    BY <1>1, <2>1, NoSyncTyped, ScheduleAssumption DEF EnginesInv, SchedTypeOK, Bindings
  <2>3. /\ sy' \in Synchronisations
        /\ sy'.pc = "idle" /\ sy'.fresh = FALSE /\ sy'.next = "none"
    BY <1>1, <2>1, NoSyncTyped, ScheduleAssumption DEF EnginesInv, SchedTypeOK, Synchronisations
  <2>4. SchedTypeOK'
    BY <2>1, <2>2, <2>3, ScheduleAssumption DEF EnginesInv, SchedTypeOK
  <2>5. StopInv'
    BY <1>1, <2>1, <2>2, <2>3 DEF EnginesInv, SchedTypeOK, StopInv, Remote
  <2>6. SyncInv'
    BY <1>1, <2>1, <2>2, <2>3 DEF EnginesInv, SchedTypeOK, SyncInv, Gone
  <2>7. EngineInv'
    BY <1>1, <2>1, <2>2, <2>3 DEF EnginesInv, SchedTypeOK, EngineInv, Remote
  <2>8. SlotInv'
    BY <1>1, <2>1, <2>2, <2>3 DEF EnginesInv, SchedTypeOK, SlotInv, SlotKept, Remote, Slots, Later
  <2>. QED  BY <2>4, <2>5, <2>6, <2>7, <2>8 DEF EnginesInv
<1>2. CASE sy.next # "none"
  <2>1. PICK still \in BOOLEAN :
        /\ sy.pc = "mark"
        /\ still <=> bind.dirty /\ ~sy.fresh
        /\ bind' = [bind EXCEPT !.dirty = still]
        /\ sy' = [sy EXCEPT !.pc = "next"]
        /\ UNCHANGED <<now, jrow, lrun, mig, fence, remote, occ, owf, osub, ran, off, faults>>
    BY <1>2 DEF SyncMark
  <2>2. /\ bind' \in Bindings
        /\ bind'.is = bind.is /\ bind'.enabled = bind.enabled /\ bind'.cancelled = bind.cancelled /\ bind'.retired = bind.retired /\ bind'.start = bind.start /\ bind'.dirty = still
    BY <1>2, <2>1, NoSyncTyped, ScheduleAssumption DEF EnginesInv, SchedTypeOK, Bindings
  <2>3. /\ sy' \in Synchronisations
        /\ sy'.pc = "next" /\ sy'.row = sy.row /\ sy'.fresh = sy.fresh /\ sy'.next = sy.next
    BY <1>2, <2>1, NoSyncTyped, ScheduleAssumption DEF EnginesInv, SchedTypeOK, Synchronisations
  <2>4. SchedTypeOK'
    BY <2>1, <2>2, <2>3, ScheduleAssumption DEF EnginesInv, SchedTypeOK
  <2>5. StopInv'
    BY <1>2, <2>1, <2>2, <2>3 DEF EnginesInv, SchedTypeOK, StopInv, Remote
  <2>6. SyncInv'
    BY <1>2, <2>1, <2>2, <2>3 DEF EnginesInv, SchedTypeOK, SyncInv, Gone
  <2>7. EngineInv'
    BY <1>2, <2>1, <2>2, <2>3 DEF EnginesInv, SchedTypeOK, EngineInv, Remote
  <2>8. SlotInv'
    BY <1>2, <2>1, <2>2, <2>3 DEF EnginesInv, SchedTypeOK, SlotInv, SlotKept, Remote, Slots, Later
  <2>. QED  BY <2>4, <2>5, <2>6, <2>7, <2>8 DEF EnginesInv
<1>. QED  BY <1>1, <1>2

\* The process dies between its calls, with a new Schedule left paused at most (sync).
LEMMA SyncDiesKeeps ==
  ASSUME ScheduleAssumption, EnginesInv, SyncDies
  PROVE  EnginesInv'
<1>1. CASE remote' = remote
  <2>1. /\ faults < MaxFaults /\ faults' = faults + 1
        /\ sy' = NoSync
        /\ UNCHANGED <<now, jrow, lrun, bind, mig, fence, remote, occ, owf, osub, ran, off>>
    BY <1>1 DEF SyncDies
  <2>2. /\ sy' \in Synchronisations
        /\ sy'.pc = "idle" /\ sy'.fresh = FALSE /\ sy'.next = "none"
    BY <1>1, <2>1, NoSyncTyped, ScheduleAssumption DEF EnginesInv, SchedTypeOK, Synchronisations
  <2>3. SchedTypeOK'
    BY <2>1, <2>2, ScheduleAssumption DEF EnginesInv, SchedTypeOK
  <2>4. StopInv'
    BY <1>1, <2>1, <2>2 DEF EnginesInv, SchedTypeOK, StopInv, Remote
  <2>5. SyncInv'
    BY <1>1, <2>1, <2>2 DEF EnginesInv, SchedTypeOK, SyncInv, Gone
  <2>6. EngineInv'
    BY <1>1, <2>1, <2>2 DEF EnginesInv, SchedTypeOK, EngineInv, Remote
  <2>7. SlotInv'
    BY <1>1, <2>1, <2>2 DEF EnginesInv, SchedTypeOK, SlotInv, SlotKept, Remote, Slots, Later
  <2>. QED  BY <2>3, <2>4, <2>5, <2>6, <2>7 DEF EnginesInv
<1>2. CASE remote' # remote
  <2>1. /\ faults < MaxFaults /\ faults' = faults + 1
        /\ sy' = NoSync
        /\ sy.pc = "rpc" /\ ~sy.row.gone /\ ~remote.is
        /\ remote' = [is |-> TRUE, on |-> FALSE, start |-> sy.row.start]
        /\ UNCHANGED <<now, jrow, lrun, bind, mig, fence, occ, owf, osub, ran, off>>
    BY <1>2 DEF SyncDies
  <2>2. /\ sy' \in Synchronisations
        /\ sy'.pc = "idle" /\ sy'.fresh = FALSE /\ sy'.next = "none"
    BY <1>2, <2>1, NoSyncTyped, ScheduleAssumption DEF EnginesInv, SchedTypeOK, Synchronisations, Synchronisations, ReadRows
  <2>3. /\ remote' \in Schedules
        /\ remote'.is = TRUE /\ remote'.on = FALSE /\ remote'.start = sy.row.start
    BY <1>2, <2>1, NoSyncTyped, ScheduleAssumption DEF EnginesInv, SchedTypeOK, Schedules, Synchronisations, ReadRows
  <2>4. SchedTypeOK'
    BY <2>1, <2>2, <2>3, ScheduleAssumption DEF EnginesInv, SchedTypeOK
  <2>5. StopInv'
    BY <1>2, <2>1, <2>2, <2>3 DEF EnginesInv, SchedTypeOK, StopInv, Remote
  <2>6. SyncInv'
    BY <1>2, <2>1, <2>2, <2>3 DEF EnginesInv, SchedTypeOK, SyncInv, Gone
  <2>7. EngineInv'
    BY <1>2, <2>1, <2>2, <2>3 DEF EnginesInv, SchedTypeOK, EngineInv, Remote
  <2>8. SlotInv'
    BY <1>2, <2>1, <2>2, <2>3 DEF EnginesInv, SchedTypeOK, SlotInv, SlotKept, Remote, Slots, Later
  <2>. QED  BY <2>4, <2>5, <2>6, <2>7, <2>8 DEF EnginesInv
<1>. QED  BY <1>1, <1>2

\* What follows a synchronisation: the next state of the migration, or nothing (apply).
LEMMA ApplyKeeps ==
  ASSUME ScheduleAssumption, EnginesInv, Apply, NextDue \in 1..Later, NextDue > now
  PROVE  EnginesInv'
<1>1. CASE ApplyCut
  <2>1. /\ sy.pc = "next" /\ sy.next = "cutting_over" /\ mig.st = "cutting_over"
        /\ sy' = NoSync
        /\ jrow' = [jrow EXCEPT !.by = "temporal", !.on = FALSE]
        /\ mig' = [mig EXCEPT !.st = "activating"]
        /\ bind' = [[bind EXCEPT !.enabled = mig.restore] EXCEPT !.dirty = TRUE]
        /\ UNCHANGED <<now, lrun, fence, remote, occ, owf, osub, ran, off, faults>>
    BY <1>1 DEF Apply, ApplyCut, Bumped
  <2>2. /\ sy' \in Synchronisations
        /\ sy'.pc = "idle" /\ sy'.fresh = FALSE /\ sy'.next = "none"
    BY <1>1, <2>1, NoSyncTyped, ScheduleAssumption DEF EnginesInv, SchedTypeOK, Synchronisations, MovingTo, Migrations
  <2>3. /\ jrow' \in LocalRows
        /\ jrow'.by = "temporal" /\ jrow'.on = FALSE /\ jrow'.due = jrow.due
    BY <1>1, <2>1, NoSyncTyped, ScheduleAssumption DEF EnginesInv, SchedTypeOK, LocalRows, MovingTo, Migrations
  <2>4. /\ mig' \in Migrations
        /\ mig'.st = "activating" /\ mig'.restore = mig.restore /\ mig'.fresh = mig.fresh
    BY <1>1, <2>1, NoSyncTyped, ScheduleAssumption DEF EnginesInv, SchedTypeOK, Migrations, MovingTo, Migrations
  <2>5. /\ bind' \in Bindings
        /\ bind'.is = bind.is /\ bind'.enabled = mig.restore /\ bind'.cancelled = bind.cancelled /\ bind'.retired = bind.retired /\ bind'.start = bind.start /\ bind'.dirty = TRUE
    BY <1>1, <2>1, NoSyncTyped, ScheduleAssumption DEF EnginesInv, SchedTypeOK, Bindings, MovingTo, Migrations
  <2>6. SchedTypeOK'
    BY <2>1, <2>2, <2>3, <2>4, <2>5, ScheduleAssumption DEF EnginesInv, SchedTypeOK
  <2>7. StopInv'
    BY <1>1, <2>1, <2>2, <2>3, <2>4, <2>5 DEF EnginesInv, SchedTypeOK, StopInv, Remote
  <2>8. SyncInv'
    BY <1>1, <2>1, <2>2, <2>3, <2>4, <2>5 DEF EnginesInv, SchedTypeOK, SyncInv, Gone
  <2>9. EngineInv'
    BY <1>1, <2>1, <2>2, <2>3, <2>4, <2>5 DEF EnginesInv, SchedTypeOK, EngineInv, Remote
  <2>10. SlotInv'
    BY <1>1, <2>1, <2>2, <2>3, <2>4, <2>5 DEF EnginesInv, SchedTypeOK, SlotInv, SlotKept, Remote, Slots, Later
  <2>. QED  BY <2>6, <2>7, <2>8, <2>9, <2>10 DEF EnginesInv
<1>2. CASE ApplyActive
  <2>1. /\ sy.pc = "next" /\ mig.st = "activating"
        /\ sy' = NoSync
        /\ mig' = [mig EXCEPT !.st = "temporal"]
        /\ UNCHANGED <<now, jrow, lrun, bind, fence, remote, occ, owf, osub, ran, off, faults>>
    BY <1>2 DEF Apply, ApplyActive
  <2>2. /\ sy' \in Synchronisations
        /\ sy'.pc = "idle" /\ sy'.fresh = FALSE /\ sy'.next = "none"
    BY <1>2, <2>1, NoSyncTyped, ScheduleAssumption DEF EnginesInv, SchedTypeOK, Synchronisations, MovingTo
  <2>3. /\ mig' \in Migrations
        /\ mig'.st = "temporal" /\ mig'.restore = mig.restore /\ mig'.fresh = mig.fresh
    BY <1>2, <2>1, NoSyncTyped, ScheduleAssumption DEF EnginesInv, SchedTypeOK, Migrations, MovingTo
  <2>4. SchedTypeOK'
    BY <2>1, <2>2, <2>3, ScheduleAssumption DEF EnginesInv, SchedTypeOK
  <2>5. StopInv'
    BY <1>2, <2>1, <2>2, <2>3 DEF EnginesInv, SchedTypeOK, StopInv, Remote
  <2>6. SyncInv'
    BY <1>2, <2>1, <2>2, <2>3 DEF EnginesInv, SchedTypeOK, SyncInv, Gone
  <2>7. EngineInv'
    BY <1>2, <2>1, <2>2, <2>3 DEF EnginesInv, SchedTypeOK, EngineInv, Remote
  <2>8. SlotInv'
    BY <1>2, <2>1, <2>2, <2>3 DEF EnginesInv, SchedTypeOK, SlotInv, SlotKept, Remote, Slots, Later
  <2>. QED  BY <2>4, <2>5, <2>6, <2>7, <2>8 DEF EnginesInv
<1>3. CASE ApplyRetire
  <2>1. /\ sy.pc = "next" /\ mig.st = "rolling_back" /\ sy.next = "rolling_back"
        /\ \A s \in Slots : occ[s].st \notin {"reserved", "running"}
        /\ sy' = NoSync
        /\ bind' = [[bind EXCEPT !.retired = TRUE] EXCEPT !.dirty = TRUE]
        /\ UNCHANGED <<now, jrow, lrun, mig, fence, remote, occ, owf, osub, ran, off, faults>>
    BY <1>3 DEF Apply, ApplyRetire, Bumped, Drained
  <2>2. /\ sy' \in Synchronisations
        /\ sy'.pc = "idle" /\ sy'.fresh = FALSE /\ sy'.next = "none"
    BY <1>3, <2>1, NoSyncTyped, ScheduleAssumption DEF EnginesInv, SchedTypeOK, Synchronisations
  <2>3. /\ bind' \in Bindings
        /\ bind'.is = bind.is /\ bind'.enabled = bind.enabled /\ bind'.cancelled = bind.cancelled /\ bind'.retired = TRUE /\ bind'.start = bind.start /\ bind'.dirty = TRUE
    BY <1>3, <2>1, NoSyncTyped, ScheduleAssumption DEF EnginesInv, SchedTypeOK, Bindings
  <2>4. SchedTypeOK'
    BY <2>1, <2>2, <2>3, ScheduleAssumption DEF EnginesInv, SchedTypeOK
  <2>5. StopInv'
    BY <1>3, <2>1, <2>2, <2>3 DEF EnginesInv, SchedTypeOK, StopInv, Remote
  <2>6. SyncInv'
    BY <1>3, <2>1, <2>2, <2>3 DEF EnginesInv, SchedTypeOK, SyncInv, Gone
  <2>7. EngineInv'
    BY <1>3, <2>1, <2>2, <2>3 DEF EnginesInv, SchedTypeOK, EngineInv, Remote
  <2>8. SlotInv'
    BY <1>3, <2>1, <2>2, <2>3 DEF EnginesInv, SchedTypeOK, SlotInv, SlotKept, Remote, Slots, Later
  <2>. QED  BY <2>4, <2>5, <2>6, <2>7, <2>8 DEF EnginesInv
<1>4. CASE ApplyRestore
  <2>1. /\ sy.pc = "next" /\ sy.next = "retire" /\ mig.st = "rolling_back"
        /\ sy' = NoSync
        /\ jrow' = [by |-> "sqlite", on |-> mig.restore, due |-> NextDue]
        /\ mig' = [mig EXCEPT !.st = "sqlite"]
        /\ UNCHANGED <<now, lrun, bind, fence, remote, occ, owf, osub, ran, off, faults>>
    BY <1>4 DEF Apply, ApplyRestore
  <2>2. /\ sy' \in Synchronisations
        /\ sy'.pc = "idle" /\ sy'.fresh = FALSE /\ sy'.next = "none"
    BY <1>4, <2>1, NoSyncTyped, ScheduleAssumption DEF EnginesInv, SchedTypeOK, Synchronisations, MovingTo, Migrations
  <2>3. /\ jrow' \in LocalRows
        /\ jrow'.by = "sqlite" /\ jrow'.on = mig.restore /\ jrow'.due = NextDue
    BY <1>4, <2>1, NoSyncTyped, ScheduleAssumption DEF EnginesInv, SchedTypeOK, LocalRows, MovingTo, Migrations
  <2>4. /\ mig' \in Migrations
        /\ mig'.st = "sqlite" /\ mig'.restore = mig.restore /\ mig'.fresh = mig.fresh
    BY <1>4, <2>1, NoSyncTyped, ScheduleAssumption DEF EnginesInv, SchedTypeOK, Migrations, MovingTo, Migrations
  <2>5. SchedTypeOK'
    BY <2>1, <2>2, <2>3, <2>4, ScheduleAssumption DEF EnginesInv, SchedTypeOK
  <2>6. StopInv'
    BY <1>4, <2>1, <2>2, <2>3, <2>4 DEF EnginesInv, SchedTypeOK, StopInv, Remote
  <2>7. SyncInv'
    BY <1>4, <2>1, <2>2, <2>3, <2>4 DEF EnginesInv, SchedTypeOK, SyncInv, Gone
  <2>8. EngineInv'
    BY <1>4, <2>1, <2>2, <2>3, <2>4 DEF EnginesInv, SchedTypeOK, EngineInv, Remote
  <2>9. SlotInv'
    BY <1>4, <2>1, <2>2, <2>3, <2>4 DEF EnginesInv, SchedTypeOK, SlotInv, SlotKept, Remote, Slots, Later
  <2>. QED  BY <2>5, <2>6, <2>7, <2>8, <2>9 DEF EnginesInv
<1>5. CASE UNCHANGED <<jrow, mig, bind>>
  <2>1. /\ sy.pc = "next"
        /\ sy' = NoSync
        /\ UNCHANGED <<now, jrow, lrun, bind, mig, fence, remote, occ, owf, osub, ran, off, faults>>
    BY <1>5 DEF Apply, ApplyCut, ApplyActive, ApplyRetire, ApplyRestore
  <2>2. /\ sy' \in Synchronisations
        /\ sy'.pc = "idle" /\ sy'.fresh = FALSE /\ sy'.next = "none"
    BY <1>5, <2>1, NoSyncTyped, ScheduleAssumption DEF EnginesInv, SchedTypeOK, Synchronisations
  <2>3. SchedTypeOK'
    BY <2>1, <2>2, ScheduleAssumption DEF EnginesInv, SchedTypeOK
  <2>4. StopInv'
    BY <1>5, <2>1, <2>2 DEF EnginesInv, SchedTypeOK, StopInv, Remote
  <2>5. SyncInv'
    BY <1>5, <2>1, <2>2 DEF EnginesInv, SchedTypeOK, SyncInv, Gone
  <2>6. EngineInv'
    BY <1>5, <2>1, <2>2 DEF EnginesInv, SchedTypeOK, EngineInv, Remote
  <2>7. SlotInv'
    BY <1>5, <2>1, <2>2 DEF EnginesInv, SchedTypeOK, SlotInv, SlotKept, Remote, Slots, Later
  <2>. QED  BY <2>3, <2>4, <2>5, <2>6, <2>7 DEF EnginesInv
<1>. QED  BY <1>1, <1>2, <1>3, <1>4, <1>5 DEF Apply

\* Time passes, and the Schedule of the service fires.
LEMMA ClockKeeps ==
  ASSUME ScheduleAssumption, EnginesInv, Clock
  PROVE  EnginesInv'
<1>1. CASE owf' = owf
  <2>1. /\ now < MaxSlot /\ now' = now + 1
        /\ UNCHANGED <<jrow, lrun, bind, mig, fence, remote, sy, occ, owf, osub, ran, off, faults>>
    BY <1>1 DEF Clock
  <2>2. SchedTypeOK'
    BY <2>1, ScheduleAssumption DEF EnginesInv, SchedTypeOK
  <2>3. StopInv'
    BY <1>1, <2>1 DEF EnginesInv, SchedTypeOK, StopInv, Remote
  <2>4. SyncInv'
    BY <1>1, <2>1 DEF EnginesInv, SchedTypeOK, SyncInv, Gone
  <2>5. EngineInv'
    BY <1>1, <2>1 DEF EnginesInv, SchedTypeOK, EngineInv, Remote
  <2>6. SlotInv'
    BY <1>1, <2>1 DEF EnginesInv, SchedTypeOK, SlotInv, SlotKept, Remote, Slots, Later
  <2>. QED  BY <2>2, <2>3, <2>4, <2>5, <2>6 DEF EnginesInv
<1>2. CASE owf' # owf
  <2>1. /\ now < MaxSlot /\ now' = now + 1
        /\ owf' = [owf EXCEPT ![now + 1] = "open"]
        /\ UNCHANGED <<jrow, lrun, bind, mig, fence, remote, sy, occ, osub, ran, off, faults>>
    BY <1>2 DEF Clock
  <2>2. now + 1 \in Slots
    BY <1>2, <2>1, ScheduleAssumption DEF EnginesInv, SchedTypeOK, Slots
  <2>3. SchedTypeOK'
    BY <2>1, <2>2, ScheduleAssumption DEF EnginesInv, SchedTypeOK
  <2>4. StopInv'
    BY <1>2, <2>1, <2>2 DEF EnginesInv, SchedTypeOK, StopInv, Remote
  <2>5. SyncInv'
    BY <1>2, <2>1, <2>2 DEF EnginesInv, SchedTypeOK, SyncInv, Gone
  <2>6. EngineInv'
    BY <1>2, <2>1, <2>2 DEF EnginesInv, SchedTypeOK, EngineInv, Remote
  <2>7. SlotInv'
    BY <1>2, <2>1, <2>2 DEF EnginesInv, SchedTypeOK, SlotInv, SlotKept, Remote, Slots, Later
  <2>. QED  BY <2>3, <2>4, <2>5, <2>6, <2>7 DEF EnginesInv
<1>. QED  BY <1>1, <1>2

\* prepare refuses an occurrence of a job that is stopped or is not the service's.
OccRefused(s) == \/ bind.retired \/ bind.cancelled
                 \/ IF occ[s].st = "none" THEN ~AdmitNative(s) ELSE ~AdmitExisting

\* An occurrence is refused, found again, or reserved and fenced (prepare, admit_native).
LEMMA ReserveOccKeeps ==
  ASSUME ScheduleAssumption, EnginesInv, NEW s \in Slots, ReserveOcc(s)
  PROVE  EnginesInv'
<1>1. CASE OccRefused(s)
  <2>1. /\ owf[s] = "open"
        /\ owf' = [owf EXCEPT ![s] = "closed"]
        /\ UNCHANGED <<occ, fence, bind, sy>>
        /\ UNCHANGED <<now, jrow, lrun, mig, remote, osub, ran, off, faults>>
    BY <1>1 DEF ReserveOcc, OccRefused, CloseWf
  <2>2. SchedTypeOK'
    BY <2>1, ScheduleAssumption DEF EnginesInv, SchedTypeOK
  <2>3. StopInv'
    BY <1>1, <2>1 DEF EnginesInv, SchedTypeOK, StopInv, Remote
  <2>4. SyncInv'
    BY <1>1, <2>1 DEF EnginesInv, SchedTypeOK, SyncInv, Gone
  <2>5. EngineInv'
    BY <1>1, <2>1 DEF EnginesInv, SchedTypeOK, EngineInv, Remote
  <2>6. SlotInv'
    BY <1>1, <2>1 DEF EnginesInv, SchedTypeOK, SlotInv, SlotKept, Remote, Slots, Later
  <2>. QED  BY <2>2, <2>3, <2>4, <2>5, <2>6 DEF EnginesInv
<1>2. CASE ~OccRefused(s) /\ occ[s].st # "none"
  <2>1. /\ owf[s] = "open"
        /\ owf' = [owf EXCEPT ![s] = "reserved"]
        /\ UNCHANGED <<occ, fence, bind, sy>>
        /\ UNCHANGED <<now, jrow, lrun, mig, remote, osub, ran, off, faults>>
    BY <1>2 DEF ReserveOcc, OccRefused, CloseWf
  <2>2. SchedTypeOK'
    BY <2>1, ScheduleAssumption DEF EnginesInv, SchedTypeOK
  <2>3. StopInv'
    BY <1>2, <2>1 DEF EnginesInv, SchedTypeOK, StopInv, Remote
  <2>4. SyncInv'
    BY <1>2, <2>1 DEF EnginesInv, SchedTypeOK, SyncInv, Gone
  <2>5. EngineInv'
    BY <1>2, <2>1 DEF EnginesInv, SchedTypeOK, EngineInv, Remote
  <2>6. SlotInv'
    BY <1>2, <2>1 DEF EnginesInv, SchedTypeOK, SlotInv, SlotKept, Remote, Slots, Later
  <2>. QED  BY <2>2, <2>3, <2>4, <2>5, <2>6 DEF EnginesInv
<1>3. CASE ~OccRefused(s) /\ occ[s].st = "none" /\ UNCHANGED <<bind, sy>>
  <2>1. /\ mig.st = "temporal" /\ s >= bind.start /\ fence[s] = "none" /\ ~bind.retired
        /\ owf[s] = "open"
        /\ owf' = [owf EXCEPT ![s] = "reserved"]
        /\ occ' = [occ EXCEPT ![s].st = "reserved"]
        /\ fence' = [fence EXCEPT ![s] = "temporal"]
        /\ UNCHANGED <<now, jrow, lrun, bind, mig, remote, sy, osub, ran, off, faults>>
    BY <1>3 DEF ReserveOcc, OccRefused, CloseWf, AdmitNative
  <2>2. /\ occ' \in [Slots -> OccRows] /\ \A t \in Slots \ {s} : occ'[t] = occ[t]
        /\ occ'[s].st = "reserved" /\ occ'[s].known = occ[s].known
    BY <1>3, <2>1 DEF EnginesInv, SchedTypeOK, OccRows
  <2>3. SchedTypeOK'
    BY <2>1, <2>2, ScheduleAssumption DEF EnginesInv, SchedTypeOK
  <2>4. StopInv'
    BY <1>3, <2>1, <2>2 DEF EnginesInv, SchedTypeOK, StopInv, Remote
  <2>5. SyncInv'
    BY <1>3, <2>1, <2>2 DEF EnginesInv, SchedTypeOK, SyncInv, Gone
  <2>6. EngineInv'
    BY <1>3, <2>1, <2>2 DEF EnginesInv, SchedTypeOK, EngineInv, Remote
  <2>7. SlotInv'
    <3>1. ran[s] = 0
      <4>1. SlotKept(s) /\ ran[s] \in Nat /\ s \in Nat
        BY DEF EnginesInv, SchedTypeOK, SlotInv, Slots
      <4>2. bind.start \in Nat
        BY DEF EnginesInv, SchedTypeOK, Bindings, Later
      <4>. QED  BY <1>3, <2>1, <4>1, <4>2 DEF SlotKept, Remote
    <3>2. SlotKept(s)'
      BY <1>3, <2>1, <2>2, <3>1 DEF EnginesInv, SchedTypeOK, SlotInv, SlotKept, Remote, Slots, Later
    <3>3. ASSUME NEW t \in Slots \ {s} PROVE SlotKept(t)'
      BY <1>3, <2>1, <2>2, <3>3 DEF EnginesInv, SchedTypeOK, SlotInv, SlotKept, Remote, Slots, Later
    <3>. QED  BY <1>3, <2>1, <2>2, <3>2, <3>3 DEF EnginesInv, SlotInv
  <2>. QED  BY <2>3, <2>4, <2>5, <2>6, <2>7 DEF EnginesInv
<1>4. CASE ~OccRefused(s) /\ occ[s].st = "none" /\ Bumped([bind EXCEPT !.enabled = FALSE]) /\ Stale
  <2>1. /\ mig.st = "temporal" /\ s >= bind.start /\ fence[s] = "none" /\ ~bind.retired
        /\ owf[s] = "open"
        /\ owf' = [owf EXCEPT ![s] = "reserved"]
        /\ occ' = [occ EXCEPT ![s].st = "reserved"]
        /\ fence' = [fence EXCEPT ![s] = "temporal"]
        /\ bind' = [[bind EXCEPT !.enabled = FALSE] EXCEPT !.dirty = TRUE]
        /\ sy' = [sy EXCEPT !.fresh = FALSE]
        /\ UNCHANGED <<now, jrow, lrun, mig, remote, osub, ran, off, faults>>
    BY <1>4 DEF ReserveOcc, OccRefused, CloseWf, AdmitNative, Bumped, Stale
  <2>2. /\ occ' \in [Slots -> OccRows] /\ \A t \in Slots \ {s} : occ'[t] = occ[t]
        /\ occ'[s].st = "reserved" /\ occ'[s].known = occ[s].known
    BY <1>4, <2>1 DEF EnginesInv, SchedTypeOK, OccRows
  <2>3. /\ bind' \in Bindings
        /\ bind'.is = bind.is /\ bind'.enabled = FALSE /\ bind'.cancelled = bind.cancelled /\ bind'.retired = bind.retired /\ bind'.start = bind.start /\ bind'.dirty = TRUE
    BY <1>4, <2>1 DEF EnginesInv, SchedTypeOK, Bindings
  <2>4. /\ sy' \in Synchronisations
        /\ sy'.pc = sy.pc /\ sy'.row = sy.row /\ sy'.fresh = FALSE /\ sy'.next = sy.next
    BY <1>4, <2>1 DEF EnginesInv, SchedTypeOK, Synchronisations
  <2>5. SchedTypeOK'
    BY <2>1, <2>2, <2>3, <2>4, ScheduleAssumption DEF EnginesInv, SchedTypeOK
  <2>6. StopInv'
    BY <1>4, <2>1, <2>2, <2>3, <2>4 DEF EnginesInv, SchedTypeOK, StopInv, Remote
  <2>7. SyncInv'
    BY <1>4, <2>1, <2>2, <2>3, <2>4 DEF EnginesInv, SchedTypeOK, SyncInv, Gone
  <2>8. EngineInv'
    BY <1>4, <2>1, <2>2, <2>3, <2>4 DEF EnginesInv, SchedTypeOK, EngineInv, Remote
  <2>9. SlotInv'
    <3>1. ran[s] = 0
      <4>1. SlotKept(s) /\ ran[s] \in Nat /\ s \in Nat
        BY DEF EnginesInv, SchedTypeOK, SlotInv, Slots
      <4>2. bind.start \in Nat
        BY DEF EnginesInv, SchedTypeOK, Bindings, Later
      <4>. QED  BY <1>4, <2>1, <4>1, <4>2 DEF SlotKept, Remote
    <3>2. SlotKept(s)'
      BY <1>4, <2>1, <2>2, <2>3, <2>4, <3>1 DEF EnginesInv, SchedTypeOK, SlotInv, SlotKept, Remote, Slots, Later
    <3>3. ASSUME NEW t \in Slots \ {s} PROVE SlotKept(t)'
      BY <1>4, <2>1, <2>2, <2>3, <2>4, <3>3 DEF EnginesInv, SchedTypeOK, SlotInv, SlotKept, Remote, Slots, Later
    <3>. QED  BY <1>4, <2>1, <2>2, <2>3, <2>4, <3>2, <3>3 DEF EnginesInv, SlotInv
  <2>. QED  BY <2>5, <2>6, <2>7, <2>8, <2>9 DEF EnginesInv
<1>. QED  BY <1>1, <1>2, <1>3, <1>4 DEF ReserveOcc, OccRefused, CloseWf

\* The submission is made once, whatever became of the Workflow before (for_task).
LEMMA SubmitOccKeeps ==
  ASSUME ScheduleAssumption, EnginesInv, NEW s \in Slots, SubmitOcc(s)
  PROVE  EnginesInv'
<1>1. CASE osub[s] = "none"
  <2>1. /\ owf[s] = "reserved"
        /\ owf' = [owf EXCEPT ![s] = "submitted"]
        /\ osub' = [osub EXCEPT ![s] = "open"]
        /\ ran' = [ran EXCEPT ![s] = @ + 1]
        /\ UNCHANGED <<now, jrow, lrun, bind, mig, fence, remote, sy, occ, off, faults>>
    BY <1>1 DEF SubmitOcc
  <2>2. SchedTypeOK'
    BY <2>1, ScheduleAssumption DEF EnginesInv, SchedTypeOK
  <2>3. StopInv'
    BY <1>1, <2>1 DEF EnginesInv, SchedTypeOK, StopInv, Remote
  <2>4. SyncInv'
    BY <1>1, <2>1 DEF EnginesInv, SchedTypeOK, SyncInv, Gone
  <2>5. EngineInv'
    BY <1>1, <2>1 DEF EnginesInv, SchedTypeOK, EngineInv, Remote
  <2>6. SlotInv'
    <3>1. ran[s] = 0
      <4>1. SlotKept(s) /\ ran[s] \in Nat /\ s \in Nat
        BY DEF EnginesInv, SchedTypeOK, SlotInv, Slots
      <4>2. bind.start \in Nat
        BY DEF EnginesInv, SchedTypeOK, Bindings, Later
      <4>. QED  BY <1>1, <2>1, <4>1, <4>2 DEF SlotKept, Remote
    <3>2. SlotKept(s)'
      BY <1>1, <2>1, <3>1 DEF EnginesInv, SchedTypeOK, SlotInv, SlotKept, Remote, Slots, Later
    <3>3. ASSUME NEW t \in Slots \ {s} PROVE SlotKept(t)'
      BY <1>1, <2>1, <3>3 DEF EnginesInv, SchedTypeOK, SlotInv, SlotKept, Remote, Slots, Later
    <3>. QED  BY <1>1, <2>1, <3>2, <3>3 DEF EnginesInv, SlotInv
  <2>. QED  BY <2>2, <2>3, <2>4, <2>5, <2>6 DEF EnginesInv
<1>2. CASE osub[s] # "none"
  <2>1. /\ owf[s] = "reserved"
        /\ owf' = [owf EXCEPT ![s] = "submitted"]
        /\ UNCHANGED <<now, jrow, lrun, bind, mig, fence, remote, sy, occ, osub, ran, off, faults>>
    BY <1>2 DEF SubmitOcc
  <2>2. SchedTypeOK'
    BY <2>1, ScheduleAssumption DEF EnginesInv, SchedTypeOK
  <2>3. StopInv'
    BY <1>2, <2>1 DEF EnginesInv, SchedTypeOK, StopInv, Remote
  <2>4. SyncInv'
    BY <1>2, <2>1 DEF EnginesInv, SchedTypeOK, SyncInv, Gone
  <2>5. EngineInv'
    BY <1>2, <2>1 DEF EnginesInv, SchedTypeOK, EngineInv, Remote
  <2>6. SlotInv'
    BY <1>2, <2>1 DEF EnginesInv, SchedTypeOK, SlotInv, SlotKept, Remote, Slots, Later
  <2>. QED  BY <2>2, <2>3, <2>4, <2>5, <2>6 DEF EnginesInv
<1>. QED  BY <1>1, <1>2

\* The submission is recorded with the occurrence (prepare).
LEMMA RecordOccKeeps ==
  ASSUME ScheduleAssumption, EnginesInv, NEW s \in Slots, RecordOcc(s)
  PROVE  EnginesInv'
<1>1. CASE occ[s].st = "reserved"
  <2>1. /\ owf[s] = "submitted"
        /\ owf' = [owf EXCEPT ![s] = "polling"]
        /\ occ' = [occ EXCEPT ![s] = [st |-> "running", known |-> TRUE]]
        /\ UNCHANGED <<now, jrow, lrun, bind, mig, fence, remote, sy, osub, ran, off, faults>>
    BY <1>1 DEF RecordOcc
  <2>2. /\ occ' \in [Slots -> OccRows] /\ \A t \in Slots \ {s} : occ'[t] = occ[t]
        /\ occ'[s].st = "running" /\ occ'[s].known = TRUE
    BY <1>1, <2>1 DEF EnginesInv, SchedTypeOK, OccRows
  <2>3. SchedTypeOK'
    BY <2>1, <2>2, ScheduleAssumption DEF EnginesInv, SchedTypeOK
  <2>4. StopInv'
    BY <1>1, <2>1, <2>2 DEF EnginesInv, SchedTypeOK, StopInv, Remote
  <2>5. SyncInv'
    BY <1>1, <2>1, <2>2 DEF EnginesInv, SchedTypeOK, SyncInv, Gone
  <2>6. EngineInv'
    BY <1>1, <2>1, <2>2 DEF EnginesInv, SchedTypeOK, EngineInv, Remote
  <2>7. SlotInv'
    BY <1>1, <2>1, <2>2 DEF EnginesInv, SchedTypeOK, SlotInv, SlotKept, Remote, Slots, Later
  <2>. QED  BY <2>3, <2>4, <2>5, <2>6, <2>7 DEF EnginesInv
<1>2. CASE occ[s].st # "reserved"
  <2>1. /\ owf[s] = "submitted"
        /\ owf' = [owf EXCEPT ![s] = "polling"]
        /\ UNCHANGED <<now, jrow, lrun, bind, mig, fence, remote, sy, occ, osub, ran, off, faults>>
    BY <1>2 DEF RecordOcc
  <2>2. SchedTypeOK'
    BY <2>1, ScheduleAssumption DEF EnginesInv, SchedTypeOK
  <2>3. StopInv'
    BY <1>2, <2>1 DEF EnginesInv, SchedTypeOK, StopInv, Remote
  <2>4. SyncInv'
    BY <1>2, <2>1 DEF EnginesInv, SchedTypeOK, SyncInv, Gone
  <2>5. EngineInv'
    BY <1>2, <2>1 DEF EnginesInv, SchedTypeOK, EngineInv, Remote
  <2>6. SlotInv'
    BY <1>2, <2>1 DEF EnginesInv, SchedTypeOK, SlotInv, SlotKept, Remote, Slots, Later
  <2>. QED  BY <2>2, <2>3, <2>4, <2>5, <2>6 DEF EnginesInv
<1>. QED  BY <1>1, <1>2

\* The worker dies in prepare.
LEMMA PrepareDiesKeeps ==
  ASSUME ScheduleAssumption, EnginesInv, NEW s \in Slots, PrepareDies(s)
  PROVE  EnginesInv'
<1>1. PICK o \in {"open", "closed"} :
      /\ owf[s] # "none"
      /\ faults < MaxFaults /\ faults' = faults + 1
      /\ owf' = [owf EXCEPT ![s] = o]
      /\ UNCHANGED <<now, jrow, lrun, bind, mig, fence, remote, sy, occ, osub, ran, off>>
  BY DEF PrepareDies
<1>2. SchedTypeOK'
  BY <1>1, ScheduleAssumption DEF EnginesInv, SchedTypeOK
<1>3. StopInv'
  BY <1>1 DEF EnginesInv, SchedTypeOK, StopInv, Remote
<1>4. SyncInv'
  BY <1>1 DEF EnginesInv, SchedTypeOK, SyncInv, Gone
<1>5. EngineInv'
  BY <1>1 DEF EnginesInv, SchedTypeOK, EngineInv, Remote
<1>6. SlotInv'
  BY <1>1 DEF EnginesInv, SchedTypeOK, SlotInv, SlotKept, Remote, Slots, Later
<1>. QED  BY <1>2, <1>3, <1>4, <1>5, <1>6 DEF EnginesInv

\* A submission ends by itself.
LEMMA SubEndsKeeps ==
  ASSUME ScheduleAssumption, EnginesInv, NEW s \in Slots, SubEnds(s)
  PROVE  EnginesInv'
<1>1. PICK o \in {"completed", "failed", "uncertain"} :
      /\ osub[s] = "open"
      /\ osub' = [osub EXCEPT ![s] = o]
      /\ UNCHANGED <<now, jrow, lrun, bind, mig, fence, remote, sy, occ, owf, ran, off, faults>>
  BY DEF SubEnds
<1>2. SchedTypeOK'
  BY <1>1, ScheduleAssumption DEF EnginesInv, SchedTypeOK, SubTerminal
<1>3. StopInv'
  BY <1>1 DEF EnginesInv, SchedTypeOK, StopInv, Remote
<1>4. SyncInv'
  BY <1>1 DEF EnginesInv, SchedTypeOK, SyncInv, Gone
<1>5. EngineInv'
  BY <1>1 DEF EnginesInv, SchedTypeOK, EngineInv, Remote
<1>6. SlotInv'
  BY <1>1 DEF EnginesInv, SchedTypeOK, SlotInv, SlotKept, Remote, Slots, Later
<1>. QED  BY <1>2, <1>3, <1>4, <1>5, <1>6 DEF EnginesInv

\* What the end of an occurrence may change of the rows: nothing is enabled, nothing restored
\* that was not (finish).
OccEnds == /\ occ' \in [Slots -> OccRows]
           /\ \A t \in Slots : /\ occ'[t].st = "none" <=> occ[t].st = "none"
                               /\ occ'[t].st \in {"reserved", "running"} => occ'[t].st = occ[t].st
           /\ bind' \in Bindings /\ (bind'.enabled => bind.enabled) /\ bind'.is = bind.is
           /\ bind'.cancelled = bind.cancelled /\ bind'.retired = bind.retired /\ bind'.start = bind.start
           /\ sy' \in Synchronisations /\ sy'.pc = sy.pc /\ sy'.row = sy.row /\ sy'.next = sy.next
           /\ UNCHANGED <<bind, sy>> \/ (bind'.dirty = TRUE /\ sy'.fresh = FALSE)
           /\ mig' \in Migrations /\ mig'.st = mig.st /\ (mig'.restore => mig.restore)

\* An occurrence that is finished leaves its due time taken, and nobody else's is touched.
LEMMA FinishOccEnds ==
  ASSUME EnginesInv, NEW s \in Slots, NEW st \in SubTerminal, FinishOcc(s, st)
  PROVE  OccEnds
<1>1. /\ occ' \in [Slots -> OccRows]
      /\ \A t \in Slots : /\ occ'[t].st = "none" <=> occ[t].st = "none"
                          /\ occ'[t].st \in {"reserved", "running"} => occ'[t].st = occ[t].st
  <2>1. CASE occ[s].st \in {"reserved", "running"}
    <3>1. occ' = [occ EXCEPT ![s] = [occ[s] EXCEPT !.st = st]]
      BY <2>1 DEF FinishOcc
    <3>2. [occ[s] EXCEPT !.st = st] \in OccRows /\ [occ[s] EXCEPT !.st = st].st = st
      BY DEF EnginesInv, SchedTypeOK, OccRows
    <3>. QED  BY <2>1, <3>1, <3>2 DEF EnginesInv, SchedTypeOK, SubTerminal
  <2>2. CASE occ[s].st \notin {"reserved", "running"}
    BY <2>2 DEF FinishOcc, EnginesInv, SchedTypeOK
  <2>. QED  BY <2>1, <2>2
<1>2. CASE occ[s].st \notin {"reserved", "running"} \/ bind.cancelled
  <2>1. UNCHANGED <<bind, sy, mig>>
    BY <1>2 DEF FinishOcc
  <2>. QED  BY <1>1, <2>1 DEF OccEnds, EnginesInv, SchedTypeOK
<1>3. CASE ~(occ[s].st \notin {"reserved", "running"} \/ bind.cancelled)
  <2>1. PICK go \in BOOLEAN, keep \in BOOLEAN :
          /\ (go => bind.enabled) /\ (keep => mig.restore)
          /\ bind' = [[bind EXCEPT !.enabled = go] EXCEPT !.dirty = TRUE]
          /\ sy' = [sy EXCEPT !.fresh = FALSE]
          /\ mig' = [mig EXCEPT !.restore = keep]
    BY <1>3 DEF FinishOcc, Bumped, Stale
  <2>2. /\ bind' \in Bindings /\ bind'.is = bind.is /\ bind'.enabled = go
        /\ bind'.cancelled = bind.cancelled /\ bind'.retired = bind.retired /\ bind'.start = bind.start
        /\ bind'.dirty = TRUE
    BY <2>1 DEF EnginesInv, SchedTypeOK, Bindings
  <2>3. /\ sy' \in Synchronisations /\ sy'.pc = sy.pc /\ sy'.row = sy.row /\ sy'.next = sy.next
        /\ sy'.fresh = FALSE
    BY <2>1 DEF EnginesInv, SchedTypeOK, Synchronisations
  <2>4. mig' \in Migrations /\ mig'.st = mig.st /\ mig'.restore = keep
    BY <2>1 DEF EnginesInv, SchedTypeOK, Migrations
  <2>. QED  BY <1>1, <2>1, <2>2, <2>3, <2>4 DEF OccEnds
<1>. QED  BY <1>2, <1>3

\* An occurrence ends: its Workflow is closed, its submission is consumed or cancelled.
LEMMA OccEndsKeeps ==
  ASSUME ScheduleAssumption, EnginesInv, NEW s \in Slots, owf[s] # "none", OccEnds, SubsKept, CloseWf(s),
         faults' \in 0..MaxFaults, UNCHANGED <<now, jrow, lrun, fence, remote, ran, off>>
  PROVE  EnginesInv'
<1>1. owf' = [owf EXCEPT ![s] = "closed"]
  BY DEF CloseWf
<1>2. SchedTypeOK'
  BY <1>1 DEF EnginesInv, SchedTypeOK, OccEnds, SubsKept
<1>3. StopInv'
  BY DEF EnginesInv, SchedTypeOK, StopInv, Remote, OccEnds
<1>4. SyncInv'
  BY DEF EnginesInv, SchedTypeOK, SyncInv, Gone, OccEnds
<1>5. EngineInv'
  BY DEF EnginesInv, SchedTypeOK, EngineInv, Remote, OccEnds
<1>6. SlotInv'
  <2>1. ASSUME NEW t \in Slots PROVE SlotKept(t)'
    <3>1. /\ owf'[t] # "none" => owf[t] # "none"
          /\ owf'[t] \in {"reserved", "submitted", "polling"} => owf'[t] = owf[t]
      BY <1>1, <2>1 DEF EnginesInv, SchedTypeOK
    <3>2. SlotKept(t)
      BY <2>1 DEF EnginesInv, SlotInv
    <3>. QED  BY <2>1, <3>1, <3>2 DEF SlotKept, OccEnds, SubsKept
  <2>. QED  BY <2>1 DEF EnginesInv, SlotInv, OccEnds
<1>. QED  BY <1>2, <1>3, <1>4, <1>5, <1>6 DEF EnginesInv

\* A submission that has ended is consumed; one of a cancelled job is cancelled (poll).
LEMMA PollKeeps ==
  ASSUME ScheduleAssumption, EnginesInv, NEW s \in Slots, Poll(s)
  PROVE  EnginesInv'
<1>1. /\ owf[s] = "polling" /\ CloseWf(s) /\ faults' = faults
      /\ UNCHANGED <<now, jrow, lrun, fence, remote, ran, off>>
  BY DEF Poll
<1>2. CASE osub' = Cancels /\ UNCHANGED <<occ, bind, sy, mig>>
  <2>1. OccEnds
    BY <1>2 DEF OccEnds, EnginesInv, SchedTypeOK
  <2>2. SubsKept
    BY <1>2, CancelsKeep
  <2>. QED  BY <1>1, <2>1, <2>2, OccEndsKeeps DEF EnginesInv, SchedTypeOK
<1>3. CASE osub[s] \in SubTerminal /\ FinishOcc(s, osub[s]) /\ UNCHANGED osub
  <2>1. OccEnds
    BY <1>3, FinishOccEnds
  <2>2. SubsKept
    BY <1>3, CancelsKeep
  <2>. QED  BY <1>1, <2>1, <2>2, OccEndsKeeps DEF EnginesInv, SchedTypeOK
<1>. QED  BY <1>2, <1>3 DEF Poll

\* An occurrence whose Workflow gave up or is gone is cancelled (_stop).
LEMMA StopOccKeeps ==
  ASSUME ScheduleAssumption, EnginesInv, NEW s \in Slots, StopOcc(s)
  PROVE  EnginesInv'
<1>1. /\ owf[s] # "none" /\ CloseWf(s)
      /\ UNCHANGED <<now, jrow, lrun, fence, remote, ran, off>>
  BY DEF StopOcc
<1>2. faults' \in 0..MaxFaults
  BY DEF StopOcc, EnginesInv, SchedTypeOK, ScheduleAssumption
<1>3. OccEnds
  BY FinishOccEnds DEF StopOcc, SubTerminal
<1>4. SubsKept
  BY DEF StopOcc, SubsKept, EnginesInv, SchedTypeOK, SubTerminal
<1>. QED  BY <1>1, <1>2, <1>3, <1>4, OccEndsKeeps

----------------------------------------------------------------------------
(* The invariant *)

\* A nonempty set of natural numbers has a least element.
LEMMA LeastNat ==
  ASSUME NEW T \in SUBSET Nat, T # {}
  PROVE  \E x \in T : \A y \in T : x <= y
<1>1. PICK x \in T : \A y \in T : ~(<<y, x>> \in OpToRel(<, Nat))
  BY NatLessThanWellFounded, WFMin
<1>2. \A y \in T : ~(y < x)
  BY <1>1 DEF OpToRel
<1>3. ASSUME NEW y \in T PROVE x <= y
  <2>1. x \in Nat /\ y \in Nat /\ ~(y < x)
    BY <1>2, <1>3
  <2>. QED  BY <2>1
<1>. QED  BY <1>3

\* A rollback finds a due time that lies ahead and behind no fenced slot (reconcile's restore).
LEMMA NextDueAhead ==
  ASSUME ScheduleAssumption, EnginesInv
  PROVE  NextDue \in 1..Later /\ NextDue > now
<1>. DEFINE Free == {d \in (now + 1)..Later : \A s \in Slots : fence[s] # "none" => d > s}
<1>1. now \in Nat /\ now + 1 <= Later /\ Later \in Nat
  BY DEF EnginesInv, SchedTypeOK, ScheduleAssumption, Later
<1>2. Later \in Free
  BY <1>1 DEF Slots, Later, ScheduleAssumption
<1>3. PICK d \in Free : \A e \in Free : d <= e
  <2>1. Free \in SUBSET Nat /\ Free # {}
    BY <1>1, <1>2
  <2>. HIDE DEF Free
  <2>. QED  BY <2>1, LeastNat
<1>4. \A e \in (now + 1)..(d - 1) : \E s \in e..MaxSlot : fence[s] # "none"
  <2>. SUFFICES ASSUME NEW e \in (now + 1)..(d - 1) PROVE \E s \in e..MaxSlot : fence[s] # "none"
    OBVIOUS
  <2>1. e \in (now + 1)..Later /\ e < d
    BY <1>1, <1>3
  <2>2. e \notin Free
    BY <1>1, <1>3, <2>1
  <2>3. PICK s \in Slots : fence[s] # "none" /\ ~(e > s)
    BY <2>1, <2>2
  <2>. QED  BY <1>1, <2>1, <2>3 DEF Slots, ScheduleAssumption
<1>5. NextDue \in (now + 1)..Later
  BY <1>3, <1>4 DEF NextDue
<1>. QED  BY <1>1, <1>5

\* A new job belongs to the local engine, and nothing was started.
LEMMA EnginesInit == ScheduleAssumption /\ SchedInit => EnginesInv
<1>. SUFFICES ASSUME ScheduleAssumption, SchedInit PROVE EnginesInv
  OBVIOUS
<1>1. SchedTypeOK
  <2>1. Later \in Nat /\ 1 \in 1..Later /\ 0 \in 0..Later
    BY DEF Later, ScheduleAssumption
  <2>2. jrow \in LocalRows /\ lrun \in LocalRuns
    BY <2>1 DEF SchedInit, LocalRows, LocalRuns
  <2>3. bind \in Bindings /\ mig \in Migrations /\ remote \in Schedules
    BY <2>1 DEF SchedInit, Bindings, Migrations, Schedules
  <2>4. sy \in Synchronisations /\ occ \in [Slots -> OccRows]
    BY NoSyncTyped DEF SchedInit, OccRows
  <2>5. now \in 0..MaxSlot /\ faults \in 0..MaxFaults /\ off \in BOOLEAN
    <3>1. now = 0 /\ faults = 0 /\ off = FALSE
      BY DEF SchedInit
    <3>2. 0 \in 0..MaxSlot /\ 0 \in 0..MaxFaults
      BY DEF ScheduleAssumption
    <3>3. off \in BOOLEAN
      BY <3>1, Zenon
    <3>. QED  BY <3>1, <3>2, <3>3
  <2>6. /\ fence \in [Slots -> {"none", "sqlite", "temporal"}] /\ ran \in [Slots -> Nat]
        /\ owf \in [Slots -> {"none", "open", "reserved", "submitted", "polling", "closed"}]
        /\ osub \in [Slots -> {"none", "open"} \cup SubTerminal]
    BY DEF SchedInit
  <2>. QED  BY <2>2, <2>3, <2>4, <2>5, <2>6 DEF SchedTypeOK
<1>2. StopInv /\ EngineInv
  BY NoSyncTyped DEF SchedInit, StopInv, EngineInv, Remote
<1>3. SyncInv
  BY NoSyncTyped DEF SchedInit, SyncInv
<1>4. SlotInv
  BY DEF SchedInit, SlotInv, SlotKept
<1>. QED  BY <1>1, <1>2, <1>3, <1>4 DEF EnginesInv

\* Every statement of the two engines, the migration and the synchronisation keeps the invariant.
LEMMA EnginesStep == ScheduleAssumption /\ EnginesInv /\ [SchedNext]_schedVars => EnginesInv'
<1>. SUFFICES ASSUME ScheduleAssumption, EnginesInv, [SchedNext]_schedVars PROVE EnginesInv'
  OBVIOUS
<1>1. CASE Human
  BY <1>1, DisableKeeps, CancelAgainKeeps, StageJobKeeps, CutoverKeeps, RollbackKeeps, ChangeKeeps DEF Human
<1>2. CASE Syncs
  BY <1>2, SyncStartKeeps, SyncRpcKeeps, SyncMarkKeeps, ApplyKeeps, NextDueAhead DEF Syncs
<1>3. CASE Occurrence
  BY <1>3, ReserveOccKeeps, SubmitOccKeeps, RecordOccKeeps, SubEndsKeeps, PollKeeps, StopOccKeeps DEF Occurrence
<1>4. CASE ClaimDue \/ Complete \/ Clock \/ LockExpires \/ SyncDies \/ \E s \in Slots : PrepareDies(s)
  BY <1>4, ClaimDueKeeps, CompleteKeeps, ClockKeeps, LockExpiresKeeps, SyncDiesKeeps, PrepareDiesKeeps
<1>5. CASE UNCHANGED schedVars
  BY <1>5 DEF schedVars, EnginesInv, SchedTypeOK, StopInv, SyncInv, EngineInv, SlotInv, SlotKept, Gone
<1>. QED  BY <1>1, <1>2, <1>3, <1>4, <1>5 DEF SchedNext

\* The invariant holds in every reachable state.
LEMMA EnginesAlways == SchedSpec => []EnginesInv
  BY EnginesInit, EnginesStep, ScheduleAssumption, PTL DEF SchedSpec

\* A due time is started at most once by the two engines together, whatever migrations,
\* rollbacks and deaths lie in between, and never by one engine while the other is at work
\* (claim_due, admit_legacy, admit_native, cutover, drain).
THEOREM SlotsStartedOnce == SchedSpec => []ScheduledOnce
<1>1. EnginesInv => ScheduledOnce
  BY DEF EnginesInv, EngineInv, SlotInv, SlotKept, ScheduledOnce
<1>. QED  BY <1>1, EnginesAlways, PTL

\* The invariant says what stopping a job and applying a row mean.
LEMMA StoppedFollows == EnginesInv => OffStaysOff
<1>. SUFFICES ASSUME EnginesInv PROVE OffStaysOff
  OBVIOUS
<1>1. off => ~jrow.on /\ ~bind.enabled
  BY DEF EnginesInv, StopInv
<1>2. ASSUME bind.is, ~bind.dirty
      PROVE  remote.is = ~(bind.cancelled \/ bind.retired) /\ remote.on = (remote.is /\ bind.enabled)
  <2>1. (remote.is <=> ~Gone) /\ (remote.on <=> remote.is /\ bind.enabled)
    BY <1>2 DEF EnginesInv, SyncInv
  <2>2. remote.is \in BOOLEAN /\ remote.on \in BOOLEAN
    BY DEF EnginesInv, SchedTypeOK, Schedules
  <2>. QED  BY <2>1, <2>2, Zenon DEF Gone
<1>. QED  BY <1>1, <1>2, Zenon DEF OffStaysOff

\* A job that a human stopped is not enabled again in either engine, and a row that is marked
\* as applied is what the Schedule of the service does (disable, rollback, finish, sync).
THEOREM StoppedStaysStopped == SchedSpec => []OffStaysOff
<1>. QED  BY StoppedFollows, EnginesAlways, PTL
=============================================================================
