---------------------------- MODULE StoresProofs ----------------------------
(****************************************************************************)
(* The components with tables of their own, for any number of plans, calls, *)
(* writes, events and crashes: a file is written once and as a human        *)
(* approved it, files are destroyed as approved, what a sub-agent wrote is  *)
(* merged as it was reviewed, the events of a submission reach their        *)
(* transport in order and once, and a task keeps its budget. The last       *)
(* section proves of the stores together what is proved of each of them,    *)
(* and the types of all their rows.                                         *)
(****************************************************************************)
EXTENDS MCStores, ScheduleEnginesProofs, MemoryJobsProofs, TemporalStepsProofs, FiniteSetTheorems

----------------------------------------------------------------------------
(* Deletion of a workspace *)

DirRows == [st : DirStates, gen : Nat, temporary : BOOLEAN, refs : SUBSET Sessions]
DiskRows == [at : {"source", "archive", "partial", "none"}, ver : Nat]
PlanRows == [action : PlanActions, items : BOOLEAN, gen : Nat, refs : SUBSET Sessions, from : DirStates, ver : Nat,
             st : {"none", "preview", "executing", "completed"}, op : {"none", "running", "blocked", "completed"}]
WorkerRows == [pc : {"idle", "guard", "item", "move", "moved", "purge", "purging", "done", "finish"}, lease : BOOLEAN]

LifeTyped == /\ sess \in [Sessions -> {"active", "deleting", "deleted"}]
             /\ dir \in DirRows /\ disk \in DiskRows
             /\ plan \in [Plans -> PlanRows] /\ worker \in [Plans -> WorkerRows]

OpenPlan(p) == plan[p].op \in {"running", "blocked"}
Destroys(p) == Deletes(p) /\ plan[p].op # "none"

\* A plan is approved for a generation of the directory; one that retains or shares it has
\* another one.
PlanFits(p) ==
  plan[p].st # "none" => /\ plan[p].gen <= dir.gen
                         /\ plan[p].items /\ Deletes(p) => /\ plan[p].refs = {"A"}
                                                           /\ plan[p].gen = dir.gen => dir.temporary

\* While the deletion is open nobody can attach, retain or write: the session is frozen.
DeletionHolds(p) ==
  /\ plan[p].op # "none" => plan[p].st # "none"
  /\ Destroys(p) => sess["A"] # "active" /\ \A q \in Plans : Destroys(q) => q = p
  /\ Deletes(p) /\ plan[p].items /\ OpenPlan(p) => dir.refs = {"A"} /\ dir.temporary

\* A worker destroys what it compared with the plan.
WorkerFits(p) ==
  /\ worker[p].pc # "idle" => OpenPlan(p)
  /\ worker[p].pc \in {"move", "moved", "purge", "purging", "done"} => plan[p].items
  /\ worker[p].pc \in {"purge", "purging"} => Deletes(p)
  /\ worker[p].pc = "purging" => plan[p].ver = disk.ver

LifeInv == LifeTyped /\ \A p \in Plans : PlanFits(p) /\ DeletionHolds(p) /\ WorkerFits(p)

\* What the worker and the conversations leave of a plan: only its progress moves on.
PlanKept(p) ==
  /\ plan'[p].action = plan[p].action /\ plan'[p].items = plan[p].items /\ plan'[p].gen = plan[p].gen
  /\ plan'[p].refs = plan[p].refs /\ plan'[p].st = plan[p].st /\ plan'[p].ver = plan[p].ver
  /\ plan'[p].op = "none" <=> plan[p].op = "none"
  /\ OpenPlan(p) <=> OpenPlan(p)'

\* What they leave of the directory: the conversations that refer to it and its purpose.
DirKept == /\ dir'.refs = dir.refs /\ dir'.temporary = dir.temporary /\ dir'.gen >= dir.gen
           /\ sess'["A"] # "active" <=> sess["A"] # "active"

\* A worker other than the one that steps.
WorkerKept(p) == worker'[p] = worker[p] /\ PlanKept(p)

\* The first preview is for the directory as it was created.
LEMMA LifeInitial == LifeInit => LifeInv
<1> SUFFICES ASSUME LifeInit PROVE LifeInv
  OBVIOUS
<1>1. sess \in [Sessions -> {"active", "deleting", "deleted"}] /\ disk \in DiskRows
  BY DEF LifeInit, Sessions, DiskRows
<1>2. dir \in DirRows
  BY DEF LifeInit, DirRows, DirStates, MovingStates, Sessions
<1>3. plan \in [Plans -> PlanRows] /\ worker \in [Plans -> WorkerRows]
  BY DEF LifeInit, PlanRows, NoPlan, PlanActions, DirStates, MovingStates, WorkerRows
<1>4. \A p \in Plans : plan[p].st = "none" /\ plan[p].op = "none" /\ worker[p].pc = "idle"
  BY DEF LifeInit, NoPlan
<1>5. \A p \in Plans : PlanFits(p) /\ DeletionHolds(p) /\ WorkerFits(p)
  BY <1>4 DEF PlanFits, DeletionHolds, WorkerFits, Destroys, OpenPlan
<1> QED
  BY <1>1, <1>2, <1>3, <1>5 DEF LifeInv, LifeTyped

\* Plans and the deletion stay as they were approved when only their progress, the
\* directory's state and its generation move on (resume).
LEMMA LifeKept ==
  ASSUME LifeInv, LifeTyped', DirKept, \A p \in Plans : PlanKept(p) /\ WorkerFits(p)'
  PROVE  LifeInv'
<1> USE DEF LifeInv
<1>0. dir.gen \in Nat /\ dir'.gen \in Nat /\ \A p \in Plans : plan[p].gen \in Nat
  BY DEF LifeTyped, DirRows, PlanRows
<1>1. ASSUME NEW p \in Plans PROVE PlanFits(p)' /\ DeletionHolds(p)'
  <2>1. PlanFits(p) /\ DeletionHolds(p) /\ PlanKept(p)
    OBVIOUS
  <2>2. PlanFits(p)'
    BY <1>0, <2>1 DEF PlanFits, PlanKept, DirKept, Deletes
  <2>3. \A q \in Plans : Destroys(q)' <=> Destroys(q)
    BY DEF Destroys, Deletes, PlanKept
  <2>4. DeletionHolds(p)'
    BY <2>1, <2>3 DEF DeletionHolds, PlanKept, DirKept, Deletes
  <2> QED
    BY <2>2, <2>4
<1> QED
  BY <1>1

\* A worker that did not step still fits its plan as long as nobody writes.
LEMMA WorkerRests ==
  ASSUME NEW p \in Plans, WorkerFits(p), WorkerKept(p), disk'.ver = disk.ver
  PROVE  WorkerFits(p)'
BY DEF WorkerFits, WorkerKept, PlanKept, Deletes

\* A plan nobody touches keeps everything.
LEMMA PlanRests == ASSUME NEW p, plan'[p] = plan[p] PROVE PlanKept(p)
BY DEF PlanKept, OpenPlan

\* Another conversation refers to the directory only while no deletion is open: the
\* session would be frozen (attach_directory).
LEMMA LifeAttach == LifeInv /\ Attach => LifeInv'
<1> SUFFICES ASSUME LifeInv, Attach PROVE LifeInv'
  OBVIOUS
<1> USE DEF LifeInv
<1>0. dir' = [dir EXCEPT !.refs = dir.refs \union {"B"}, !.gen = dir.gen + 1] /\ ~Frozen /\ dir \in DirRows
  BY DEF Attach, LifeTyped
<1>a. dir' \in DirRows
  <2>1. dir \in DirRows /\ dir.refs \union {"B"} \in SUBSET Sessions /\ dir.gen + 1 \in Nat
    BY <1>0 DEF DirRows, Sessions
  <2>2. [dir EXCEPT !.refs = dir.refs \union {"B"}] \in DirRows
    BY <2>1 DEF DirRows
  <2> QED
    BY <1>0, <2>1, <2>2 DEF DirRows
<1>b. dir'.gen = dir.gen + 1 /\ dir'.temporary = dir.temporary /\ dir.gen \in Nat
  BY <1>0 DEF DirRows
<1>1. /\ dir' \in DirRows /\ dir'.gen = dir.gen + 1 /\ dir'.temporary = dir.temporary /\ dir.gen \in Nat
      /\ \A s \in dir.refs : sess[s] = "active"
  BY <1>0, <1>a, <1>b DEF Frozen
<1>2. UNCHANGED <<sess, disk, plan, worker>>
  BY DEF Attach
<1>3. LifeTyped'
  BY <1>1, <1>2 DEF LifeTyped
<1>4. ASSUME NEW p \in Plans PROVE PlanFits(p)' /\ DeletionHolds(p)' /\ WorkerFits(p)'
  <2>1. PlanFits(p) /\ DeletionHolds(p) /\ WorkerFits(p) /\ plan[p].gen \in Nat
    BY DEF LifeTyped, PlanRows
  <2>2. PlanFits(p)'
    BY <1>1, <1>2, <2>1 DEF PlanFits, Deletes
  <2>3. ~(Deletes(p) /\ plan[p].items /\ OpenPlan(p))
    BY <1>1, <2>1 DEF DeletionHolds, Destroys, OpenPlan
  <2>4. DeletionHolds(p)'
    BY <1>2, <2>1, <2>3 DEF DeletionHolds, Destroys, Deletes, OpenPlan
  <2>5. WorkerFits(p)'
    BY <1>2, <2>1 DEF WorkerFits, Deletes, OpenPlan
  <2> QED
    BY <2>2, <2>4, <2>5
<1> QED
  BY <1>3, <1>4

\* The same for a directory the user asks to keep (retain_directory).
LEMMA LifeRetain == LifeInv /\ Retain => LifeInv'
<1> SUFFICES ASSUME LifeInv, Retain PROVE LifeInv'
  OBVIOUS
<1> USE DEF LifeInv
<1>0. dir' = [dir EXCEPT !.temporary = FALSE, !.gen = dir.gen + 1] /\ ~Frozen /\ dir \in DirRows
  BY DEF Retain, LifeTyped
<1>a. dir' \in DirRows
  <2>1. dir \in DirRows /\ dir.gen + 1 \in Nat
    BY <1>0 DEF DirRows
  <2>2. [dir EXCEPT !.temporary = FALSE] \in DirRows
    BY <2>1 DEF DirRows
  <2> QED
    BY <1>0, <2>1, <2>2 DEF DirRows
<1>b. dir'.gen = dir.gen + 1 /\ dir.gen \in Nat
  BY <1>0 DEF DirRows
<1>1. /\ dir' \in DirRows /\ dir'.gen = dir.gen + 1 /\ dir.gen \in Nat
      /\ \A s \in dir.refs : sess[s] = "active"
  BY <1>0, <1>a, <1>b DEF Frozen
<1>2. UNCHANGED <<sess, disk, plan, worker>>
  BY DEF Retain
<1>3. LifeTyped'
  BY <1>1, <1>2 DEF LifeTyped
<1>4. ASSUME NEW p \in Plans PROVE PlanFits(p)' /\ DeletionHolds(p)' /\ WorkerFits(p)'
  <2>1. PlanFits(p) /\ DeletionHolds(p) /\ WorkerFits(p) /\ plan[p].gen \in Nat
    BY DEF LifeTyped, PlanRows
  <2>2. PlanFits(p)'
    BY <1>1, <1>2, <2>1 DEF PlanFits, Deletes
  <2>3. ~(Deletes(p) /\ plan[p].items /\ OpenPlan(p))
    BY <1>1, <2>1 DEF DeletionHolds, Destroys, OpenPlan
  <2>4. DeletionHolds(p)'
    BY <1>2, <2>1, <2>3 DEF DeletionHolds, Destroys, Deletes, OpenPlan
  <2>5. WorkerFits(p)'
    BY <1>2, <2>1 DEF WorkerFits, Deletes, OpenPlan
  <2> QED
    BY <2>2, <2>4, <2>5
<1> QED
  BY <1>3, <1>4

\* A tool writes for a conversation that is not being deleted, so never under a worker
\* that has compared the contents and is about to purge them (assert_access).
LEMMA LifeWrite == LifeInv /\ Write => LifeInv'
<1> SUFFICES ASSUME LifeInv, Write PROVE LifeInv'
  OBVIOUS
<1> USE DEF LifeInv
<1>1. disk' \in DiskRows /\ \E s \in dir.refs : s \in {"A", "B"} /\ sess[s] = "active"
  BY DEF Write, LifeTyped, DiskRows
<1>2. UNCHANGED <<sess, dir, plan, worker>>
  BY DEF Write
<1>3. LifeTyped'
  BY <1>1, <1>2 DEF LifeTyped
<1>4. ASSUME NEW p \in Plans PROVE PlanFits(p)' /\ DeletionHolds(p)' /\ WorkerFits(p)'
  <2>1. PlanFits(p) /\ DeletionHolds(p) /\ WorkerFits(p)
    OBVIOUS
  <2>2. PlanFits(p)' /\ DeletionHolds(p)'
    BY <1>2, <2>1 DEF PlanFits, DeletionHolds, Destroys, Deletes, OpenPlan
  <2>3. worker[p].pc # "purging"
    <3>1. ~(Deletes(p) /\ plan[p].items /\ OpenPlan(p))
      BY <1>1, <2>1 DEF DeletionHolds, Destroys, OpenPlan
    <3>2. worker[p].pc = "purging" => Deletes(p) /\ OpenPlan(p) /\ plan[p].items
      <4>1. plan[p].items \in BOOLEAN
        BY Zenon DEF LifeTyped, PlanRows
      <4> QED
        BY <2>1 DEF WorkerFits
    <3> QED
      BY <3>1, <3>2
  <2>4. WorkerFits(p)'
    BY <1>2, <2>1, <2>3 DEF WorkerFits, Deletes, OpenPlan
  <2> QED
    BY <2>2, <2>4
<1> QED
  BY <1>3, <1>4

\* Where the worker of a plan and the operation go, with nothing else about plans.
LEMMA StageMoves ==
  ASSUME LifeTyped, NEW p \in Plans, NEW pc \in {"idle", "guard", "item", "move", "moved", "purge", "purging", "done", "finish"},
         To(p, pc)
  PROVE  /\ worker' \in [Plans -> WorkerRows] /\ worker'[p].pc = pc
         /\ \A q \in Plans \ {p} : worker'[q] = worker[q]
BY DEF To, LifeTyped, WorkerRows

\* A worker that gives up (_blocked) lets go of its lease and keeps what was approved.
LEMMA BlockedKeeps ==
  ASSUME LifeTyped, NEW p \in Plans, OpenPlan(p), Blocked(p)
  PROVE  /\ worker' \in [Plans -> WorkerRows] /\ worker'[p].pc = "idle"
         /\ \A q \in Plans \ {p} : worker'[q] = worker[q]
         /\ plan' \in [Plans -> PlanRows] /\ \A q \in Plans : PlanKept(q)
<1>1. plan' = [plan EXCEPT ![p].op = "blocked"] /\ worker' = [worker EXCEPT ![p] = [pc |-> "idle", lease |-> FALSE]]
  BY DEF Blocked
<1>2. plan' \in [Plans -> PlanRows] /\ worker' \in [Plans -> WorkerRows] /\ worker'[p].pc = "idle"
  <2>1. [plan[p] EXCEPT !.op = "blocked"] \in PlanRows
    BY DEF LifeTyped, PlanRows
  <2>2. plan' \in [Plans -> PlanRows]
    BY <1>1, <2>1 DEF LifeTyped
  <2>3. worker' \in [Plans -> WorkerRows] /\ worker'[p].pc = "idle"
    BY <1>1 DEF LifeTyped, WorkerRows
  <2> QED
    BY <2>2, <2>3
<1>3. \A q \in Plans \ {p} : worker'[q] = worker[q] /\ plan'[q] = plan[q]
  BY <1>1 DEF LifeTyped
<1>4. PlanKept(p)
  BY <1>1 DEF LifeTyped, PlanRows, PlanKept, OpenPlan
<1> QED
  BY <1>2, <1>3, <1>4, PlanRests

\* Frame of a step of the worker of p: everybody else's plan is as it was.
LEMMA WorkerMoves ==
  ASSUME LifeInv, NEW p \in Plans, DirKept, dir' \in DirRows, disk' \in DiskRows, disk'.ver = disk.ver,
         sess' \in [Sessions -> {"active", "deleting", "deleted"}],
         worker' \in [Plans -> WorkerRows], plan' \in [Plans -> PlanRows],
         \A q \in Plans \ {p} : worker'[q] = worker[q],
         \A q \in Plans : PlanKept(q), WorkerFits(p)'
  PROVE  LifeInv'
<1>1. LifeTyped'
  BY DEF LifeTyped
<1>2. ASSUME NEW q \in Plans \ {p} PROVE WorkerFits(q)'
  BY <1>2, WorkerRests DEF LifeInv, WorkerKept
<1> QED
  BY <1>1, <1>2, LifeKept

\* The worker of p takes its lease, checks what the session still runs, loses its host, or
\* its lease runs out.
LEMMA LifeWorkerSteps ==
  ASSUME LifeInv, NEW p \in Plans, Resume(p) \/ Guard(p) \/ WorkerDies(p) \/ LeaseEnds(p)
  PROVE  LifeInv'
<1> USE DEF LifeInv
<1>0. LifeTyped /\ WorkerFits(p) /\ UNCHANGED <<sess, dir, disk>>
  BY DEF Resume, Guard, WorkerDies, LeaseEnds, OnlyWorker
<1>1. DirKept /\ dir' \in DirRows /\ disk' \in DiskRows /\ disk'.ver = disk.ver
  BY <1>0 DEF LifeTyped, DirKept, DirRows
<1>2. sess' \in [Sessions -> {"active", "deleting", "deleted"}]
  BY <1>0 DEF LifeTyped
<1>3. CASE Resume(p)
  <2>1. UNCHANGED plan /\ OpenPlan(p)
    BY <1>3 DEF Resume, OnlyWorker, OpenPlan
  <2>2. PICK pc \in {"guard", "item"} : worker' = [worker EXCEPT ![p] = [pc |-> pc, lease |-> TRUE]]
    BY <1>3 DEF Resume
  <2>3. /\ worker' \in [Plans -> WorkerRows] /\ worker'[p].pc \in {"guard", "item"}
        /\ \A q \in Plans \ {p} : worker'[q] = worker[q]
    BY <1>0, <2>2 DEF LifeTyped, WorkerRows
  <2>4. WorkerFits(p)'
    BY <2>1, <2>3 DEF WorkerFits, OpenPlan
  <2> QED
    BY <1>0, <1>1, <1>2, <2>1, <2>3, <2>4, PlanRests, WorkerMoves DEF LifeTyped
<1>4. CASE Guard(p)
  <2>0. worker[p].pc = "guard" /\ OpenPlan(p)
    BY <1>0, <1>4 DEF Guard, AtStage, WorkerFits
  <2>1. CASE Blocked(p)
    <3>1. WorkerFits(p)'
      BY <1>0, <2>0, <2>1, BlockedKeeps DEF WorkerFits
    <3> QED
      BY <1>0, <1>1, <1>2, <2>0, <2>1, <3>1, BlockedKeeps, WorkerMoves
  <2>2. CASE To(p, "item") /\ UNCHANGED plan
    <3>1. WorkerFits(p)'
      BY <1>0, <2>0, <2>2, StageMoves DEF WorkerFits, OpenPlan
    <3> QED
      BY <1>0, <1>1, <1>2, <2>2, <3>1, PlanRests, StageMoves, WorkerMoves DEF LifeTyped
  <2> QED
    BY <1>4, <2>1, <2>2 DEF Guard
<1>5. CASE WorkerDies(p)
  <2>1. To(p, "idle") /\ UNCHANGED plan
    BY <1>5 DEF WorkerDies
  <2>2. WorkerFits(p)'
    BY <1>0, <2>1, StageMoves DEF WorkerFits
  <2> QED
    BY <1>0, <1>1, <1>2, <2>1, <2>2, PlanRests, StageMoves, WorkerMoves DEF LifeTyped
<1>6. CASE LeaseEnds(p)
  <2>1. worker' = [worker EXCEPT ![p].lease = FALSE] /\ UNCHANGED plan /\ worker[p].pc = "idle"
    BY <1>6 DEF LeaseEnds, OnlyWorker, AtStage
  <2>2. /\ worker' \in [Plans -> WorkerRows] /\ worker'[p].pc = "idle"
        /\ \A q \in Plans \ {p} : worker'[q] = worker[q]
    BY <1>0, <2>1 DEF LifeTyped, WorkerRows
  <2>3. WorkerFits(p)'
    BY <2>2 DEF WorkerFits
  <2> QED
    BY <1>0, <1>1, <1>2, <2>1, <2>2, <2>3, PlanRests, WorkerMoves DEF LifeTyped
<1> QED
  BY <1>3, <1>4, <1>5, <1>6

\* What a field of a plan's row becomes.
LEMMA PlanOp ==
  ASSUME NEW recs \in [Plans -> PlanRows], NEW p \in Plans, NEW op \in {"none", "running", "blocked", "completed"},
         NEW new, new = [recs EXCEPT ![p].op = op]
  PROVE  /\ new \in [Plans -> PlanRows] /\ \A q \in Plans \ {p} : new[q] = recs[q]
         /\ new[p].action = recs[p].action /\ new[p].items = recs[p].items /\ new[p].gen = recs[p].gen
         /\ new[p].refs = recs[p].refs /\ new[p].st = recs[p].st /\ new[p].ver = recs[p].ver /\ new[p].op = op
<1>1. recs[p] \in PlanRows /\ [recs[p] EXCEPT !.op = op] \in PlanRows
  BY DEF PlanRows
<1>2. new \in [Plans -> PlanRows] /\ \A q \in Plans \ {p} : new[q] = recs[q]
  BY <1>1
<1> QED
  BY <1>1, <1>2 DEF PlanRows

\* A plan whose status is updated keeps what the human approved.
LEMMA PlanSt ==
  ASSUME NEW recs \in [Plans -> PlanRows], NEW p \in Plans, NEW st \in {"none", "preview", "executing", "completed"},
         NEW new, new = [recs EXCEPT ![p].st = st]
  PROVE  /\ new \in [Plans -> PlanRows] /\ \A q \in Plans \ {p} : new[q] = recs[q]
         /\ new[p].action = recs[p].action /\ new[p].items = recs[p].items /\ new[p].gen = recs[p].gen
         /\ new[p].refs = recs[p].refs /\ new[p].op = recs[p].op /\ new[p].ver = recs[p].ver /\ new[p].st = st
<1>1. recs[p] \in PlanRows /\ [recs[p] EXCEPT !.st = st] \in PlanRows
  BY DEF PlanRows
<1>2. new \in [Plans -> PlanRows] /\ \A q \in Plans \ {p} : new[q] = recs[q]
  BY <1>1
<1> QED
  BY <1>1, <1>2 DEF PlanRows

\* The row of a plan after its execution started or ended.
LEMMA PlanStOp ==
  ASSUME LifeTyped, NEW p \in Plans, NEW st \in {"none", "preview", "executing", "completed"},
         NEW op \in {"none", "running", "blocked", "completed"}, plan' = [plan EXCEPT ![p].st = st, ![p].op = op]
  PROVE  /\ plan' \in [Plans -> PlanRows] /\ \A q \in Plans \ {p} : plan'[q] = plan[q]
         /\ plan'[p].action = plan[p].action /\ plan'[p].items = plan[p].items /\ plan'[p].gen = plan[p].gen
         /\ plan'[p].refs = plan[p].refs /\ plan'[p].ver = plan[p].ver /\ plan'[p].st = st /\ plan'[p].op = op
<1>1. plan \in [Plans -> PlanRows]
  BY DEF LifeTyped
<1>2. PICK recs : recs = [plan EXCEPT ![p].st = st]
  OBVIOUS
<1>3. plan' = [recs EXCEPT ![p].op = op]
  BY <1>2
<1>4. /\ recs \in [Plans -> PlanRows] /\ \A q \in Plans \ {p} : recs[q] = plan[q]
      /\ recs[p].action = plan[p].action /\ recs[p].items = plan[p].items /\ recs[p].gen = plan[p].gen
      /\ recs[p].refs = plan[p].refs /\ recs[p].ver = plan[p].ver /\ recs[p].st = st
  BY <1>1, <1>2, PlanSt
<1>a. PICK new : new = plan'
  OBVIOUS
<1>b. new = [recs EXCEPT ![p].op = op] /\ recs \in [Plans -> PlanRows]
  BY <1>3, <1>4, <1>a
<1>5. /\ new \in [Plans -> PlanRows] /\ \A q \in Plans \ {p} : new[q] = recs[q]
      /\ new[p].action = recs[p].action /\ new[p].items = recs[p].items /\ new[p].gen = recs[p].gen
      /\ new[p].refs = recs[p].refs /\ new[p].ver = recs[p].ver /\ new[p].st = recs[p].st /\ new[p].op = op
  BY <1>b, PlanOp
<1> QED
  BY <1>4, <1>5, <1>a

\* A preview notes the directory as the human sees it: a directory the session shares or
\* keeps is no item of it (preview).
LEMMA LifePreview == ASSUME LifeInv, NEW p \in Plans, Preview(p) PROVE LifeInv'
<1> USE DEF LifeInv
<1>1. PICK action \in PlanActions, item \in BOOLEAN :
        /\ item <=> ((dir.temporary \/ action = "restore") /\ dir.refs = {"A"})
        /\ plan' = [plan EXCEPT ![p] = [action |-> action, items |-> item, gen |-> dir.gen, refs |-> dir.refs,
                                        from |-> dir.st, ver |-> disk.ver, st |-> "preview", op |-> "none"]]
  <2>1. PICK action \in PlanActions :
          plan' = [plan EXCEPT ![p] = [action |-> action,
                     items |-> ((dir.temporary \/ action = "restore") /\ dir.refs = {"A"}), gen |-> dir.gen,
                     refs |-> dir.refs, from |-> dir.st, ver |-> disk.ver, st |-> "preview", op |-> "none"]]
    BY Zenon DEF Preview
  <2>2. PICK item \in BOOLEAN : item = ((dir.temporary \/ action = "restore") /\ dir.refs = {"A"})
    OBVIOUS
  <2> QED
    BY <2>1, <2>2, Zenon
<1>2. plan[p].st = "none" /\ sess["A"] = "active" /\ UNCHANGED <<sess, dir, disk, worker>>
  BY DEF Preview
<1>3. dir \in DirRows /\ disk \in DiskRows /\ dir.gen \in Nat /\ plan \in [Plans -> PlanRows]
  BY DEF LifeTyped, DirRows
<1>4. plan'[p] \in PlanRows /\ plan' \in [Plans -> PlanRows]
  <2>1. /\ dir.gen \in Nat /\ dir.refs \in SUBSET Sessions /\ dir.st \in DirStates /\ disk.ver \in Nat
    BY <1>3 DEF DirRows, DiskRows
  <2>2. [action |-> action, items |-> item, gen |-> dir.gen, refs |-> dir.refs,
         from |-> dir.st, ver |-> disk.ver, st |-> "preview", op |-> "none"] \in PlanRows
    BY <2>1 DEF PlanRows
  <2> QED
    BY <1>1, <1>3, <2>2
<1>5. /\ plan'[p].action = action /\ plan'[p].items = item /\ plan'[p].gen = dir.gen /\ plan'[p].refs = dir.refs
      /\ plan'[p].st = "preview" /\ plan'[p].op = "none" /\ \A q \in Plans \ {p} : plan'[q] = plan[q]
  BY <1>1, <1>3
<1>6. LifeTyped'
  BY <1>2, <1>4 DEF LifeTyped
<1>7. ~Destroys(p) /\ ~Destroys(p)' /\ ~OpenPlan(p)'
  BY <1>2, <1>5 DEF DeletionHolds, Destroys, OpenPlan
<1>8. \A q \in Plans \ {p} : (Destroys(q)' <=> Destroys(q)) /\ (Deletes(q)' <=> Deletes(q)) /\ (OpenPlan(q)' <=> OpenPlan(q))
  BY <1>5 DEF Destroys, Deletes, OpenPlan
<1>9. PlanFits(p)' /\ DeletionHolds(p)' /\ WorkerFits(p)'
  <2>1. PlanFits(p)'
    BY <1>1, <1>2, <1>3, <1>5 DEF PlanFits, Deletes
  <2>2. DeletionHolds(p)'
    BY <1>5, <1>7 DEF DeletionHolds
  <2>3. ~OpenPlan(p)
    BY <1>2 DEF DeletionHolds, OpenPlan
  <2>4. WorkerFits(p)'
    BY <1>2, <2>3 DEF WorkerFits
  <2> QED
    BY <2>1, <2>2, <2>4
<1>10. ASSUME NEW q \in Plans \ {p} PROVE PlanFits(q)' /\ DeletionHolds(q)' /\ WorkerFits(q)'
  <2>0. PlanFits(q) /\ DeletionHolds(q) /\ WorkerFits(q)
    OBVIOUS
  <2>1. PlanFits(q)'
    BY <1>2, <1>5, <1>8, <2>0 DEF PlanFits
  <2>2. DeletionHolds(q)'
    BY <1>2, <1>5, <1>7, <1>8, <2>0 DEF DeletionHolds
  <2>3. WorkerFits(q)'
    BY <1>2, <1>5, <1>8, <2>0 DEF WorkerFits
  <2> QED
    BY <2>1, <2>2, <2>3
<1> QED
  BY <1>6, <1>9, <1>10

\* An operation starts in the transaction that checks the directory has the generation of
\* its preview; a deletion freezes the session there, so it is the only one (check_items).
LEMMA LifeExecute == ASSUME LifeInv, NEW p \in Plans, ExecutePlan(p) PROVE LifeInv'
<1> USE DEF LifeInv
<1>1. /\ plan[p].st = "preview" /\ sess["A"] = "active" /\ dir.gen = plan[p].gen /\ dir.refs = plan[p].refs
      /\ plan' = [plan EXCEPT ![p].st = "executing", ![p].op = "running"] /\ UNCHANGED <<dir, disk, worker>>
  BY DEF ExecutePlan, Checked
<1>2. /\ plan' \in [Plans -> PlanRows] /\ \A q \in Plans \ {p} : plan'[q] = plan[q]
      /\ plan'[p].action = plan[p].action /\ plan'[p].items = plan[p].items /\ plan'[p].gen = plan[p].gen
      /\ plan'[p].refs = plan[p].refs /\ plan'[p].ver = plan[p].ver /\ plan'[p].st = "executing"
      /\ plan'[p].op = "running"
  BY <1>1, PlanStOp
<1>3. /\ sess' \in [Sessions -> {"active", "deleting", "deleted"}]
      /\ Deletes(p) => sess'["A"] # "active"
      /\ ~Deletes(p) => UNCHANGED sess
  BY DEF ExecutePlan, LifeTyped, Sessions
<1>4. LifeTyped'
  BY <1>1, <1>2, <1>3 DEF LifeTyped
<1>5. \A q \in Plans : ~Destroys(q) /\ (q # p => ~Destroys(q)')
  BY <1>1, <1>2 DEF DeletionHolds, Destroys, Deletes
<1>6. PlanFits(p)' /\ DeletionHolds(p)' /\ WorkerFits(p)'
  <2>0. PlanFits(p) /\ WorkerFits(p) /\ (Deletes(p)' <=> Deletes(p))
    BY <1>2 DEF Deletes
  <2>1. PlanFits(p)'
    BY <1>1, <1>2, <2>0 DEF PlanFits
  <2>2. DeletionHolds(p)'
    BY <1>1, <1>2, <1>3, <1>5, <2>0 DEF DeletionHolds, Destroys, PlanFits
  <2>3. WorkerFits(p)'
    BY <1>1, <1>2, <2>0 DEF WorkerFits, OpenPlan
  <2> QED
    BY <2>1, <2>2, <2>3
<1>7. ASSUME NEW q \in Plans \ {p} PROVE PlanFits(q)' /\ DeletionHolds(q)' /\ WorkerFits(q)'
  <2>0. PlanFits(q) /\ DeletionHolds(q) /\ WorkerFits(q) /\ (Deletes(q)' <=> Deletes(q)) /\ (OpenPlan(q)' <=> OpenPlan(q))
    BY <1>2 DEF Deletes, OpenPlan
  <2>1. PlanFits(q)'
    BY <1>1, <1>2, <2>0 DEF PlanFits
  <2>2. DeletionHolds(q)'
    BY <1>1, <1>2, <1>5, <2>0 DEF DeletionHolds
  <2>3. WorkerFits(q)'
    BY <1>1, <1>2, <2>0 DEF WorkerFits
  <2> QED
    BY <2>1, <2>2, <2>3
<1> QED
  BY <1>4, <1>6, <1>7

\* The item's row, with the intent to move committed before the move: a directory that was
\* retained or shared since has another generation.
LEMMA LifeItem == ASSUME LifeInv, NEW p \in Plans, Item(p) PROVE LifeInv'
<1> USE DEF LifeInv
<1>1. /\ LifeTyped /\ WorkerFits(p) /\ worker[p].pc = "item" /\ UNCHANGED <<sess, disk>>
  BY DEF Item, AtStage
<1>2. OpenPlan(p) /\ dir \in DirRows /\ plan[p].items \in BOOLEAN
  <2>1. plan[p].items \in BOOLEAN
    BY Zenon, <1>1 DEF LifeTyped, PlanRows
  <2> QED
    BY <1>1, <2>1 DEF WorkerFits, LifeTyped
<1>3. sess' \in [Sessions -> {"active", "deleting", "deleted"}] /\ disk' \in DiskRows /\ disk'.ver = disk.ver
  BY <1>1 DEF LifeTyped
<1>4. CASE To(p, "finish") /\ UNCHANGED <<dir, plan>>
  <2>1. WorkerFits(p)' /\ DirKept /\ dir' \in DirRows
    BY <1>1, <1>2, <1>4, StageMoves DEF WorkerFits, OpenPlan, DirKept, DirRows
  <2> QED
    BY <1>1, <1>3, <1>4, <2>1, PlanRests, StageMoves, WorkerMoves DEF LifeTyped
<1>5. CASE Blocked(p) /\ UNCHANGED dir
  <2>1. WorkerFits(p)' /\ DirKept /\ dir' \in DirRows
    BY <1>1, <1>2, <1>5, BlockedKeeps DEF WorkerFits, DirKept, DirRows
  <2> QED
    BY <1>1, <1>2, <1>3, <1>5, <2>1, BlockedKeeps, WorkerMoves
<1>6. CASE plan[p].items /\ dir' = [dir EXCEPT !.st = Doing(p)] /\ To(p, "move") /\ UNCHANGED plan
  <2>1. Doing(p) \in DirStates
    BY DEF Doing, DirStates, MovingStates
  <2>2. dir' \in DirRows /\ DirKept
    BY <1>1, <1>2, <1>6, <2>1 DEF DirRows, DirKept
  <2>3. WorkerFits(p)'
    BY <1>1, <1>2, <1>6, StageMoves DEF WorkerFits, OpenPlan
  <2> QED
    BY <1>1, <1>3, <1>6, <2>2, <2>3, PlanRests, StageMoves, WorkerMoves DEF LifeTyped
<1>7. CASE /\ plan[p].items /\ UNCHANGED <<dir, plan>>
           /\ \/ Deletes(p) /\ To(p, "purge")
              \/ ~Deletes(p) /\ To(p, "done")
  <2>1. WorkerFits(p)'
    BY <1>1, <1>2, <1>7, StageMoves DEF WorkerFits, OpenPlan, Deletes
  <2>2. DirKept /\ dir' \in DirRows
    BY <1>1, <1>2, <1>7 DEF DirKept, DirRows
  <2>3. CASE To(p, "purge")
    BY <1>1, <1>3, <1>7, <2>1, <2>2, <2>3, PlanRests, StageMoves, WorkerMoves DEF LifeTyped
  <2>4. CASE To(p, "done")
    BY <1>1, <1>3, <1>7, <2>1, <2>2, <2>4, PlanRests, StageMoves, WorkerMoves DEF LifeTyped
  <2> QED
    BY <1>7, <2>3, <2>4
<1>8. Deletes(p) \in BOOLEAN /\ (To(p, IF Deletes(p) THEN "purge" ELSE "done") =>
        (Deletes(p) /\ To(p, "purge")) \/ (~Deletes(p) /\ To(p, "done")))
  BY DEF To, Deletes
<1> QED
  BY <1>2, <1>4, <1>5, <1>6, <1>7, <1>8 DEF Item

\* The move under the lock changes where the files are, never their contents.
LEMMA LifeMove == ASSUME LifeInv, NEW p \in Plans, MoveItem(p) PROVE LifeInv'
<1> USE DEF LifeInv
<1>1. /\ LifeTyped /\ WorkerFits(p) /\ worker[p].pc = "move" /\ UNCHANGED <<sess, dir>>
  BY DEF MoveItem, AtStage
<1>2. OpenPlan(p) /\ dir \in DirRows /\ disk \in DiskRows
  BY <1>1 DEF WorkerFits, LifeTyped
<1>3. sess' \in [Sessions -> {"active", "deleting", "deleted"}] /\ dir' \in DirRows /\ DirKept
  BY <1>1, <1>2 DEF LifeTyped, DirKept, DirRows
<1>4. CASE Blocked(p) /\ UNCHANGED disk
  <2>1. WorkerFits(p)'
    BY <1>1, <1>2, <1>4, BlockedKeeps DEF WorkerFits
  <2> QED
    BY <1>1, <1>2, <1>3, <1>4, <2>1, BlockedKeeps, WorkerMoves
<1>5. CASE disk' = [disk EXCEPT !.at = Target(p)] /\ To(p, "moved") /\ UNCHANGED plan
  <2>1. Target(p) \in {"source", "archive"}
    BY DEF Target
  <2>2. disk' \in DiskRows /\ disk'.ver = disk.ver
    BY <1>2, <1>5, <2>1 DEF DiskRows
  <2>3. WorkerFits(p)'
    BY <1>1, <1>2, <1>5, StageMoves DEF WorkerFits, OpenPlan
  <2> QED
    BY <1>1, <1>3, <1>5, <2>2, <2>3, PlanRests, StageMoves, WorkerMoves DEF LifeTyped
<1> QED
  BY <1>4, <1>5 DEF MoveItem

\* After the move, and when the item is done, only the directory's state and generation
\* change.
LEMMA LifeMoved == ASSUME LifeInv, NEW p \in Plans, Moved(p) \/ ItemDone(p) PROVE LifeInv'
<1> USE DEF LifeInv
<1>1. /\ LifeTyped /\ WorkerFits(p) /\ worker[p].pc \in {"moved", "done"} /\ UNCHANGED <<sess, disk, plan>>
  BY DEF Moved, ItemDone, AtStage
<1>2. OpenPlan(p) /\ plan[p].items /\ dir \in DirRows /\ dir.gen \in Nat
  BY <1>1 DEF WorkerFits, LifeTyped, DirRows
<1>3. sess' \in [Sessions -> {"active", "deleting", "deleted"}] /\ disk' \in DiskRows /\ disk'.ver = disk.ver
  BY <1>1 DEF LifeTyped
<1>4. Final(p) \in DirStates
  BY DEF Final, DirStates, MovingStates
<1>5. CASE Moved(p)
  <2>1. PICK st \in DirStates : dir' = [dir EXCEPT !.st = st]
    <3>1. dir' = [dir EXCEPT !.st = IF Deletes(p) THEN "purge_pending" ELSE Final(p)]
      BY <1>5 DEF Moved
    <3> QED
      BY <1>4, <3>1 DEF DirStates
  <2>2. dir' \in DirRows /\ DirKept
    BY <1>1, <1>2, <2>1 DEF DirRows, DirKept
  <2>3. (Deletes(p) /\ To(p, "purge")) \/ (~Deletes(p) /\ To(p, "done"))
    BY <1>5 DEF Moved, To, Deletes
  <2>4. WorkerFits(p)'
    BY <1>1, <1>2, <2>3, StageMoves DEF WorkerFits, OpenPlan, Deletes
  <2>5. CASE To(p, "purge")
    BY <1>1, <1>3, <2>2, <2>4, <2>5, PlanRests, StageMoves, WorkerMoves DEF LifeTyped
  <2>6. CASE To(p, "done")
    BY <1>1, <1>3, <2>2, <2>4, <2>6, PlanRests, StageMoves, WorkerMoves DEF LifeTyped
  <2> QED
    BY <2>3, <2>5, <2>6
<1>6. CASE ItemDone(p)
  <2>1. dir' = [dir EXCEPT !.st = Final(p), !.gen = dir.gen + 1] /\ To(p, "finish")
    BY <1>6 DEF ItemDone
  <2>2. dir'.gen = dir.gen + 1 /\ dir'.refs = dir.refs /\ dir'.temporary = dir.temporary
    BY <1>2, <2>1 DEF DirRows
  <2>3. dir' \in DirRows
    <3>1. [dir EXCEPT !.st = Final(p)] \in DirRows /\ dir.gen + 1 \in Nat
      BY <1>2, <1>4 DEF DirRows
    <3> QED
      BY <2>1, <3>1 DEF DirRows
  <2>4. DirKept
    BY <1>1, <1>2, <2>2 DEF DirKept
  <2>5. WorkerFits(p)'
    BY <1>1, <1>2, <2>1, StageMoves DEF WorkerFits, OpenPlan
  <2> QED
    BY <1>1, <1>3, <2>1, <2>3, <2>4, <2>5, PlanRests, StageMoves, WorkerMoves DEF LifeTyped
<1> QED
  BY <1>5, <1>6

\* What the purge compared, it destroys: nobody writes between.
LEMMA LifePurge == ASSUME LifeInv, NEW p \in Plans, Purge(p) \/ Purging(p) PROVE LifeInv'
<1> USE DEF LifeInv
<1>1. /\ LifeTyped /\ WorkerFits(p) /\ worker[p].pc \in {"purge", "purging"} /\ UNCHANGED sess
  BY DEF Purge, Purging, AtStage
<1>2. OpenPlan(p) /\ plan[p].items /\ Deletes(p) /\ dir \in DirRows /\ disk \in DiskRows
  BY <1>1 DEF WorkerFits, LifeTyped
<1>3. sess' \in [Sessions -> {"active", "deleting", "deleted"}]
  BY <1>1 DEF LifeTyped
<1>4. dir' \in DirRows /\ DirKept
  <2>1. UNCHANGED dir \/ dir' = [dir EXCEPT !.st = "purging"]
    BY DEF Purge, Purging
  <2> QED
    BY <1>1, <1>2, <2>1 DEF DirRows, DirKept, DirStates, MovingStates
<1>5. disk' \in DiskRows /\ disk'.ver = disk.ver
  <2>1. UNCHANGED disk \/ \E at \in {"none", "partial"} : disk' = [disk EXCEPT !.at = at]
    BY DEF Purge, Purging
  <2> QED
    BY <1>2, <2>1 DEF DiskRows
<1>6. CASE Blocked(p)
  <2>1. WorkerFits(p)'
    BY <1>1, <1>2, <1>6, BlockedKeeps DEF WorkerFits
  <2> QED
    BY <1>1, <1>2, <1>3, <1>4, <1>5, <1>6, <2>1, BlockedKeeps, WorkerMoves
<1>7. CASE plan[p].ver = disk.ver /\ To(p, "purging") /\ UNCHANGED plan
  <2>1. WorkerFits(p)'
    BY <1>1, <1>2, <1>5, <1>7, StageMoves DEF WorkerFits, OpenPlan, Deletes
  <2> QED
    BY <1>1, <1>3, <1>4, <1>5, <1>7, <2>1, PlanRests, StageMoves, WorkerMoves DEF LifeTyped
<1>8. CASE To(p, "done") /\ UNCHANGED plan
  <2>1. WorkerFits(p)'
    BY <1>1, <1>2, <1>8, StageMoves DEF WorkerFits, OpenPlan
  <2> QED
    BY <1>1, <1>3, <1>4, <1>5, <1>8, <2>1, PlanRests, StageMoves, WorkerMoves DEF LifeTyped
<1> QED
  BY <1>6, <1>7, <1>8 DEF Purge, Purging, Purgeable

\* A finished deletion drops the reference of its session; it was the only one.
LEMMA LifeFinish == ASSUME LifeInv, NEW p \in Plans, Finish(p) PROVE LifeInv'
<1> USE DEF LifeInv
<1>1. /\ LifeTyped /\ worker[p].pc = "finish" /\ UNCHANGED <<sess, disk>>
      /\ plan' = [plan EXCEPT ![p].st = "completed", ![p].op = "completed"]
      /\ worker' = [worker EXCEPT ![p] = [pc |-> "idle", lease |-> FALSE]]
  BY DEF Finish, AtStage
<1>2. /\ plan' \in [Plans -> PlanRows] /\ \A q \in Plans \ {p} : plan'[q] = plan[q]
      /\ plan'[p].action = plan[p].action /\ plan'[p].items = plan[p].items /\ plan'[p].gen = plan[p].gen
      /\ plan'[p].refs = plan[p].refs /\ plan'[p].ver = plan[p].ver /\ plan'[p].st = "completed"
      /\ plan'[p].op = "completed"
  BY <1>1, PlanStOp
<1>3. /\ worker' \in [Plans -> WorkerRows] /\ worker'[p].pc = "idle"
      /\ \A q \in Plans \ {p} : worker'[q] = worker[q]
  BY <1>1 DEF LifeTyped, WorkerRows
<1>4. OpenPlan(p) /\ plan[p].st # "none" /\ plan[p].op # "none"
  BY <1>1 DEF WorkerFits, DeletionHolds, OpenPlan
<1>5. dir \in DirRows /\ dir.gen \in Nat /\ \A q \in Plans : plan[q].gen \in Nat
  BY <1>1 DEF LifeTyped, DirRows, PlanRows
<1>6. PICK gen \in {dir.gen, dir.gen + 1}, refs \in {dir.refs, dir.refs \ {"A"}} :
        /\ dir' \in DirRows /\ dir'.gen = gen /\ dir'.refs = refs /\ dir'.temporary = dir.temporary
        /\ ~Deletes(p) => refs = dir.refs
  <2>1. CASE Deletes(p)
    <3>1. PICK gen \in {dir.gen, dir.gen + 1} : dir' = [dir EXCEPT !.refs = dir.refs \ {"A"}, !.gen = gen]
      <4>1. dir' = [dir EXCEPT !.refs = dir.refs \ {"A"}, !.gen = IF plan[p].items THEN dir.gen ELSE dir.gen + 1]
        BY <2>1 DEF Finish
      <4>2. PICK gen \in {dir.gen, dir.gen + 1} : gen = IF plan[p].items THEN dir.gen ELSE dir.gen + 1
        OBVIOUS
      <4> QED
        BY <4>1, <4>2
    <3>2. [dir EXCEPT !.refs = dir.refs \ {"A"}] \in DirRows /\ gen \in Nat
      BY <1>5 DEF DirRows
    <3>3. dir' \in DirRows
      BY <3>1, <3>2 DEF DirRows
    <3>4. dir'.gen = gen /\ dir'.refs = dir.refs \ {"A"} /\ dir'.temporary = dir.temporary
      BY <1>5, <3>1 DEF DirRows
    <3> QED
      BY <2>1, <3>3, <3>4
  <2>2. CASE ~Deletes(p)
    BY <1>5, <2>2 DEF Finish
  <2> QED
    BY <2>1, <2>2
<1>7. LifeTyped'
  BY <1>1, <1>2, <1>3, <1>6 DEF LifeTyped
<1>8. \A q \in Plans : (Destroys(q)' <=> Destroys(q)) /\ (Deletes(q)' <=> Deletes(q))
  BY <1>2, <1>4 DEF Destroys, Deletes
<1>9. PlanFits(p)' /\ DeletionHolds(p)' /\ WorkerFits(p)'
  <2>0. PlanFits(p) /\ DeletionHolds(p)
    OBVIOUS
  <2>1. PlanFits(p)'
    BY <1>2, <1>4, <1>5, <1>6, <1>8, <2>0 DEF PlanFits
  <2>2. DeletionHolds(p)'
    BY <1>1, <1>2, <1>8, <2>0 DEF DeletionHolds, OpenPlan
  <2>3. WorkerFits(p)'
    BY <1>3 DEF WorkerFits
  <2> QED
    BY <2>1, <2>2, <2>3
<1>10. ASSUME NEW q \in Plans \ {p} PROVE PlanFits(q)' /\ DeletionHolds(q)' /\ WorkerFits(q)'
  <2>0. PlanFits(q) /\ DeletionHolds(q) /\ WorkerFits(q) /\ (OpenPlan(q)' <=> OpenPlan(q))
    BY <1>2 DEF OpenPlan
  <2>1. PlanFits(q)'
    BY <1>2, <1>5, <1>6, <1>8, <2>0 DEF PlanFits
  <2>2. Deletes(q) /\ OpenPlan(q) => ~Deletes(p)
    BY <1>4, <2>0 DEF DeletionHolds, Destroys, OpenPlan
  <2>3. DeletionHolds(q)'
    BY <1>1, <1>2, <1>6, <1>8, <2>0, <2>2 DEF DeletionHolds
  <2>4. WorkerFits(q)'
    BY <1>1, <1>2, <1>3, <1>8, <2>0 DEF WorkerFits
  <2> QED
    BY <2>1, <2>3, <2>4
<1> QED
  BY <1>7, <1>9, <1>10

\* Tasks, external work and the erasure of the session's data leave the directory alone.
LEMMA LifeAround == ASSUME LifeInv, TaskTurns \/ ExternalEnds \/ EraseSession PROVE LifeInv'
<1> USE DEF LifeInv
<1>1. LifeTyped /\ UNCHANGED <<dir, disk, plan, worker>>
  BY DEF TaskTurns, ExternalEnds, EraseSession
<1>2. UNCHANGED sess \/ (sess' = [sess EXCEPT !["A"] = "deleted"])
  BY DEF TaskTurns, ExternalEnds, EraseSession
<1>3. LifeTyped'
  BY <1>1, <1>2 DEF LifeTyped, Sessions
<1>4. sess'["A"] # "active" \/ UNCHANGED sess
  BY <1>1, <1>2 DEF LifeTyped, Sessions
<1>5. ASSUME NEW p \in Plans PROVE PlanFits(p)' /\ DeletionHolds(p)' /\ WorkerFits(p)'
  BY <1>1, <1>4 DEF PlanFits, DeletionHolds, WorkerFits, Destroys, Deletes, OpenPlan
<1> QED
  BY <1>3, <1>5

\* No step of a conversation, a worker or a client loses the plan of an open deletion.
LEMMA LifeStep == LifeInv /\ [LifeNext]_lifeVars => LifeInv'
<1> SUFFICES ASSUME LifeInv, [LifeNext]_lifeVars PROVE LifeInv'
  OBVIOUS
<1>1. CASE UNCHANGED lifeVars
  BY <1>1 DEF lifeVars, LifeInv, LifeTyped, PlanFits, DeletionHolds, WorkerFits, Destroys, Deletes, OpenPlan
<1>2. CASE Attach \/ Retain \/ TaskTurns \/ Write \/ ExternalEnds \/ EraseSession
  BY <1>2, LifeAttach, LifeRetain, LifeWrite, LifeAround
<1>3. ASSUME NEW p \in Plans, Preview(p) \/ ExecutePlan(p) \/ WorkerSteps(p) \/ WorkerDies(p) PROVE LifeInv'
  BY <1>3, LifePreview, LifeExecute, LifeWorkerSteps, LifeItem, LifeMove, LifeMoved, LifePurge, LifeFinish
     DEF WorkerSteps
<1> QED
  BY <1>1, <1>2, <1>3 DEF LifeNext

\* Where files are destroyed the invariant holds: only Purging does it, for a deletion that
\* compared the contents with its plan.
LEMMA PurgesAsApproved ==
  ASSUME LifeInv, [LifeNext]_lifeVars, disk'.at # disk.at, disk'.at \in {"partial", "none"}
  PROVE  /\ dir.temporary /\ dir.refs \subseteq {"A"}
         /\ \E p \in Plans : Deletes(p) /\ plan[p].op # "none" /\ plan[p].ver = disk.ver /\ plan[p].items
<1>1. disk \in DiskRows
  BY DEF LifeInv, LifeTyped
<1>2. \A p \in Plans : ~MoveItem(p)
  <2> SUFFICES ASSUME NEW p \in Plans, MoveItem(p) PROVE FALSE
    OBVIOUS
  <2>1. UNCHANGED disk \/ disk' = [disk EXCEPT !.at = Target(p)]
    BY DEF MoveItem
  <2>2. Target(p) \in {"source", "archive"}
    BY DEF Target
  <2> QED
    BY <1>1, <2>1, <2>2 DEF DiskRows
<1>3. ~Write
  BY <1>1 DEF Write, DiskRows
<1>4. PICK p \in Plans : Purging(p)
  BY <1>2, <1>3 DEF LifeNext, WorkerSteps, lifeVars, Attach, Retain, TaskTurns, ExternalEnds, EraseSession, Preview,
     ExecutePlan, WorkerDies, Resume, OnlyWorker, Guard, Item, Moved, Purge, ItemDone, Finish, LeaseEnds
<1>5. /\ plan[p].op # "none" /\ Deletes(p) /\ plan[p].items /\ plan[p].ver = disk.ver /\ OpenPlan(p)
  BY <1>4 DEF LifeInv, Purging, AtStage, WorkerFits, OpenPlan
<1>6. dir.refs = {"A"} /\ dir.temporary
  BY <1>5 DEF LifeInv, DeletionHolds
<1> QED
  BY <1>5, <1>6

\* Files are destroyed only as the human saw them, for any number of plans, generations,
\* writes and crashes: by an approved deletion, with the contents of its preview, in a
\* temporary directory no other conversation refers to (check_items, resume).
THEOREM FilesDestroyedAsApproved == LifeSpec => DestroyedAsApproved
<1>1. LifeInv /\ [LifeNext]_lifeVars =>
        [(disk'.at # disk.at /\ disk'.at \in {"partial", "none"}) =>
           /\ dir.temporary /\ dir.refs \subseteq {"A"}
           /\ \E p \in Plans : Deletes(p) /\ plan[p].op # "none" /\ plan[p].ver = disk.ver /\ plan[p].items]_lifeVars
  BY PurgesAsApproved
<1> QED
  BY LifeInitial, LifeStep, <1>1, PTL DEF LifeSpec, DestroyedAsApproved

\* What the model bounds.  An item raises the generation up to MaxGen + 1; the one step beyond
\* is that of the deletion that leaves the directory to others.
GenFits ==
  /\ dir.gen \in 1..(MaxGen + 2) /\ disk.ver <= MaxWrites /\ \A p \in Plans : plan[p].ver <= MaxWrites
  /\ dir.gen = MaxGen + 2 => \E p \in Plans : Destroys(p) /\ plan[p].op = "completed"

WipeMarks == /\ data \in {"none", "pending", "ready", "completed"} /\ task \in BOOLEAN /\ ext \in BOOLEAN
             /\ fails \in 0..MaxFails

LEMMA BoundsInitial == LifeInit => GenFits /\ WipeMarks
<1> SUFFICES ASSUME LifeInit PROVE GenFits /\ WipeMarks
  OBVIOUS
<1>1. dir.gen = 1 /\ disk.ver = 0 /\ \A p \in Plans : plan[p].ver = 0
  BY DEF LifeInit, NoPlan
<1>2. data = "none" /\ task = FALSE /\ ext \in BOOLEAN /\ fails = 0
  BY DEF LifeInit
<1>3. GenFits
  BY <1>1, LifecycleAssumption DEF GenFits
<1>4. WipeMarks
  <2>1. task \in BOOLEAN
    BY <1>2, Zenon
  <2>2. fails \in 0..MaxFails
    BY <1>2, LifecycleAssumption
  <2> QED
    BY <1>2, <2>1, <2>2 DEF WipeMarks
<1> QED
  BY <1>3, <1>4

\* No step but one raises the generation above MaxGen + 1, and none goes on with a completed
\* operation.
LEMMA GenKept ==
  ASSUME GenFits, disk'.ver <= MaxWrites, dir'.gen = dir.gen \/ dir'.gen \in 1..(MaxGen + 1),
         \A q \in Plans : plan'[q].ver <= MaxWrites,
         \A q \in Plans : Destroys(q) /\ plan[q].op = "completed" => plan'[q] = plan[q]
  PROVE  GenFits'
<1>1. dir'.gen \in 1..(MaxGen + 2) /\ (dir'.gen = MaxGen + 2 => dir'.gen = dir.gen)
  BY LifecycleAssumption DEF GenFits
<1>2. ASSUME dir'.gen = MaxGen + 2 PROVE \E q \in Plans : (Destroys(q) /\ plan[q].op = "completed")'
  <2>1. PICK q \in Plans : Destroys(q) /\ plan[q].op = "completed"
    BY <1>1, <1>2 DEF GenFits
  <2>2. plan'[q] = plan[q]
    BY <2>1
  <2>3. (Destroys(q) /\ plan[q].op = "completed")'
    BY <2>1, <2>2 DEF Destroys, Deletes
  <2> QED
    BY <2>3
<1> QED
  BY <1>1, <1>2 DEF GenFits

\* A step of the plan p alone, whose operation is not completed.
LEMMA PlanBounds ==
  ASSUME LifeTyped, GenFits, NEW p \in Plans, Destroys(p) => plan[p].op # "completed",
         NEW r, r.ver <= MaxWrites, plan' = [plan EXCEPT ![p] = r],
         disk'.ver = disk.ver, dir'.gen = dir.gen \/ dir'.gen \in 1..(MaxGen + 1)
  PROVE  GenFits'
<1>1. \A q \in Plans : plan'[q] = IF q = p THEN r ELSE plan[q]
  BY DEF LifeTyped
<1>2. \A q \in Plans : plan'[q].ver <= MaxWrites
  BY <1>1 DEF GenFits
<1>3. \A q \in Plans : Destroys(q) /\ plan[q].op = "completed" => plan'[q] = plan[q]
  BY <1>1
<1>4. disk'.ver <= MaxWrites
  BY DEF GenFits
<1> QED
  BY <1>2, <1>3, <1>4, GenKept

\* The generation under the conversations, the previews and the workers.
LEMMA GenStep == LifeInv /\ GenFits /\ [LifeNext]_lifeVars => GenFits'
<1> SUFFICES ASSUME LifeInv, GenFits, [LifeNext]_lifeVars PROVE GenFits'
  OBVIOUS
<1>0. LifeTyped /\ disk.ver \in Nat /\ dir.gen \in Nat
  BY DEF LifeInv, LifeTyped, DirRows, DiskRows
\* A step that leaves the plans alone.
<1>1. ASSUME UNCHANGED plan, disk'.ver <= MaxWrites, dir'.gen = dir.gen \/ dir'.gen \in 1..(MaxGen + 1)
      PROVE  GenFits'
  BY <1>1, GenKept DEF GenFits
<1>2. disk.ver <= MaxWrites
  BY DEF GenFits
<1>3. CASE Attach \/ Retain
  <2>1. dir.gen < MaxGen /\ dir'.gen = dir.gen + 1 /\ UNCHANGED <<plan, disk>>
    BY <1>0, <1>3 DEF Attach, Retain, LifeTyped, DirRows
  <2>2. dir'.gen \in 1..(MaxGen + 1)
    BY <1>0, <2>1, LifecycleAssumption
  <2> QED
    BY <1>1, <1>2, <2>1, <2>2
<1>4. CASE Write
  <2>1. disk'.ver = disk.ver + 1 /\ disk.ver < MaxWrites /\ UNCHANGED <<plan, dir>>
    BY <1>0, <1>4 DEF Write, LifeTyped, DiskRows
  <2> QED
    BY <1>0, <1>1, <2>1, LifecycleAssumption
<1>5. CASE TaskTurns \/ ExternalEnds \/ EraseSession \/ UNCHANGED lifeVars
  BY <1>1, <1>2, <1>5 DEF TaskTurns, ExternalEnds, EraseSession, lifeVars
<1>6. ASSUME NEW p \in Plans, Preview(p) PROVE GenFits'
  <2>1. UNCHANGED <<dir, disk>> /\ plan[p].st = "none"
    BY <1>6 DEF Preview
  <2>2. plan[p].op # "completed"
    BY <2>1 DEF LifeInv, DeletionHolds
  <2>3. PICK r : r.ver = disk.ver /\ plan' = [plan EXCEPT ![p] = r]
    BY <1>6 DEF Preview
  <2> QED
    BY <1>0, <1>2, <2>1, <2>2, <2>3, PlanBounds
<1>7. ASSUME NEW p \in Plans, ExecutePlan(p) PROVE GenFits'
  <2>1. UNCHANGED <<dir, disk>> /\ sess["A"] = "active"
    BY <1>7 DEF ExecutePlan, Checked
  <2>2. ~Destroys(p) /\ plan[p] \in PlanRows
    BY <1>0, <2>1 DEF LifeInv, LifeTyped, DeletionHolds
  <2>3. plan' = [plan EXCEPT ![p] = [plan[p] EXCEPT !.st = "executing", !.op = "running"]]
    BY <1>0, <1>7 DEF ExecutePlan, LifeTyped
  <2>4. [plan[p] EXCEPT !.st = "executing", !.op = "running"].ver <= MaxWrites
    BY <2>2 DEF PlanRows, GenFits
  <2> QED
    BY <1>0, <2>1, <2>2, <2>3, <2>4, PlanBounds
<1>8. ASSUME NEW p \in Plans, Resume(p) \/ LeaseEnds(p) \/ WorkerDies(p) PROVE GenFits'
  BY <1>1, <1>2, <1>8 DEF Resume, LeaseEnds, WorkerDies, OnlyWorker
<1>9. ASSUME NEW p \in Plans, Guard(p) \/ Item(p) \/ MoveItem(p) \/ Moved(p) \/ Purge(p) \/ Purging(p) PROVE GenFits'
  <2>1. worker[p].pc # "idle"
    BY <1>9 DEF Guard, Item, MoveItem, Moved, Purge, Purging, AtStage
  <2>2. dir'.gen = dir.gen
    BY <1>0, <1>9 DEF Guard, Item, MoveItem, Moved, Purge, Purging, LifeTyped, DirRows
  <2>3. disk'.ver = disk.ver
    BY <1>0, <1>9 DEF Guard, Item, MoveItem, Moved, Purge, Purging, LifeTyped, DiskRows
  <2>4. CASE UNCHANGED plan
    BY <1>1, <1>2, <2>2, <2>3, <2>4
  <2>5. CASE Blocked(p)
    <3>1. plan[p].op # "completed" /\ plan[p] \in PlanRows
      BY <1>0, <2>1 DEF LifeInv, LifeTyped, WorkerFits, OpenPlan
    <3>2. plan' = [plan EXCEPT ![p] = [plan[p] EXCEPT !.op = "blocked"]]
      BY <2>5 DEF Blocked
    <3>3. [plan[p] EXCEPT !.op = "blocked"].ver <= MaxWrites
      BY <3>1 DEF PlanRows, GenFits
    <3> QED
      BY <1>0, <2>2, <2>3, <3>1, <3>2, <3>3, PlanBounds
  <2> QED
    BY <1>9, <2>4, <2>5 DEF Guard, Item, MoveItem, Moved, Purge, Purging
<1>10. ASSUME NEW p \in Plans, ItemDone(p) PROVE GenFits'
  <2>1. dir.gen <= MaxGen /\ dir'.gen = dir.gen + 1 /\ UNCHANGED <<plan, disk>>
    BY <1>0, <1>10 DEF ItemDone, LifeTyped, DirRows
  <2>2. dir'.gen \in 1..(MaxGen + 1)
    BY <1>0, <2>1, LifecycleAssumption
  <2> QED
    BY <1>1, <1>2, <2>1, <2>2
<1>11. ASSUME NEW p \in Plans, Finish(p) PROVE GenFits'
  <2> DEFINE r == [plan[p] EXCEPT !.st = "completed", !.op = "completed"]
  <2>1. OpenPlan(p) /\ plan[p] \in PlanRows /\ UNCHANGED disk /\ plan' = [plan EXCEPT ![p] = r]
    BY <1>0, <1>11 DEF Finish, AtStage, LifeInv, LifeTyped, WorkerFits
  <2>2. r.ver <= MaxWrites /\ r.op = "completed" /\ r.action = plan[p].action /\ plan[p].op # "completed"
    BY <2>1 DEF PlanRows, GenFits, OpenPlan
  <2>3. CASE dir'.gen = dir.gen
    <3> HIDE DEF r
    <3> QED
      BY <1>0, <2>1, <2>2, <2>3, PlanBounds
  \* The deletion that leaves the directory: no other one was completed before.
  <2>4. CASE Deletes(p) /\ dir'.gen = dir.gen + 1
    <3>1. Destroys(p) /\ \A q \in Plans : Destroys(q) => q = p
      BY <2>1, <2>4 DEF Destroys, OpenPlan, LifeInv, DeletionHolds
    <3>2. dir.gen # MaxGen + 2
      BY <2>2, <3>1 DEF GenFits
    <3>3. dir'.gen \in 1..(MaxGen + 2)
      BY <1>0, <2>4, <3>2, LifecycleAssumption DEF GenFits
    <3>4. plan'[p] = r /\ \A q \in Plans : plan'[q] = IF q = p THEN r ELSE plan[q]
      BY <1>0, <2>1 DEF LifeTyped
    <3>5. \A q \in Plans : plan'[q].ver <= MaxWrites
      BY <2>2, <3>4 DEF GenFits
    <3>6. (Destroys(p) /\ plan[p].op = "completed")'
      BY <2>2, <2>4, <3>4 DEF Destroys, Deletes
    <3> QED
      BY <1>2, <2>1, <3>3, <3>5, <3>6 DEF GenFits
  <2>5. dir'.gen = dir.gen \/ (Deletes(p) /\ dir'.gen = dir.gen + 1)
    BY <1>0, <1>11 DEF Finish, LifeTyped, DirRows
  <2> QED
    BY <2>3, <2>4, <2>5
<1> QED
  BY <1>3, <1>4, <1>5, <1>6, <1>7, <1>8, <1>9, <1>10, <1>11 DEF LifeNext, WorkerSteps

\* What becomes of the session's data, its turn and the faults.
LEMMA WipeMarksStep == WipeMarks /\ [LifeNext]_lifeVars => WipeMarks'
<1> SUFFICES ASSUME WipeMarks, [LifeNext]_lifeVars PROVE WipeMarks'
  OBVIOUS
<1>1. ASSUME UNCHANGED <<data, task, ext, fails>> PROVE WipeMarks'
  BY <1>1 DEF WipeMarks
<1>2. CASE Attach \/ Retain \/ Write \/ UNCHANGED lifeVars
  BY <1>1, <1>2 DEF Attach, Retain, Write, lifeVars
<1>3. CASE TaskTurns
  BY <1>3 DEF TaskTurns, WipeMarks
<1>4. CASE ExternalEnds \/ EraseSession
  BY <1>4 DEF ExternalEnds, EraseSession, WipeMarks
<1>5. ASSUME NEW p \in Plans, Preview(p) \/ Resume(p) \/ Guard(p) \/ Item(p) \/ MoveItem(p) \/ Moved(p) \/ Purge(p)
                              \/ ItemDone(p) \/ LeaseEnds(p)
      PROVE  WipeMarks'
  BY <1>1, <1>5 DEF Preview, Resume, Guard, Item, MoveItem, Moved, Purge, ItemDone, LeaseEnds, OnlyWorker
<1>6. ASSUME NEW p \in Plans, ExecutePlan(p) \/ Finish(p) PROVE WipeMarks'
  BY <1>6 DEF ExecutePlan, Finish, WipeMarks
<1>7. ASSUME NEW p \in Plans, Purging(p) \/ WorkerDies(p) PROVE WipeMarks'
  <2>1. UNCHANGED <<data, task, ext>> /\ (fails' = fails \/ (fails < MaxFails /\ fails' = fails + 1))
    BY <1>7 DEF Purging, WorkerDies
  <2> QED
    BY <2>1, LifecycleAssumption DEF WipeMarks
<1> QED
  BY <1>2, <1>3, <1>4, <1>5, <1>6, <1>7 DEF LifeNext, WorkerSteps

----------------------------------------------------------------------------
(* A reviewed commit is merged once *)

NodeRows == [st : NodeStates, lease : 0..Merge, live : BOOLEAN, tries : 0..MaxClaims]
ChildRows == [st : {"none", "pending", "running", "tool", "suspended", "done", "weak", "failed", "unknown"}, by : 0..MaxClaims]
CollabTyped == /\ node \in [Nodes -> NodeRows] /\ child \in [Nodes -> ChildRows]
               /\ commit \in 0..MaxClaims /\ merges \in Nat /\ review \in [of : 0..MaxClaims, ok : BOOLEAN]

AfterMerge == {"merging", "merged", "needs_resolution", "cancel_requested", "cancelled", "conflict"}
AfterPublish == AfterMerge \union {"review_pending", "reviewed", "needs_input", "rejected"}

\* A coder publishes once: its durable task has ended, so no answer lets it work again, and
\* nobody but the merge holds its row.
PublishedOnce ==
  commit # 0 => /\ node["coder"].st \in AfterPublish /\ node["coder"].lease \in {0, Merge}
                /\ child["coder"].st \in {"done", "weak", "failed"}

\* What is reviewed or merged was published, and the review is of the commit there is.
ReviewOfCommit ==
  /\ node["coder"].st \in {"review_pending", "reviewed", "merging"} => commit # 0
  /\ node["reviewer"].st # "absent" => commit # 0 /\ review.of = commit
  /\ node["coder"].st = "merging" => node["reviewer"].st = "completed" /\ review.ok

\* No state after a merge leads back to a reviewed one.
OneMerge == merges # 0 => merges = 1 /\ commit # 0 /\ node["coder"].st \in AfterMerge

CollabInv == CollabTyped /\ PublishedOnce /\ ReviewOfCommit /\ OneMerge

\* No claim, a claim and the merge are numbers of leases.
LEMMA ClaimNumbers == /\ MaxClaims \in Nat /\ 0 \in 0..MaxClaims /\ {0, Merge} \subseteq 0..Merge
                      /\ \A t \in Claims : t \in Nat \ {0} /\ t \in 0..MaxClaims /\ t \in 0..Merge
BY CollabAssumption DEF Claims, Merge

\* Nobody has submitted the node yet.
LEMMA CollabInitial == CollabInit => CollabInv
<1> SUFFICES ASSUME CollabInit PROVE CollabInv
  OBVIOUS
<1>1. node \in [Nodes -> NodeRows] /\ child \in [Nodes -> ChildRows]
  BY ClaimNumbers DEF CollabInit, NodeRows, ChildRows, NodeStates, Resting
<1>2. commit = 0 /\ merges = 0 /\ review = [of |-> 0, ok |-> FALSE]
  BY DEF CollabInit
<1>3. \A n \in Nodes : node[n].st = "absent"
  BY DEF CollabInit
<1>4. CollabTyped
  BY <1>1, <1>2, ClaimNumbers DEF CollabTyped
<1> QED
  BY <1>2, <1>3, <1>4 DEF CollabInv, PublishedOnce, ReviewOfCommit, OneMerge, Nodes

\* The rows after the helpers that write them.
LEMMA PutRow ==
  ASSUME node \in [Nodes -> NodeRows], NEW n \in Nodes, NEW st \in NodeStates
  PROVE  /\ Put(n, st) \in [Nodes -> NodeRows] /\ Put(n, st)[n].st = st /\ Put(n, st)[n].lease = node[n].lease
         /\ \A m \in Nodes \ {n} : Put(n, st)[m] = node[m]
<1>1. [node[n] EXCEPT !.st = st] \in NodeRows
  BY DEF NodeRows
<1> QED
  BY <1>1 DEF Put, NodeRows

\* A node that is ended loses its lease; the other row stays.
LEMMA EndsRow ==
  ASSUME node \in [Nodes -> NodeRows], NEW n \in Nodes, NEW st \in NodeStates
  PROVE  /\ Ends(n, st) \in [Nodes -> NodeRows] /\ Ends(n, st)[n].st = st /\ Ends(n, st)[n].lease = 0
         /\ \A m \in Nodes \ {n} : Ends(n, st)[m] = node[m]
<1>1. PICK a : a = [node EXCEPT ![n].st = st]
  OBVIOUS
<1>2. PICK b : b = [a EXCEPT ![n].lease = 0]
  OBVIOUS
<1>3. Ends(n, st) = [b EXCEPT ![n].live = FALSE]
  BY <1>1, <1>2 DEF Ends
<1>4. a \in [Nodes -> NodeRows] /\ a[n].st = st /\ \A m \in Nodes \ {n} : a[m] = node[m]
  <2>1. [node[n] EXCEPT !.st = st] \in NodeRows
    BY DEF NodeRows
  <2> QED
    BY <1>1, <2>1 DEF NodeRows
<1>5. b \in [Nodes -> NodeRows] /\ b[n].st = st /\ b[n].lease = 0 /\ \A m \in Nodes \ {n} : b[m] = a[m]
  <2>1. [a[n] EXCEPT !.lease = 0] \in NodeRows
    BY <1>4, ClaimNumbers DEF NodeRows
  <2> QED
    BY <1>2, <1>4, <2>1 DEF NodeRows
<1>6. PICK c : c = Ends(n, st)
  OBVIOUS
<1>7. c \in [Nodes -> NodeRows] /\ c[n].st = st /\ c[n].lease = 0 /\ \A m \in Nodes \ {n} : c[m] = b[m]
  <2>1. [b[n] EXCEPT !.live = FALSE] \in NodeRows
    BY <1>5 DEF NodeRows
  <2> QED
    BY <1>3, <1>5, <1>6, <2>1 DEF NodeRows
<1> QED
  BY <1>4, <1>5, <1>6, <1>7

\* A reviewer's end touches the coder's status only, and only one that waits for its review.
LEMMA RejectsRow ==
  ASSUME NEW recs \in [Nodes -> NodeRows]
  PROVE  /\ Rejects(recs) \in [Nodes -> NodeRows] /\ Rejects(recs)["reviewer"] = recs["reviewer"]
         /\ Rejects(recs)["coder"].lease = recs["coder"].lease
         /\ \/ Rejects(recs)["coder"].st = recs["coder"].st
            \/ recs["coder"].st = "review_pending" /\ Rejects(recs)["coder"].st = "rejected"
<1>1. PICK st \in NodeStates :
        /\ Rejects(recs) = [recs EXCEPT !["coder"].st = st]
        /\ st = recs["coder"].st \/ (recs["coder"].st = "review_pending" /\ st = "rejected")
  <2>1. PICK st : st = IF recs["coder"].st = "review_pending" /\ recs["reviewer"].st \in Stopped
                       THEN "rejected" ELSE recs["coder"].st
    OBVIOUS
  <2>2. st \in NodeStates /\ Rejects(recs) = [recs EXCEPT !["coder"].st = st]
    BY <2>1 DEF Rejects, NodeRows, NodeStates, Resting, Nodes
  <2> QED
    BY <2>1, <2>2
<1>2. [recs["coder"] EXCEPT !.st = st] \in NodeRows
  BY DEF NodeRows, Nodes
<1>3. PICK new : new = Rejects(recs)
  OBVIOUS
<1>4. new \in [Nodes -> NodeRows] /\ new["reviewer"] = recs["reviewer"]
  BY <1>1, <1>2, <1>3 DEF Nodes
<1>5. new["coder"].lease = recs["coder"].lease /\ new["coder"].st = st
  BY <1>1, <1>3 DEF Nodes, NodeRows
<1> QED
  BY <1>1, <1>3, <1>4, <1>5

\* The coder waits for its review or for the merge, whatever the reviewer does.
LEMMA CoderRests ==
  ASSUME CollabInv, CollabTyped', UNCHANGED <<commit, merges>>,
         node'["coder"].lease = node["coder"].lease, child'["coder"].st = child["coder"].st,
         \/ node'["coder"].st = node["coder"].st
         \/ node["coder"].st = "review_pending" /\ node'["coder"].st \in {"rejected", "reviewed", "needs_input"},
         node'["reviewer"].st # "absent" => commit # 0 /\ review'.of = commit,
         node["coder"].st = "merging" => node'["reviewer"].st = "completed" /\ review'.ok
  PROVE  CollabInv'
<1>1. PublishedOnce'
  BY DEF CollabInv, PublishedOnce, AfterPublish
<1>2. ReviewOfCommit'
  BY DEF CollabInv, ReviewOfCommit
<1>3. OneMerge'
  BY DEF CollabInv, OneMerge, AfterMerge
<1> QED
  BY <1>1, <1>2, <1>3 DEF CollabInv

\* The coder works: nothing is published, reviewed or merged.
LEMMA CoderWorks ==
  ASSUME CollabInv, CollabTyped', commit = 0, UNCHANGED <<commit, merges>>,
         node'["coder"].st \notin {"review_pending", "reviewed", "merging"},
         node["reviewer"].st = "absent" => node'["reviewer"].st = "absent"
  PROVE  CollabInv'
BY DEF CollabInv, PublishedOnce, ReviewOfCommit, OneMerge

\* The coder's row ends without a way back.
LEMMA CoderEnds ==
  ASSUME CollabInv, CollabTyped', UNCHANGED <<commit, merges, review>>,
         node'["coder"].st \in AfterMerge \ {"merging"}, 
         commit # 0 => node'["coder"].lease \in {0, Merge} /\ child'["coder"].st \in {"done", "weak", "failed"},
         node["reviewer"].st = "absent" => node'["reviewer"].st = "absent"
  PROVE  CollabInv'
<1>1. PublishedOnce'
  BY DEF CollabInv, PublishedOnce, AfterPublish
<1>2. ReviewOfCommit'
  BY DEF CollabInv, ReviewOfCommit, AfterMerge
<1>3. OneMerge'
  BY DEF CollabInv, OneMerge
<1> QED
  BY <1>1, <1>2, <1>3 DEF CollabInv

\* Nothing was published as long as the coder is at work.
LEMMA WorksUnpublished ==
  ASSUME CollabInv, \/ node["coder"].st \in {"absent", "queued", "running", "failed", "timed_out"}
                    \/ node["coder"].lease \in Claims
                    \/ child["coder"].st \in {"none", "pending", "running", "tool", "suspended", "unknown"}
  PROVE  commit = 0
BY CollabAssumption DEF CollabInv, PublishedOnce, AfterPublish, AfterMerge, Claims, Merge

\* fail: only the holder of a node's lease is heard, so never a worker that published or
\* one whose node is merging.
LEMMA FailKeeps ==
  ASSUME CollabInv, NEW n \in Nodes, NEW t \in Claims, NEW st \in Stopped \union {"queued"}, Fail(n, t, st),
         UNCHANGED <<commit, merges, review>>
  PROVE  CollabInv'
<1>1. CollabTyped
  BY DEF CollabInv
<1>2. CASE UNCHANGED <<node, child>>
  <2>1. CollabTyped'
    BY <1>1, <1>2 DEF CollabTyped
  <2> QED
    BY <1>2, <2>1, CoderRests DEF CollabInv, ReviewOfCommit
<1>3. CASE node[n].lease = t /\ node[n].st \in {"running", "cancel_requested"} /\ ~UNCHANGED <<node, child>>
  <2>1. PICK to \in Stopped \union {"queued"} :
          /\ node' = Rejects(Ends(n, to))
          /\ child' = IF to = "queued" THEN Fence(n)
                      ELSE IF to = "needs_resolution" /\ child[n].st = "tool"
                             THEN [child EXCEPT ![n] = [st |-> "unknown", by |-> 0]] ELSE child
    BY <1>3 DEF Fail, Stopped
  <2>2. to \in NodeStates /\ to # "absent" /\ to \notin {"review_pending", "reviewed", "merging"}
    BY DEF Stopped, NodeStates, Resting
  <2>3. PICK recs : recs = Ends(n, to)
    OBVIOUS
  <2>4. /\ recs \in [Nodes -> NodeRows] /\ recs[n].st = to /\ recs[n].lease = 0
        /\ \A m \in Nodes \ {n} : recs[m] = node[m]
    BY <1>1, <2>2, <2>3, EndsRow DEF CollabTyped
  <2>5. /\ node' \in [Nodes -> NodeRows] /\ node'["reviewer"] = recs["reviewer"]
        /\ node'["coder"].lease = recs["coder"].lease
        /\ \/ node'["coder"].st = recs["coder"].st
           \/ recs["coder"].st = "review_pending" /\ node'["coder"].st = "rejected"
    BY <2>1, <2>3, <2>4, RejectsRow
  <2>6. child' \in [Nodes -> ChildRows] /\ \A m \in Nodes \ {n} : child'[m] = child[m]
    BY <1>1, <2>1, ClaimNumbers DEF CollabTyped, Fence, ChildRows
  <2>7. CollabTyped'
    BY <1>1, <2>5, <2>6 DEF CollabTyped
  <2>8. CASE n = "coder"
    <3>1. commit = 0
      BY <1>3, <2>8, WorksUnpublished
    <3>2. node'["coder"].st \notin {"review_pending", "reviewed", "merging"} /\ node'["reviewer"] = node["reviewer"]
      BY <2>2, <2>4, <2>5, <2>8 DEF Nodes
    <3> QED
      BY <2>7, <3>1, <3>2, CoderWorks
  <2>9. CASE n = "reviewer"
    <3>1. node["coder"].st # "merging" /\ commit # 0 /\ review.of = commit
      BY <1>3, <2>9 DEF CollabInv, ReviewOfCommit
    <3>2. /\ recs["coder"] = node["coder"] /\ child'["coder"] = child["coder"]
      BY <2>4, <2>6, <2>9 DEF Nodes
    <3> QED
      BY <2>5, <2>7, <3>1, <3>2, CoderRests
  <2> QED
    BY <2>8, <2>9 DEF Nodes
<1> QED
  BY <1>2, <1>3 DEF Fail

\* The worker of a claim: it starts or goes on with its durable task, or ends.
LEMMA CollabWorker ==
  ASSUME CollabInv, NEW n \in Nodes, NEW t \in Claims, WorkerStarts(n, t) \/ WorkerRuns(n, t) \/ WorkerEnds(n, t)
  PROVE  CollabInv'
<1>1. CollabTyped /\ UNCHANGED <<commit, merges, review>>
  BY DEF CollabInv, WorkerStarts, WorkerRuns, WorkerEnds, OnlyWork
<1>2. CASE WorkerEnds(n, t)
  <2>1. PICK st \in Stopped \union {"queued"} : Fail(n, t, st)
    BY <1>2 DEF WorkerEnds, Stopped
  <2> QED
    BY <1>1, <2>1, FailKeeps
<1>3. ASSUME node[n].st = "running", node[n].lease = t, UNCHANGED node,
             \E row \in ChildRows : child' = child \/ child' = [child EXCEPT ![n] = row]
      PROVE  CollabInv'
  <2>1. child' \in [Nodes -> ChildRows] /\ \A m \in Nodes \ {n} : child'[m] = child[m]
    BY <1>1, <1>3 DEF CollabTyped
  <2>2. CollabTyped'
    BY <1>1, <1>3, <2>1 DEF CollabTyped
  <2>3. CASE n = "coder"
    <3>1. commit = 0
      BY <1>3, <2>3, WorksUnpublished
    <3> QED
      BY <1>1, <1>3, <2>2, <2>3, <3>1, CoderWorks
  <2>4. CASE n = "reviewer"
    <3>1. node["coder"].st # "merging" /\ commit # 0 /\ review.of = commit
      BY <1>3, <2>4 DEF CollabInv, ReviewOfCommit
    <3>2. child'["coder"] = child["coder"]
      BY <2>1, <2>4 DEF Nodes
    <3> QED
      BY <1>1, <1>3, <2>2, <3>1, <3>2, CoderRests
  <2> QED
    BY <2>3, <2>4 DEF Nodes
<1>4. t \in Nat
  BY DEF Claims
<1>5. CASE WorkerStarts(n, t)
  <2>1. node[n].st = "running" /\ node[n].lease = t
    BY <1>5 DEF WorkerStarts, Cancelled, Leased
  <2>2. \/ \E st \in Stopped : Fail(n, t, st)
        \/ UNCHANGED node /\ (child' = child \/ child' = [child EXCEPT ![n] = [st |-> "running", by |-> t]])
    BY <1>5 DEF WorkerStarts, Stopped
  <2>3. [st |-> "running", by |-> t] \in ChildRows
    BY <1>4, ClaimNumbers DEF ChildRows
  <2> QED
    BY <1>1, <1>3, <2>1, <2>2, <2>3, FailKeeps
<1>6. CASE WorkerRuns(n, t)
  <2>1. node[n].st = "running" /\ node[n].lease = t /\ UNCHANGED node
    BY <1>6 DEF WorkerRuns, Cancelled, Leased
  <2>2. PICK to \in {"running", "tool", "suspended", "done", "weak", "failed"} :
          child' = [child EXCEPT ![n] = [st |-> to, by |-> IF to \in {"running", "tool"} THEN t ELSE 0]]
    BY <1>6 DEF WorkerRuns
  <2>3. [st |-> to, by |-> IF to \in {"running", "tool"} THEN t ELSE 0] \in ChildRows
    BY <1>4, ClaimNumbers DEF ChildRows
  <2> QED
    BY <1>3, <2>1, <2>2, <2>3
<1> QED
  BY <1>2, <1>5, <1>6

\* A result is published under a lease that is held: the coder's once, with its durable
\* task at an end, the reviewer's about the commit it was given.
LEMMA CollabPublish ==
  ASSUME CollabInv, NEW n \in Nodes, NEW t \in Claims, WorkerPublishes(n, t) PROVE CollabInv'
<1>1. CollabTyped /\ UNCHANGED <<child, merges>> /\ node[n].st = "running" /\ child[n].st \in {"done", "weak"}
  BY DEF CollabInv, WorkerPublishes, Publishable, Leased
<1>2. t \in Nat /\ t # 0
  BY DEF Claims
<1>3. CASE n = "coder"
  <2>1. PICK st \in {"review_pending", "needs_input"} : node' = Ends("coder", st) /\ commit' = t /\ UNCHANGED review
    BY <1>3 DEF WorkerPublishes
  <2>2. /\ node' \in [Nodes -> NodeRows] /\ node'["coder"].st = st /\ node'["coder"].lease = 0
        /\ node'["reviewer"] = node["reviewer"]
    BY <1>1, <2>1, EndsRow DEF CollabTyped, Nodes, NodeStates, Resting
  <2>3. commit = 0
    BY <1>1, <1>3, WorksUnpublished
  <2>4. node["reviewer"].st = "absent" /\ merges = 0
    BY <2>3 DEF CollabInv, ReviewOfCommit, OneMerge
  <2>5. CollabTyped'
    BY <1>1, <1>2, <2>1, <2>2, ClaimNumbers DEF CollabTyped
  <2>6. PublishedOnce'
    BY <1>1, <1>3, <2>2 DEF PublishedOnce, AfterPublish
  <2>7. ReviewOfCommit'
    BY <1>2, <2>1, <2>2, <2>4 DEF ReviewOfCommit
  <2>8. OneMerge'
    BY <1>1, <2>4 DEF OneMerge
  <2> QED
    BY <2>5, <2>6, <2>7, <2>8 DEF CollabInv
<1>4. CASE n = "reviewer"
  <2>1. PICK ok \in BOOLEAN :
          /\ review' = [review EXCEPT !.ok = ok] /\ UNCHANGED commit
          /\ LET recs == Ends(n, IF ok THEN "completed" ELSE "rejected") IN
             node' = [recs EXCEPT !["coder"].st = IF @ # "review_pending" THEN @ ELSE IF ok THEN "reviewed" ELSE "rejected"]
    BY <1>4 DEF WorkerPublishes
  <2>2. PICK st \in {"completed", "rejected"} : st = IF ok THEN "completed" ELSE "rejected"
    OBVIOUS
  <2>3. PICK recs : recs = Ends(n, st)
    OBVIOUS
  <2>4. /\ recs \in [Nodes -> NodeRows] /\ recs["reviewer"].st = st /\ recs["coder"] = node["coder"]
    BY <1>1, <1>4, <2>3, EndsRow DEF CollabTyped, Nodes, NodeStates, Resting
  <2>5. PICK to \in NodeStates :
          /\ node' = [recs EXCEPT !["coder"].st = to]
          /\ to = node["coder"].st \/ (node["coder"].st = "review_pending" /\ to \in {"reviewed", "rejected"})
    <3>1. PICK to : to = IF recs["coder"].st # "review_pending" THEN recs["coder"].st ELSE IF ok THEN "reviewed" ELSE "rejected"
      OBVIOUS
    <3>2. node' = [recs EXCEPT !["coder"].st = to]
      BY <2>1, <2>2, <2>3, <3>1
    <3>3. to \in NodeStates
      BY <2>4, <3>1 DEF Nodes, NodeRows, NodeStates, Resting
    <3> QED
      BY <2>4, <3>1, <3>2, <3>3
  <2>6. [recs["coder"] EXCEPT !.st = to] \in NodeRows
    BY <2>4 DEF Nodes, NodeRows
  <2>7. node' \in [Nodes -> NodeRows] /\ node'["reviewer"] = recs["reviewer"]
    BY <2>4, <2>5, <2>6 DEF Nodes
  <2>8. node'["coder"].st = to /\ node'["coder"].lease = node["coder"].lease
    BY <2>4, <2>5 DEF Nodes, NodeRows
  <2>9. node["coder"].st # "merging" /\ commit # 0 /\ review.of = commit
    BY <1>1, <1>4 DEF CollabInv, ReviewOfCommit
  <2>10. review' \in [of : Nat, ok : BOOLEAN] /\ review'.of = review.of
    BY <1>1, <2>1 DEF CollabTyped
  <2>11. CollabTyped'
    BY <1>1, <2>1, <2>7, <2>10 DEF CollabTyped
  <2> QED
    BY <1>1, <2>1, <2>5, <2>8, <2>9, <2>10, <2>11, CoderRests
<1> QED
  BY <1>3, <1>4 DEF Nodes

\* Steps that touch no row: the service, the deadline, the files of the workspace.
LEMMA CollabAround ==
  ASSUME CollabInv,
         \/ ServiceDies \/ ServiceResumes \/ Halt \/ MergeFails \/ MergeDies
         \/ \E f \in Files : MergeFile(f) \/ ForeignEdit(f)
  PROVE  CollabInv'
<1>1. UNCHANGED <<node, child, commit, review, merges>>
  BY DEF ServiceDies, ServiceResumes, Halt, MergeFails, MergeDies, MergeFile, ForeignEdit
<1>2. CollabTyped'
  BY <1>1 DEF CollabInv, CollabTyped
<1> QED
  BY <1>1, <1>2, CoderRests DEF CollabInv, ReviewOfCommit

\* A lease runs out: of a node, or of the durable task of a dead worker.
LEMMA CollabExpires == ASSUME CollabInv, NEW n \in Nodes, LeaseExpires(n) \/ ChildExpires(n) PROVE CollabInv'
<1>1. CollabTyped /\ UNCHANGED <<commit, review, merges>>
  BY DEF CollabInv, LeaseExpires, ChildExpires, OnlyNodes
<1>2. CASE LeaseExpires(n)
  <2>1. node' = [node EXCEPT ![n].live = FALSE] /\ UNCHANGED child
    BY <1>2 DEF LeaseExpires
  <2>2. node' \in [Nodes -> NodeRows] /\ \A m \in Nodes : node'[m].st = node[m].st /\ node'[m].lease = node[m].lease
    BY <1>1, <2>1 DEF CollabTyped, NodeRows
  <2>3. CollabTyped'
    BY <1>1, <2>1, <2>2 DEF CollabTyped
  <2> QED
    BY <1>1, <2>1, <2>2, <2>3, CoderRests DEF CollabInv, ReviewOfCommit, Nodes
<1>3. CASE ChildExpires(n)
  <2>1. child[n].st = "running" /\ child' = [child EXCEPT ![n] = [st |-> "pending", by |-> 0]] /\ UNCHANGED node
    BY <1>3 DEF ChildExpires
  <2>2. child' \in [Nodes -> ChildRows] /\ \A m \in Nodes \ {n} : child'[m] = child[m]
    BY <1>1, <2>1, ClaimNumbers DEF CollabTyped, ChildRows
  <2>3. CollabTyped'
    BY <1>1, <2>1, <2>2 DEF CollabTyped
  <2>4. CASE n = "coder"
    <3>1. commit = 0
      BY <2>1, <2>4, WorksUnpublished
    <3> QED
      BY <1>1, <2>1, <2>3, <3>1, CoderWorks DEF CollabInv, ReviewOfCommit
  <2>5. CASE n = "reviewer"
    BY <1>1, <2>1, <2>2, <2>3, <2>5, CoderRests DEF CollabInv, ReviewOfCommit, Nodes
  <2> QED
    BY <2>4, <2>5 DEF Nodes
<1> QED
  BY <1>2, <1>3

\* The coder is submitted; a node is claimed by the service.
LEMMA CollabClaims == ASSUME CollabInv, Submits \/ \E n \in Nodes : ClaimNode(n) PROVE CollabInv'
<1>1. CollabTyped /\ UNCHANGED <<child, commit, review, merges>>
  BY DEF CollabInv, Submits, ClaimNode, OnlyNodes
<1>2. CASE Submits
  <2>1. node' = Put("coder", "queued") /\ node["coder"].st = "absent"
    BY <1>2 DEF Submits
  <2>2. node' \in [Nodes -> NodeRows] /\ node'["coder"].st = "queued" /\ node'["reviewer"] = node["reviewer"]
    BY <1>1, <2>1, PutRow DEF CollabTyped, Nodes, NodeStates
  <2>3. CollabTyped'
    BY <1>1, <2>2 DEF CollabTyped
  <2>4. commit = 0
    BY <2>1, WorksUnpublished
  <2> QED
    BY <1>1, <2>2, <2>3, <2>4, CoderWorks
<1>3. ASSUME NEW n \in Nodes, ClaimNode(n) PROVE CollabInv'
  <2>1. node[n].st = "queued"
    BY <1>3 DEF ClaimNode
  <2>2. /\ node' \in [Nodes -> NodeRows] /\ \A m \in Nodes \ {n} : node'[m] = node[m]
        /\ node'[n].st \in {"failed", "running"}
    <3>1. CASE node' = Put(n, "failed")
      BY <1>1, <3>1, PutRow DEF CollabTyped, NodeStates, Resting
    <3>2. CASE node' = [node EXCEPT ![n] = [st |-> "running", lease |-> node[n].tries + 1, live |-> TRUE,
                                            tries |-> node[n].tries + 1]]
      <4>1. node[n].tries + 1 \in Claims
        BY <1>1, <1>3, ClaimNumbers DEF CollabTyped, NodeRows, ClaimNode, Claims
      <4>2. [st |-> "running", lease |-> node[n].tries + 1, live |-> TRUE, tries |-> node[n].tries + 1] \in NodeRows
        BY <4>1, ClaimNumbers DEF NodeRows, NodeStates
      <4> QED
        BY <1>1, <3>2, <4>2 DEF CollabTyped
    <3> QED
      BY <1>3, <3>1, <3>2 DEF ClaimNode
  <2>3. CollabTyped'
    BY <1>1, <2>2 DEF CollabTyped
  <2>4. CASE n = "coder"
    <3>1. commit = 0
      BY <2>1, <2>4, WorksUnpublished
    <3>2. node'["reviewer"] = node["reviewer"]
      BY <2>2, <2>4 DEF Nodes
    <3> QED
      BY <1>1, <2>2, <2>3, <2>4, <3>1, <3>2, CoderWorks
  <2>5. CASE n = "reviewer"
    <3>1. node["coder"].st # "merging" /\ commit # 0 /\ review.of = commit
      BY <2>1, <2>5 DEF CollabInv, ReviewOfCommit
    <3>2. node'["coder"] = node["coder"]
      BY <2>2, <2>5 DEF Nodes
    <3> QED
      BY <1>1, <2>3, <3>1, <3>2, CoderRests
  <2> QED
    BY <2>4, <2>5 DEF Nodes
<1> QED
  BY <1>2, <1>3

\* The review is made for the commit that was published; it is the only one.
LEMMA CollabReview == ASSUME CollabInv, EnsureReview PROVE CollabInv'
<1>1. CollabTyped /\ UNCHANGED <<child, commit, merges>> /\ node["coder"].st = "review_pending"
      /\ node["reviewer"].st = "absent"
  BY DEF CollabInv, EnsureReview
<1>2. commit # 0
  BY <1>1 DEF CollabInv, ReviewOfCommit
<1>3. CASE node' = Put("reviewer", "queued") /\ review' = [review EXCEPT !.of = commit]
  <2>1. node' \in [Nodes -> NodeRows] /\ node'["coder"] = node["coder"]
    BY <1>1, <1>3, PutRow DEF CollabTyped, Nodes, NodeStates
  <2>2. review' \in [of : Nat, ok : BOOLEAN] /\ review'.of = commit
    BY <1>1, <1>3 DEF CollabTyped
  <2>3. CollabTyped'
    BY <1>1, <2>1, <2>2 DEF CollabTyped
  <2> QED
    BY <1>1, <1>2, <2>1, <2>2, <2>3, CoderRests
<1>4. CASE node' = Put("coder", "needs_input") /\ UNCHANGED review
  <2>1. /\ node' \in [Nodes -> NodeRows] /\ node'["reviewer"] = node["reviewer"] /\ node'["coder"].st = "needs_input"
        /\ node'["coder"].lease = node["coder"].lease
    BY <1>1, <1>4, PutRow DEF CollabTyped, Nodes, NodeStates, Resting
  <2>2. CollabTyped'
    BY <1>1, <1>4, <2>1 DEF CollabTyped
  <2> QED
    BY <1>1, <2>1, <2>2, CoderRests
<1> QED
  BY <1>3, <1>4 DEF EnsureReview

\* recover: a dead worker's node is queued or stopped, a dead merge goes to the human; a
\* coder that has published is never queued again.
LEMMA CollabRecovers == ASSUME CollabInv, RecoverNodes PROVE CollabInv'
<1>1. CollabTyped /\ UNCHANGED <<commit, merges, review>>
  BY DEF CollabInv, RecoverNodes, OnlyNodes
<1>2. PICK recs : recs = [n \in Nodes |-> [node[n] EXCEPT !.st = Recovered(n)]]
  OBVIOUS
<1>3. /\ node' = Rejects(recs)
      /\ child' = [n \in Nodes |-> IF recs[n].st = "queued" /\ node[n].st = "running" THEN Fence(n)[n] ELSE child[n]]
  BY <1>2 DEF RecoverNodes
<1>4. \A n \in Nodes : Recovered(n) \in NodeStates
  BY <1>1 DEF Recovered, CollabTyped, NodeRows, NodeStates, Resting
<1>5. recs \in [Nodes -> NodeRows] /\ \A n \in Nodes : recs[n].st = Recovered(n) /\ recs[n].lease = node[n].lease
  <2>1. \A n \in Nodes : [node[n] EXCEPT !.st = Recovered(n)] \in NodeRows
    BY <1>1, <1>4 DEF CollabTyped, NodeRows
  <2> QED
    BY <1>1, <1>2, <2>1 DEF CollabTyped, NodeRows
<1>6. /\ node' \in [Nodes -> NodeRows] /\ node'["reviewer"] = recs["reviewer"]
      /\ node'["coder"].lease = node["coder"].lease
      /\ \/ node'["coder"].st = Recovered("coder")
         \/ Recovered("coder") = "review_pending" /\ node'["coder"].st = "rejected"
  BY <1>3, <1>5, RejectsRow DEF Nodes
<1>7. child' \in [Nodes -> ChildRows] /\ \A n \in Nodes : node[n].st # "running" => child'[n] = child[n]
  <2>1. \A n \in Nodes : Fence(n)[n] \in ChildRows
    BY <1>1, ClaimNumbers DEF Fence, CollabTyped, ChildRows
  <2> QED
    BY <1>1, <1>3, <2>1 DEF CollabTyped
<1>8. CollabTyped'
  BY <1>1, <1>6, <1>7 DEF CollabTyped
<1>9. node["reviewer"].st = "absent" => node'["reviewer"].st = "absent"
  BY <1>5, <1>6 DEF Recovered, Nodes
<1>10. CASE commit = 0
  <2>1. node["coder"].st \notin {"review_pending", "reviewed", "merging"}
    BY <1>10 DEF CollabInv, ReviewOfCommit
  <2>2. Recovered("coder") \notin {"review_pending", "reviewed", "merging"}
    BY <2>1 DEF Recovered
  <2> QED
    BY <1>1, <1>6, <1>8, <1>9, <1>10, <2>2, CoderWorks
<1>11. CASE commit # 0
  <2>1. /\ node["coder"].st \in AfterPublish /\ node["coder"].lease \in {0, Merge}
        /\ child["coder"].st \in {"done", "weak", "failed"} /\ child'["coder"] = child["coder"]
    BY <1>7, <1>11 DEF CollabInv, PublishedOnce, AfterPublish, AfterMerge, Nodes
  <2>2. Recovered("coder") = node["coder"].st \/ Recovered("coder") \in {"needs_resolution", "cancel_requested", "cancelled"}
    BY <2>1 DEF Recovered, AfterPublish, AfterMerge
  <2>3. CASE node'["coder"].st \in {"needs_resolution", "cancel_requested", "cancelled"}
    BY <1>1, <1>6, <1>8, <1>9, <2>1, <2>3, CoderEnds DEF AfterMerge
  <2>4. CASE node'["coder"].st = node["coder"].st \/ (node["coder"].st = "review_pending" /\ node'["coder"].st = "rejected")
    <3>1. node["coder"].st = "merging" => node'["reviewer"].st = "completed" /\ review.ok
      BY <1>5, <1>6 DEF CollabInv, ReviewOfCommit, Recovered, Nodes
    <3>2. node'["reviewer"].st # "absent" => review.of = commit
      BY <1>9 DEF CollabInv, ReviewOfCommit
    <3> QED
      BY <1>1, <1>6, <1>8, <1>11, <2>1, <2>4, <3>1, <3>2, CoderRests
  <2> QED
    BY <1>6, <2>2, <2>3, <2>4
<1> QED
  BY <1>10, <1>11

\* cancel: neither node is running or reviewed again.
LEMMA CollabCancels == ASSUME CollabInv, CancelCollab PROVE CollabInv'
<1>1. CollabTyped /\ UNCHANGED <<child, commit, merges, review>>
  BY DEF CollabInv, CancelCollab, OnlyNodes
<1>2. /\ node' \in [Nodes -> NodeRows]
      /\ \A n \in Nodes : /\ node'[n].lease = node[n].lease
                          /\ node[n].st \in {"merged", "absent"} => node'[n] = node[n]
                          /\ node[n].st \notin {"merged", "absent"} => node'[n].st \in {"cancel_requested", "cancelled"}
  <2>1. PICK to : to = [n \in Nodes |-> IF node[n].live THEN "cancel_requested" ELSE "cancelled"]
    OBVIOUS
  <2>2. \A n \in Nodes : [node[n] EXCEPT !.st = to[n]] \in NodeRows
    BY <1>1, <2>1 DEF CollabTyped, NodeRows, NodeStates, Resting
  <2>3. node' = [n \in Nodes |-> IF node[n].st \in {"merged", "absent"} THEN node[n] ELSE [node[n] EXCEPT !.st = to[n]]]
    BY <2>1 DEF CancelCollab
  <2>4. node' \in [Nodes -> NodeRows]
    BY <1>1, <2>2, <2>3 DEF CollabTyped
  <2>5. \A n \in Nodes : /\ node'[n].lease = node[n].lease
                         /\ node[n].st \in {"merged", "absent"} => node'[n] = node[n]
                         /\ node[n].st \notin {"merged", "absent"} => node'[n].st = to[n]
    BY <1>1, <2>3 DEF CollabTyped, NodeRows
  <2> QED
    BY <2>1, <2>4, <2>5
<1>3. CollabTyped'
  BY <1>1, <1>2 DEF CollabTyped
<1>4. CASE node["coder"].st \in {"merged", "absent"}
  <2>1. node'["coder"] = node["coder"] /\ (node'["reviewer"].st # "absent" => node["reviewer"].st # "absent")
    BY <1>2, <1>4 DEF Nodes
  <2> QED
    BY <1>1, <1>3, <1>4, <2>1, CoderRests DEF CollabInv, ReviewOfCommit
<1>5. CASE node["coder"].st \notin {"merged", "absent"}
  <2>1. node'["coder"].st \in {"cancel_requested", "cancelled"} /\ node'["coder"].lease = node["coder"].lease
        /\ (node["reviewer"].st = "absent" => node'["reviewer"].st = "absent")
    BY <1>2, <1>5 DEF Nodes
  <2> QED
    BY <1>1, <1>3, <2>1, CoderEnds DEF CollabInv, PublishedOnce, AfterMerge
<1> QED
  BY <1>4, <1>5

\* A human answers a task that waits, which a published coder's never does; or gives up.
LEMMA CollabHuman == ASSUME CollabInv, NEW n \in Nodes, HumanAnswers(n) \/ HumanAbandons(n) PROVE CollabInv'
<1>1. CollabTyped /\ UNCHANGED <<commit, merges, review>>
  BY DEF CollabInv, HumanAnswers, HumanAbandons, OnlyNodes
<1>2. PICK st \in {"queued", "conflict"}, was \in {"pending", "failed"} :
        /\ node' = Ends(n, st) /\ child' = [child EXCEPT ![n] = [st |-> was, by |-> 0]]
        /\ node[n].st \in {"needs_input", "needs_resolution"}
        /\ st = "queued" => child[n].st \in {"suspended", "tool", "unknown"}
        /\ st = "conflict" => was = "failed"
  BY DEF HumanAnswers, HumanAbandons
<1>3. /\ node' \in [Nodes -> NodeRows] /\ node'[n].st = st /\ node'[n].lease = 0
      /\ \A m \in Nodes \ {n} : node'[m] = node[m]
  BY <1>1, <1>2, EndsRow DEF CollabTyped, NodeStates, Resting
<1>4. child' \in [Nodes -> ChildRows] /\ child'[n].st = was /\ \A m \in Nodes \ {n} : child'[m] = child[m]
  BY <1>1, <1>2, ClaimNumbers DEF CollabTyped, ChildRows
<1>5. CollabTyped'
  BY <1>1, <1>3, <1>4 DEF CollabTyped
<1>6. CASE n = "reviewer"
  <2>1. node["coder"].st # "merging" /\ commit # 0 /\ review.of = commit
    BY <1>2, <1>6 DEF CollabInv, ReviewOfCommit
  <2>2. node'["coder"] = node["coder"] /\ child'["coder"] = child["coder"]
    BY <1>3, <1>4, <1>6 DEF Nodes
  <2> QED
    BY <1>1, <1>5, <2>1, <2>2, CoderRests
<1>7. CASE n = "coder" /\ st = "queued"
  <2>1. commit = 0 /\ node'["reviewer"] = node["reviewer"]
    BY <1>2, <1>3, <1>7, WorksUnpublished DEF Nodes
  <2> QED
    BY <1>1, <1>3, <1>5, <1>7, <2>1, CoderWorks
<1>8. CASE n = "coder" /\ st = "conflict"
  <2>1. node'["reviewer"] = node["reviewer"]
    BY <1>3, <1>8 DEF Nodes
  <2> QED
    BY <1>1, <1>2, <1>3, <1>4, <1>5, <1>8, <2>1, CoderEnds DEF AfterMerge
<1> QED
  BY <1>2, <1>6, <1>7, <1>8 DEF Nodes

\* A merge is claimed for a reviewed coder, which no merge was claimed for before.
LEMMA CollabMergeStarts == ASSUME CollabInv, MergeStarts PROVE CollabInv'
<1>1. /\ CollabTyped /\ UNCHANGED <<child, commit, review>>
      /\ node["coder"].st = "reviewed" /\ node["reviewer"].st = "completed" /\ review.ok
  BY DEF CollabInv, MergeStarts
<1>2. /\ commit # 0 /\ merges = 0 /\ review.of = commit /\ node["coder"].lease \in {0, Merge}
      /\ child["coder"].st \in {"done", "weak", "failed"}
  BY <1>1 DEF CollabInv, ReviewOfCommit, OneMerge, PublishedOnce, AfterMerge
<1>3. CASE node' = Put("coder", "conflict") /\ UNCHANGED merges
  <2>1. /\ node' \in [Nodes -> NodeRows] /\ node'["coder"].st = "conflict" /\ node'["coder"].lease = node["coder"].lease
        /\ node'["reviewer"] = node["reviewer"]
    BY <1>1, <1>3, PutRow DEF CollabTyped, Nodes, NodeStates, Resting
  <2>2. CollabTyped'
    BY <1>1, <1>3, <2>1 DEF CollabTyped
  <2> QED
    BY <1>1, <1>2, <1>3, <2>1, <2>2, CoderEnds DEF AfterMerge
<1>4. CASE /\ node' = [node EXCEPT !["coder"].st = "merging", !["coder"].lease = Merge, !["coder"].live = TRUE]
           /\ merges' = merges + 1
  <2>1. PICK a : a = [node EXCEPT !["coder"].st = "merging"]
    OBVIOUS
  <2>2. PICK b : b = [a EXCEPT !["coder"].lease = Merge]
    OBVIOUS
  <2>3. node' = [b EXCEPT !["coder"].live = TRUE]
    BY <1>4, <2>1, <2>2
  <2>4. a \in [Nodes -> NodeRows] /\ a["coder"].st = "merging" /\ a["reviewer"] = node["reviewer"]
    <3>1. [node["coder"] EXCEPT !.st = "merging"] \in NodeRows
      BY <1>1 DEF CollabTyped, NodeRows, Nodes, NodeStates
    <3> QED
      BY <1>1, <2>1, <3>1 DEF CollabTyped, NodeRows, Nodes
  <2>5. Merge \in Nat
    BY CollabAssumption DEF Merge
  <2>6. b \in [Nodes -> NodeRows] /\ b["coder"].st = "merging" /\ b["coder"].lease = Merge /\ b["reviewer"] = a["reviewer"]
    <3>1. [a["coder"] EXCEPT !.lease = Merge] \in NodeRows
      BY <2>4, <2>5 DEF NodeRows, Nodes
    <3> QED
      BY <2>2, <2>4, <3>1 DEF NodeRows, Nodes
  <2>7. PICK c : c = node'
    OBVIOUS
  <2>8. c \in [Nodes -> NodeRows] /\ c["coder"].st = "merging" /\ c["coder"].lease = Merge /\ c["reviewer"] = b["reviewer"]
    <3>1. [b["coder"] EXCEPT !.live = TRUE] \in NodeRows
      BY <2>6 DEF NodeRows, Nodes
    <3> QED
      BY <2>3, <2>6, <2>7, <3>1 DEF NodeRows, Nodes
  <2>9. /\ node' \in [Nodes -> NodeRows] /\ node'["coder"].st = "merging" /\ node'["coder"].lease = Merge
        /\ node'["reviewer"] = node["reviewer"]
    BY <2>4, <2>6, <2>7, <2>8
  <2>10. CollabTyped'
    BY <1>1, <1>2, <1>4, <2>9 DEF CollabTyped
  <2>11. PublishedOnce' /\ OneMerge'
    BY <1>1, <1>2, <1>4, <2>9 DEF PublishedOnce, OneMerge, AfterPublish, AfterMerge
  <2>12. ReviewOfCommit'
    BY <1>1, <1>2, <2>9 DEF ReviewOfCommit
  <2> QED
    BY <2>10, <2>11, <2>12 DEF CollabInv
<1> QED
  BY <1>3, <1>4 DEF MergeStarts

\* The merge ends: the row is settled by who holds it, or left to the human.
LEMMA CollabMergeEnds == ASSUME CollabInv, MergeCommits \/ MergeUndoes PROVE CollabInv'
<1>1. CollabTyped /\ UNCHANGED <<child, commit, merges, review>>
  BY DEF CollabInv, MergeCommits, MergeUndoes
<1>2. CASE UNCHANGED node
  <2>1. CollabTyped'
    BY <1>1, <1>2 DEF CollabTyped
  <2> QED
    BY <1>1, <1>2, <2>1, CoderRests DEF CollabInv, ReviewOfCommit
<1>3. CASE node' = Ends("coder", "merged") \/ node' = Put("coder", "needs_resolution")
  <2>1. /\ node' \in [Nodes -> NodeRows] /\ node'["coder"].st \in {"merged", "needs_resolution"}
        /\ node'["coder"].lease \in {0, node["coder"].lease} /\ node'["reviewer"] = node["reviewer"]
    BY <1>1, <1>3, PutRow, EndsRow DEF CollabTyped, Nodes, NodeStates, Resting
  <2>2. CollabTyped'
    BY <1>1, <2>1 DEF CollabTyped
  <2> QED
    BY <1>1, <2>1, <2>2, CoderEnds DEF CollabInv, PublishedOnce, AfterMerge
<1> QED
  BY <1>2, <1>3 DEF MergeCommits, MergeUndoes

\* Every step of the service, its subprocesses and the merge keeps the invariant.
LEMMA CollabStep == CollabInv /\ [CollabNext]_collabVars => CollabInv'
<1> SUFFICES ASSUME CollabInv, [CollabNext]_collabVars PROVE CollabInv'
  OBVIOUS
<1>1. CASE UNCHANGED collabVars
  BY <1>1 DEF collabVars, CollabInv, CollabTyped, PublishedOnce, ReviewOfCommit, OneMerge
<1>2. CASE CollabNext
  BY <1>2, CollabAround, CollabExpires, CollabClaims, CollabReview, CollabRecovers, CollabCancels, CollabHuman,
     CollabMergeStarts, CollabMergeEnds, CollabWorker, CollabPublish DEF CollabNext, Tick, Worker
<1> QED
  BY <1>1, <1>2

\* No other step leaves a node merged.
Unmerged == node'["coder"].st = "merged" => node["coder"].st = "merged"

\* The processes of the claims, the merge and the parent's files.
AroundTyped ==
  /\ proc \in [Nodes -> [Claims -> {"none", "start", "work", "publish"}]]
  /\ merger \in [st : {"none", "apply", "undo"}, wrote : SUBSET Files] /\ tree \in [Files -> {"old", "new", "other"}]
  /\ halted \in BOOLEAN /\ service \in {"first", "down", "again"} /\ answers \in 0..MaxAnswers

LEMMA AroundInitial == CollabInit => AroundTyped
<1> SUFFICES ASSUME CollabInit PROVE AroundTyped
  OBVIOUS
<1>1. halted \in BOOLEAN
  BY Zenon DEF CollabInit
<1> QED
  BY <1>1, CollabAssumption DEF CollabInit, AroundTyped, NoMerge

\* What the services, the workers and the merge make of it.
LEMMA AroundStep == AroundTyped /\ [CollabNext]_collabVars => AroundTyped'
<1> SUFFICES ASSUME AroundTyped, [CollabNext]_collabVars PROVE AroundTyped'
  OBVIOUS
<1>1. ASSUME UNCHANGED <<proc, merger, tree, halted, service, answers>> PROVE AroundTyped'
  BY <1>1 DEF AroundTyped
<1>2. ASSUME NEW n \in Nodes, NEW t \in Claims, NEW st \in {"none", "start", "work", "publish"},
             proc' = [proc EXCEPT ![n][t] = st], UNCHANGED <<merger, tree, halted, service, answers>>
      PROVE  AroundTyped'
  BY <1>2 DEF AroundTyped
<1>3. ASSUME NEW n \in Nodes, NEW t \in Claims, Worker(n, t) PROVE AroundTyped'
  <2>1. UNCHANGED <<merger, tree, halted, service, answers>>
    BY <1>3 DEF Worker, WorkerStarts, WorkerRuns, WorkerPublishes, WorkerEnds, OnlyWork
  <2>2. \E st \in {"none", "work", "publish"} : proc' = [proc EXCEPT ![n][t] = st]
    BY <1>3 DEF Worker, WorkerStarts, WorkerRuns, WorkerPublishes, WorkerEnds, Exit
  <2> QED
    BY <1>2, <2>1, <2>2
<1>4. ASSUME NEW n \in Nodes, ClaimNode(n) PROVE AroundTyped'
  <2>1. UNCHANGED <<merger, tree, halted, service, answers>>
    BY <1>4 DEF ClaimNode
  <2>2. CASE UNCHANGED proc
    BY <1>1, <2>1, <2>2
  <2>3. CASE proc' = [proc EXCEPT ![n][node[n].tries + 1] = "start"]
    BY <2>1, <2>3 DEF AroundTyped
  <2> QED
    BY <1>4, <2>2, <2>3 DEF ClaimNode
<1>5. CASE Submits \/ RecoverNodes \/ EnsureReview \/ CancelCollab \/ UNCHANGED collabVars
  BY <1>1, <1>5 DEF Submits, RecoverNodes, EnsureReview, CancelCollab, OnlyNodes, collabVars
<1>6. CASE ServiceDies \/ ServiceResumes \/ Halt
  <2>1. CASE ServiceDies \/ ServiceResumes
    BY <2>1 DEF ServiceDies, ServiceResumes, AroundTyped
  <2>2. CASE Halt
    <3>1. halted' \in BOOLEAN
      BY <2>2, Zenon DEF Halt
    <3> QED
      BY <2>2, <3>1 DEF Halt, AroundTyped
  <2> QED
    BY <1>6, <2>1, <2>2
<1>7. ASSUME NEW n \in Nodes, LeaseExpires(n) \/ ChildExpires(n) \/ HumanAbandons(n) PROVE AroundTyped'
  BY <1>1, <1>7 DEF LeaseExpires, ChildExpires, HumanAbandons, OnlyNodes
<1>8. ASSUME NEW n \in Nodes, HumanAnswers(n) PROVE AroundTyped'
  BY <1>8, CollabAssumption DEF HumanAnswers, AroundTyped
<1>9. CASE MergeStarts \/ MergeCommits \/ MergeFails \/ MergeUndoes \/ MergeDies
  BY <1>9 DEF MergeStarts, MergeCommits, MergeFails, MergeUndoes, MergeDies, AroundTyped, NoMerge
<1>10. ASSUME NEW f \in Files, MergeFile(f) \/ ForeignEdit(f) PROVE AroundTyped'
  BY <1>10 DEF MergeFile, ForeignEdit, AroundTyped
<1> QED
  BY <1>3, <1>4, <1>5, <1>6, <1>7, <1>8, <1>9, <1>10 DEF CollabNext, Tick

\* A row that is set or ended with another status does not become merged.
LEMMA RowsUnmerged ==
  ASSUME CollabTyped, NEW n \in Nodes, NEW st \in NodeStates, st # "merged",
         node' = Put(n, st) \/ node' = Ends(n, st) \/ node' = Rejects(Ends(n, st))
  PROVE  Unmerged
<1>1. PICK recs : recs = Put(n, st) \/ recs = Ends(n, st)
  OBVIOUS
<1>2. CASE node' = Put(n, st)
  BY <1>2, PutRow DEF CollabTyped, Nodes, Unmerged
<1>3. CASE node' = Ends(n, st)
  BY <1>3, EndsRow DEF CollabTyped, Nodes, Unmerged
<1>4. CASE node' = Rejects(Ends(n, st))
  <2>1. PICK ends : ends = Ends(n, st)
    OBVIOUS
  <2>2. ends \in [Nodes -> NodeRows] /\ ends[n].st = st /\ \A m \in Nodes \ {n} : ends[m] = node[m]
    BY <2>1, EndsRow DEF CollabTyped
  <2>3. node'["coder"].st = ends["coder"].st \/ node'["coder"].st = "rejected"
    BY <1>4, <2>1, <2>2, RejectsRow
  <2> QED
    BY <2>2, <2>3 DEF Nodes, Unmerged
<1> QED
  BY <1>2, <1>3, <1>4

\* No step of a node's subprocess sets a node to merged.
LEMMA WorkerUnmerged == ASSUME CollabTyped, NEW n \in Nodes, NEW t \in Claims, Worker(n, t) PROVE Unmerged
<1>1. ASSUME NEW st \in Stopped \union {"queued"}, Fail(n, t, st) PROVE Unmerged
  <2>1. UNCHANGED node \/ \E to \in Stopped \union {"queued"} : node' = Rejects(Ends(n, to))
    BY <1>1 DEF Fail, Stopped
  <2>2. \A to \in Stopped \union {"queued"} : to \in NodeStates /\ to # "merged"
    BY DEF Stopped, NodeStates, Resting
  <2> QED
    BY <2>1, <2>2, RowsUnmerged DEF Unmerged
<1>2. CASE WorkerStarts(n, t)
  <2>1. UNCHANGED node \/ \E st \in Stopped : Fail(n, t, st)
    BY <1>2 DEF WorkerStarts, Stopped
  <2> QED
    BY <1>1, <2>1 DEF Unmerged
<1>3. CASE WorkerRuns(n, t)
  BY <1>3 DEF WorkerRuns, Unmerged
<1>4. CASE WorkerPublishes(n, t)
  <2>1. CASE n = "coder"
    <3>1. \E st \in {"review_pending", "needs_input"} : node' = Ends("coder", st)
      BY <1>4, <2>1 DEF WorkerPublishes
    <3> QED
      BY <3>1, RowsUnmerged DEF NodeStates, Resting, Nodes
  <2>2. CASE n = "reviewer"
    <3>0. PICK st \in {"completed", "rejected"} : \E to :
            /\ node' = [Ends("reviewer", st) EXCEPT !["coder"].st = to]
            /\ to = Ends("reviewer", st)["coder"].st \/ to \in {"reviewed", "rejected"}
      <4>1. PICK ok \in BOOLEAN :
              LET recs == Ends("reviewer", IF ok THEN "completed" ELSE "rejected") IN
              node' = [recs EXCEPT !["coder"].st = IF recs["coder"].st # "review_pending" THEN recs["coder"].st
                                                   ELSE IF ok THEN "reviewed" ELSE "rejected"]
        BY <1>4, <2>2 DEF WorkerPublishes
      <4>2. PICK st \in {"completed", "rejected"} : st = IF ok THEN "completed" ELSE "rejected"
        OBVIOUS
      <4>3. PICK recs : recs = Ends("reviewer", st)
        OBVIOUS
      <4>4. PICK to : to = IF recs["coder"].st # "review_pending" THEN recs["coder"].st
                           ELSE IF ok THEN "reviewed" ELSE "rejected"
        OBVIOUS
      <4> QED
        BY <4>1, <4>2, <4>3, <4>4
    <3>1. PICK to :
            /\ node' = [Ends("reviewer", st) EXCEPT !["coder"].st = to]
            /\ to = Ends("reviewer", st)["coder"].st \/ to \in {"reviewed", "rejected"}
      BY <3>0
    <3>2. PICK recs : recs = Ends("reviewer", st)
      OBVIOUS
    <3>3. recs \in [Nodes -> NodeRows] /\ recs["coder"] = node["coder"]
      BY <3>2, EndsRow DEF CollabTyped, Nodes, NodeStates, Resting
    <3>4. node'["coder"].st = to /\ (to = recs["coder"].st \/ to \in {"reviewed", "rejected"})
      BY <3>1, <3>2, <3>3 DEF Nodes, NodeRows
    <3> QED
      BY <3>3, <3>4 DEF Unmerged
  <2> QED
    BY <2>1, <2>2 DEF Nodes
<1>5. CASE WorkerEnds(n, t)
  <2>1. \E st \in Stopped \union {"queued"} : Fail(n, t, st)
    BY <1>5 DEF WorkerEnds, Stopped
  <2> QED
    BY <1>1, <2>1
<1> QED
  BY <1>2, <1>3, <1>4, <1>5 DEF Worker

\* Of the service's own steps, only the commit of the merge sets a node to merged.
LEMMA ServiceUnmerged ==
  ASSUME CollabTyped, Submits \/ Tick \/ CancelCollab \/ MergeStarts \/ MergeUndoes PROVE Unmerged
<1>1. CASE Submits \/ EnsureReview \/ MergeUndoes
  <2>1. \/ UNCHANGED node
        \/ \E n \in Nodes, st \in {"queued", "needs_input", "needs_resolution"} : node' = Put(n, st)
    BY <1>1 DEF Submits, EnsureReview, MergeUndoes, Nodes
  <2> QED
    BY <2>1, RowsUnmerged DEF NodeStates, Resting, Unmerged
<1>2. CASE RecoverNodes
  <2>1. PICK recs : recs = [n \in Nodes |-> [node[n] EXCEPT !.st = Recovered(n)]]
    OBVIOUS
  <2>2. Recovered("coder") = "merged" => node["coder"].st = "merged"
    BY DEF Recovered
  <2>3. \A n \in Nodes : Recovered(n) \in NodeStates
    BY DEF Recovered, CollabTyped, NodeRows, NodeStates, Resting
  <2>4. recs \in [Nodes -> NodeRows] /\ recs["coder"].st = Recovered("coder")
    <3>1. \A n \in Nodes : [node[n] EXCEPT !.st = Recovered(n)] \in NodeRows
      BY <2>3 DEF CollabTyped, NodeRows
    <3> QED
      BY <2>1, <3>1 DEF CollabTyped, NodeRows, Nodes
  <2>5. node' = Rejects(recs)
    BY <1>2, <2>1 DEF RecoverNodes
  <2> QED
    BY <2>2, <2>4, <2>5, RejectsRow DEF Unmerged
<1>3. ASSUME NEW n \in Nodes, ClaimNode(n) PROVE Unmerged
  <2>1. \/ node' = Put(n, "failed")
        \/ \E row : row.st = "running" /\ node' = [node EXCEPT ![n] = row]
    BY <1>3 DEF ClaimNode
  <2> QED
    BY <2>1, RowsUnmerged DEF NodeStates, Resting, Unmerged, CollabTyped, Nodes
<1>4. CASE CancelCollab
  <2>1. PICK to : to = [n \in Nodes |-> IF node[n].live THEN "cancel_requested" ELSE "cancelled"]
    OBVIOUS
  <2>2. node' = [n \in Nodes |-> IF node[n].st \in {"merged", "absent"} THEN node[n] ELSE [node[n] EXCEPT !.st = to[n]]]
    BY <1>4, <2>1 DEF CancelCollab
  <2>3. to["coder"] # "merged"
    BY <2>1 DEF Nodes
  <2> QED
    BY <2>2, <2>3 DEF Unmerged, CollabTyped, NodeRows, Nodes
<1>5. CASE MergeStarts
  <2>1. CASE node' = Put("coder", "conflict")
    BY <2>1, RowsUnmerged DEF NodeStates, Resting, Nodes
  <2>2. CASE node' = [node EXCEPT !["coder"].st = "merging", !["coder"].lease = Merge, !["coder"].live = TRUE]
    BY <2>2 DEF CollabTyped, Nodes, NodeRows, Unmerged
  <2> QED
    BY <1>5, <2>1, <2>2 DEF MergeStarts
<1> QED
  BY <1>1, <1>2, <1>3, <1>4, <1>5 DEF Tick

\* Where a result becomes merged the invariant holds of it: only MergeCommits does it.
LEMMA MergesAsReviewed ==
  ASSUME CollabInv, [CollabNext]_collabVars
  PROVE  (node'["coder"].st = "merged" /\ node["coder"].st # "merged")
           => /\ node["coder"].st = "merging" /\ merger.wrote = Files
              /\ review.ok /\ review.of = commit
<1> SUFFICES ASSUME node'["coder"].st = "merged", node["coder"].st # "merged"
             PROVE  /\ node["coder"].st = "merging" /\ merger.wrote = Files
                    /\ review.ok /\ review.of = commit
  OBVIOUS
<1>0. CollabTyped /\ ~Unmerged
  BY DEF CollabInv, Unmerged
<1>1. \A n \in Nodes : ~LeaseExpires(n)
  <2> SUFFICES ASSUME NEW n \in Nodes, LeaseExpires(n) PROVE FALSE
    OBVIOUS
  <2>1. node' = [node EXCEPT ![n].live = FALSE]
    BY DEF LeaseExpires
  <2> QED
    BY <1>0, <2>1 DEF CollabTyped, NodeRows, Nodes
<1>2. \A n \in Nodes : ~HumanAnswers(n) /\ ~HumanAbandons(n)
  BY <1>0, RowsUnmerged DEF HumanAnswers, HumanAbandons, NodeStates, Resting
<1>3. \A n \in Nodes, t \in Claims : ~Worker(n, t)
  BY <1>0, WorkerUnmerged
<1>4. ~Submits /\ ~Tick /\ ~CancelCollab /\ ~MergeStarts /\ ~MergeUndoes
  BY <1>0, ServiceUnmerged
<1>5. ~UNCHANGED node
  BY <1>0 DEF Unmerged
<1>6. MergeCommits
  BY <1>1, <1>2, <1>3, <1>4, <1>5 DEF CollabNext, collabVars, ServiceDies, ServiceResumes, Halt, ChildExpires, MergeFails,
     MergeDies, MergeFile, ForeignEdit
<1>7. merger.wrote = Files /\ node["coder"].st = "merging"
  BY <1>5, <1>6 DEF MergeCommits, MergeKept
<1>8. node["reviewer"].st = "completed" /\ review.ok /\ review.of = commit
  BY <1>7 DEF CollabInv, ReviewOfCommit
<1> QED
  BY <1>7, <1>8

\* What is merged is the commit the reviewer approved, whole, by a merge that nobody had
\* cancelled, and no result is delivered twice, for any number of claims, answers and files
\* (publish, fail, recover, merge_node).
THEOREM ResultsMergedAsReviewed == CollabSpec => MergedAsReviewed
<1>1. CollabInv /\ CollabInv' /\ [CollabNext]_collabVars =>
        [/\ merges' <= 1
         /\ (node'["coder"].st = "merged" /\ node["coder"].st # "merged")
              => /\ node["coder"].st = "merging" /\ merger.wrote = Files
                 /\ review.ok /\ review.of = commit]_collabVars
  <2>1. CollabInv' => merges' <= 1
    BY DEF CollabInv, CollabTyped, OneMerge
  <2> QED
    BY <2>1, MergesAsReviewed
<1> QED
  BY CollabInitial, CollabStep, <1>1, PTL DEF CollabSpec, MergedAsReviewed

----------------------------------------------------------------------------
(* The events of a submission *)

JournalRows == [kind : EventKinds, st : {"pending", "sent", "cancelled", "local"}]
StreamRows == [seq : Nat, kind : EventKinds]
RoundRows == [pc : {"idle", "finalize", "final", "final_mark", "publish", "read", "send", "mark"},
              row : Settled \union {"running"}, todo : SUBSET Nat]
WipeRows == [st : {"none", "pending", "remote_done", "local_done"}, why : {"session", "retention"}]

PubTyped == /\ psub \in Settled \union {"running", "erasing", "gone"}
            /\ journal \in Seq(JournalRows) /\ stream \in Seq(StreamRows) /\ pubr \in RoundRows

\* The final event is the last of the journal, and nothing is written once it may come.
FinalLast == /\ HasFinal => psub # "running"
             /\ \A i \in DOMAIN journal : journal[i].kind = "final" => i = Len(journal)
             /\ pubr.pc \in {"final", "final_mark"} => pubr.row # "running"

\* What the transport has accepted is an event of the journal, and nothing before it is
\* still to be sent.
StreamFits == psub # "gone" =>
  \A i \in DOMAIN stream :
    /\ stream[i].seq \in DOMAIN journal /\ stream[i].kind = journal[stream[i].seq].kind
    /\ \A j \in Unsent : j >= stream[i].seq

\* A round has read all that was to be sent up to its last row; what comes later lies behind.
RoundFits == /\ pubr.pc \in {"send", "mark"} => /\ pubr.todo \subseteq Unsent
                                                /\ \A i \in Unsent \ pubr.todo : \A j \in pubr.todo : j < i
             /\ pubr.pc = "mark" => pubr.todo # {} /\ Accepted(Due)
             /\ PubHolds => psub # "gone"

\* The erasure has a tombstone from its first step on, and what was wiped is referred to by
\* no publisher.
ErasureFits == /\ job \in WipeRows
               /\ job.st = "none" <=> psub \notin {"erasing", "gone"}
               /\ eras # "idle" => job.st # "none"
               /\ wiped => job.st \in {"remote_done", "local_done"} /\ ~PubHolds

EventsInv == PubTyped /\ FinalLast /\ StreamFits /\ RoundFits /\ ErasureFits /\ PublishedInOrder

\* The empty journal.
LEMMA EventsInitial == PubInit => EventsInv
<1> SUFFICES ASSUME PubInit PROVE EventsInv
  OBVIOUS
<1>1. PubTyped
  BY DEF PubInit, PubTyped, Settled, PubIdle, RoundRows
<1>2. FinalLast /\ StreamFits /\ RoundFits /\ ErasureFits
  BY DEF PubInit, FinalLast, StreamFits, RoundFits, ErasureFits, HasFinal, PubIdle, PubHolds, Settled, WipeRows
<1>3. PublishedInOrder
  BY DEF PubInit, PublishedInOrder
<1> QED
  BY <1>1, <1>2, <1>3 DEF EventsInv

\* Steps that touch neither the events nor the row of the submission.
LEMMA EventsRest ==
  ASSUME EventsInv, UNCHANGED <<psub, journal, stream, told>>, pubr' \in RoundRows,
         pubr'.pc \in {"final", "final_mark"} => pubr'.row # "running",
         pubr' = pubr \/ pubr'.pc \notin {"send", "mark"}, PubHolds' => psub # "gone"
  PROVE  PubTyped' /\ FinalLast' /\ StreamFits' /\ RoundFits' /\ PublishedInOrder'
<1>1. PubTyped' /\ FinalLast' /\ PublishedInOrder'
  BY DEF EventsInv, PubTyped, FinalLast, HasFinal, PublishedInOrder
<1>2. StreamFits' /\ RoundFits'
  <2>1. Unsent' = Unsent
    BY DEF Unsent
  <2>2. CASE pubr' = pubr
    BY <2>1, <2>2 DEF EventsInv, StreamFits, RoundFits, PubHolds, Accepted, Due
  <2>3. CASE pubr'.pc \notin {"send", "mark"}
    BY <2>1, <2>3 DEF EventsInv, StreamFits, RoundFits
  <2> QED
    BY <2>2, <2>3, <1>1 DEF EventsInv
<1> QED
  BY <1>1, <1>2

\* An Activity's and the Workflow's references, the client's acknowledgement.
LEMMA ReferenceSteps ==
  ASSUME EventsInv, ActOpen \/ ActClose \/ WfClose \/ Ack PROVE EventsInv'
<1>1. UNCHANGED <<psub, journal, stream, told, pubr, job, eras, wiped>>
  BY DEF ActOpen, ActClose, WfClose, Ack
<1>2. PubTyped' /\ FinalLast' /\ StreamFits' /\ RoundFits' /\ PublishedInOrder'
  BY <1>1, EventsRest DEF EventsInv, PubTyped, FinalLast, RoundFits, PubHolds
<1> QED
  BY <1>1, <1>2 DEF EventsInv, ErasureFits, PubHolds

\* The end of a submission leaves a finalization to do.
LEMMA SubmissionSteps ==
  ASSUME EventsInv, SubmissionEnds PROVE EventsInv'
<1>1. UNCHANGED <<journal, stream, told, pubr, job, eras, wiped>> /\ psub = "running" /\ psub' \in Settled
  BY DEF SubmissionEnds
<1>2. PubTyped' /\ FinalLast' /\ PublishedInOrder'
  BY <1>1 DEF EventsInv, PubTyped, FinalLast, HasFinal, PublishedInOrder, Settled
<1>3. StreamFits' /\ RoundFits' /\ ErasureFits'
  BY <1>1 DEF EventsInv, StreamFits, RoundFits, ErasureFits, PubHolds, Settled, Unsent, Accepted, Due
<1> QED
  BY <1>2, <1>3 DEF EventsInv

\* An event appended to the journal lies behind what was read and what was sent.
LEMMA AppendedBehind ==
  ASSUME EventsInv, NEW e \in JournalRows, journal' = Append(journal, e), ~HasFinal,
         UNCHANGED <<psub, stream, told, job, eras, wiped>>,
         pubr'.todo = pubr.todo, pubr' \in RoundRows, psub # "gone",
         pubr' = pubr \/ (pubr.pc = "final" /\ pubr'.pc = "final_mark" /\ pubr'.row = pubr.row),
         e.kind = "final" => psub # "running", psub \notin {"erasing", "gone"} \/ ~wiped
  PROVE  EventsInv'
<1>1. journal \in Seq(JournalRows) /\ journal' \in Seq(JournalRows) /\ Len(journal') = Len(journal) + 1
      /\ DOMAIN journal = 1..Len(journal) /\ DOMAIN journal' = 1..(Len(journal) + 1)
      /\ journal'[Len(journal) + 1] = e /\ \A i \in DOMAIN journal : journal'[i] = journal[i]
  BY DEF EventsInv, PubTyped
<1>2. \A i \in Unsent' : i \in Unsent \/ i = Len(journal) + 1
  BY <1>1 DEF Unsent
<1>3. \A i \in Unsent : i \in Unsent' /\ i \in 1..Len(journal)
  BY <1>1 DEF Unsent
<1>4. PubTyped'
  BY <1>1 DEF EventsInv, PubTyped
<1>5. FinalLast'
  <2>1. HasFinal' => psub' # "running"
    BY <1>1 DEF HasFinal
  <2>2. \A i \in DOMAIN journal' : journal'[i].kind = "final" => i = Len(journal')
    BY <1>1 DEF HasFinal
  <2>3. pubr'.pc \in {"final", "final_mark"} => pubr'.row # "running"
    BY DEF EventsInv, FinalLast
  <2> QED
    BY <2>1, <2>2, <2>3 DEF FinalLast
<1>6. StreamFits'
  <2> SUFFICES ASSUME NEW i \in DOMAIN stream
               PROVE  /\ stream[i].seq \in DOMAIN journal' /\ stream[i].kind = journal'[stream[i].seq].kind
                      /\ \A j \in Unsent' : j >= stream[i].seq
    BY DEF StreamFits
  <2>1. stream[i].seq \in DOMAIN journal /\ stream[i].kind = journal[stream[i].seq].kind
        /\ \A j \in Unsent : j >= stream[i].seq
    BY DEF EventsInv, StreamFits
  <2> QED
    BY <2>1, <1>1, <1>2
<1>7. RoundFits'
  <2>1. pubr'.pc \in {"send", "mark"} => pubr = pubr'
    OBVIOUS
  <2>2. pubr'.pc \in {"send", "mark"} =>
          pubr'.todo \subseteq Unsent' /\ \A i \in Unsent' \ pubr'.todo : \A j \in pubr'.todo : j < i
    <3> SUFFICES ASSUME pubr'.pc \in {"send", "mark"}
                 PROVE  pubr'.todo \subseteq Unsent' /\ \A i \in Unsent' \ pubr'.todo : \A j \in pubr'.todo : j < i
      OBVIOUS
    <3>1. pubr.todo \subseteq Unsent /\ \A i \in Unsent \ pubr.todo : \A j \in pubr.todo : j < i
      BY <2>1 DEF EventsInv, RoundFits
    <3>2. \A j \in pubr.todo : j < Len(journal) + 1
      BY <3>1, <1>1, <1>3
    <3> QED
      BY <3>1, <3>2, <1>2, <1>3
  <2>3. pubr'.pc = "mark" => pubr'.todo # {} /\ Accepted(Due)'
    BY <2>1 DEF EventsInv, RoundFits, Accepted, Due
  <2> QED
    BY <2>2, <2>3 DEF RoundFits
<1>8. ErasureFits'
  BY DEF EventsInv, ErasureFits, PubHolds
<1>9. PublishedInOrder'
  BY DEF EventsInv, PublishedInOrder
<1> QED
  BY <1>4, <1>5, <1>6, <1>7, <1>8, <1>9 DEF EventsInv

\* Events of the turn, and the final one, whoever finalizes.
LEMMA JournalSteps ==
  ASSUME EventsInv, ActWrite \/ ActFinalize \/ FinalAppend PROVE EventsInv'
<1>0. \A kind \in EventKinds : Entry(kind) \in JournalRows /\ Entry(kind).kind = kind
  BY DEF Entry, JournalRows
<1>1. CASE ActWrite
  <2>1. PICK kind \in {"delta", "wait"} : journal' = Append(journal, Entry(kind))
    BY <1>1 DEF ActWrite
  <2>2. ~HasFinal /\ psub = "running" /\ UNCHANGED <<psub, stream, told, pubr, job, eras, wiped>>
    BY <1>1 DEF ActWrite, EventsInv, FinalLast
  <2>3. Entry(kind) \in JournalRows /\ Entry(kind).kind # "final"
    BY <1>0 DEF EventKinds
  <2>4. pubr' \in RoundRows /\ ~wiped
    BY <2>2 DEF EventsInv, PubTyped, ErasureFits
  <2> QED
    BY <2>1, <2>2, <2>3, <2>4, AppendedBehind
<1>2. CASE ActFinalize
  <2>1. psub \in Settled /\ UNCHANGED <<psub, stream, told, pubr, job, eras, wiped>> /\ journal' = FinalAppended
    BY <1>2 DEF ActFinalize
  <2>2. pubr' \in RoundRows /\ ~wiped
    BY <2>1 DEF EventsInv, PubTyped, ErasureFits, Settled
  <2>3. CASE HasFinal
    <3>1. journal' = journal
      BY <2>1, <2>3 DEF FinalAppended
    <3>2. PubTyped' /\ FinalLast' /\ StreamFits' /\ RoundFits' /\ PublishedInOrder'
      BY <2>1, <3>1, EventsRest DEF EventsInv, PubTyped, FinalLast, RoundFits, PubHolds
    <3> QED
      BY <2>1, <3>2 DEF EventsInv, ErasureFits, PubHolds
  <2>4. CASE ~HasFinal
    BY <2>1, <2>2, <2>4, <1>0, AppendedBehind DEF FinalAppended, EventKinds, Settled
  <2> QED
    BY <2>3, <2>4
<1>3. CASE FinalAppend
  <2>1. pubr.pc = "final" /\ UNCHANGED <<psub, stream, told, job, eras, wiped>>
    BY <1>3 DEF FinalAppend
  <2>2. ~wiped /\ psub # "gone" /\ pubr.row # "running" /\ pubr \in RoundRows
    BY <2>1 DEF EventsInv, PubTyped, ErasureFits, PubHolds, RoundFits, FinalLast
  <2>3. CASE psub = pubr.row /\ ~HasFinal
    <3>1. journal' = Append(journal, Entry("final")) /\ pubr' = [pubr EXCEPT !.pc = "final_mark"]
      BY <1>3, <2>3 DEF FinalAppend, FinalAppended, Round
    <3>2. pubr' \in RoundRows /\ pubr'.todo = pubr.todo /\ pubr'.pc = "final_mark" /\ pubr'.row = pubr.row
      BY <2>2, <3>1 DEF RoundRows
    <3>3. Entry("final") \in JournalRows
      BY <1>0 DEF EventKinds
    <3> QED
      BY <2>1, <2>2, <2>3, <3>1, <3>2, <3>3, AppendedBehind
  <2>4. CASE psub # pubr.row \/ HasFinal
    <3>1. journal' = journal /\ (pubr' = [pubr EXCEPT !.pc = "final_mark"] \/ pubr' = PubIdle)
      BY <1>3, <2>4 DEF FinalAppend, FinalAppended, Round, GiveUp
    <3>2. pubr' \in RoundRows /\ pubr'.pc \in {"final_mark", "idle"} /\ (pubr'.pc = "final_mark" => pubr'.row = pubr.row)
      BY <2>2, <3>1 DEF RoundRows, PubIdle
    <3>3. PubTyped' /\ FinalLast' /\ StreamFits' /\ RoundFits' /\ PublishedInOrder'
      BY <2>1, <2>2, <3>1, <3>2, EventsRest
    <3> QED
      BY <2>1, <2>2, <3>3 DEF EventsInv, ErasureFits
  <2> QED
    BY <2>3, <2>4
<1> QED
  BY <1>1, <1>2, <1>3

\* What the publisher does between its reads: it looks, enters the scope of the row, or
\* gives the round up.
LEMMA RoundSteps ==
  ASSUME EventsInv, Pick \/ Finalize \/ FinalMark \/ Publish \/ PublisherFails PROVE EventsInv'
<1>1. UNCHANGED <<psub, journal, stream, told, job, eras, wiped>>
  BY DEF Pick, Finalize, FinalMark, Publish, EnterScope, PublisherFails, OnlyRound
<1>2. /\ pubr' \in RoundRows /\ pubr'.pc \in {"idle", "finalize", "final", "publish", "read"}
      /\ pubr'.pc = "final" => pubr'.row # "running"
      /\ pubr'.pc \in {"final", "read"} => psub \notin {"erasing", "gone"}
  <2>1. pubr \in RoundRows
    BY DEF EventsInv, PubTyped
  <2>2. CASE Pick
    <3>1. pubr' = [pc |-> "finalize", row |-> psub, todo |-> {}] /\ psub \in Settled \union {"running"}
      BY <2>2 DEF Pick, PubIdle
    <3> QED
      BY <3>1 DEF RoundRows
  <2>3. CASE Finalize \/ Publish \/ FinalMark
    <3>1. PICK pc \in {"final", "publish", "read"} :
            \/ pubr' = PubIdle
            \/ /\ pubr' = [pubr EXCEPT !.pc = pc]
               /\ pc = "final" => pubr.row # "running"
               /\ pc \in {"final", "read"} => psub \notin {"erasing", "gone"}
      BY <2>3 DEF Finalize, Publish, FinalMark, EnterScope, Round, GiveUp
    <3> QED
      BY <2>1, <3>1 DEF RoundRows, PubIdle
  <2>4. CASE PublisherFails
    BY <2>4 DEF PublisherFails, GiveUp, PubIdle, RoundRows
  <2> QED
    BY <2>2, <2>3, <2>4
<1>3. PubHolds' => psub \notin {"erasing", "gone"}
  BY <1>2 DEF PubHolds
<1>4. PubTyped' /\ FinalLast' /\ StreamFits' /\ RoundFits' /\ PublishedInOrder'
  BY <1>1, <1>2, <1>3, EventsRest
<1>5. ErasureFits'
  BY <1>1, <1>3 DEF EventsInv, ErasureFits
<1> QED
  BY <1>4, <1>5 DEF EventsInv

\* A function on 1..n is a sequence.
LEMMA FunctionIsSeq ==
  ASSUME NEW S, NEW n \in Nat, NEW f \in [1..n -> S] PROVE f \in Seq(S) /\ Len(f) = n
OBVIOUS

\* The rows that a round reads are those left to be sent; a cancellation withdraws some.
LEMMA ReadStep ==
  ASSUME EventsInv, PublishRead PROVE EventsInv'
<1>1. /\ UNCHANGED <<psub, stream, told, job, eras, wiped>> /\ pubr.pc = "read" /\ journal' = Withdrawn
      /\ pubr' = [pubr EXCEPT !.pc = "send", !.todo = {i \in DOMAIN journal : Withdrawn[i].st = "pending"}]
  BY DEF PublishRead
<1>2. journal \in Seq(JournalRows) /\ pubr \in RoundRows
  BY DEF EventsInv, PubTyped
<1>3. \A i \in DOMAIN journal : /\ Withdrawn[i] \in JournalRows /\ Withdrawn[i].kind = journal[i].kind
                                /\ Withdrawn[i].st = "pending" => journal[i].st = "pending"
  <2> SUFFICES ASSUME NEW i \in DOMAIN journal
               PROVE  /\ Withdrawn[i] \in JournalRows /\ Withdrawn[i].kind = journal[i].kind
                      /\ Withdrawn[i].st = "pending" => journal[i].st = "pending"
    OBVIOUS
  <2>1. journal[i] \in JournalRows
    BY <1>2
  <2>2. Withdrawn[i] = journal[i] \/ Withdrawn[i] = [journal[i] EXCEPT !.st = "cancelled"]
    BY DEF Withdrawn
  <2> QED
    BY <2>1, <2>2 DEF JournalRows
<1>4. Withdrawn \in Seq(JournalRows) /\ Len(Withdrawn) = Len(journal) /\ DOMAIN Withdrawn = DOMAIN journal
  <2>1. DOMAIN journal = 1..Len(journal) /\ Len(journal) \in Nat
    BY <1>2
  <2>2. DOMAIN Withdrawn = DOMAIN journal /\ Withdrawn = [i \in DOMAIN Withdrawn |-> Withdrawn[i]]
    BY Zenon DEF Withdrawn
  <2>3. Withdrawn \in [1..Len(journal) -> JournalRows]
    <3>1. \A i \in DOMAIN Withdrawn : Withdrawn[i] \in JournalRows
      BY <2>2, <1>3, Zenon
    <3>2. DOMAIN Withdrawn = 1..Len(journal)
      BY <2>1, <2>2, Zenon
    <3> QED
      BY <2>2, <3>1, <3>2, Zenon
  <2>4. Withdrawn \in Seq(JournalRows) /\ Len(Withdrawn) = Len(journal)
    BY <2>1, <2>3, FunctionIsSeq
  <2> QED
    BY <2>1, <2>2, <2>4
<1>5. Unsent' = {i \in DOMAIN journal : Withdrawn[i].st = "pending"} /\ Unsent' \subseteq Unsent
  <2>1. Unsent' = {i \in DOMAIN Withdrawn : Withdrawn[i].st = "pending"}
    BY <1>1, Zenon DEF Unsent
  <2>2. Unsent' = {i \in DOMAIN journal : Withdrawn[i].st = "pending"}
    BY <2>1, <1>4, Zenon
  <2>3. \A i \in DOMAIN journal : Withdrawn[i].st = "pending" => i \in Unsent
    BY <1>3, Zenon DEF Unsent
  <2> QED
    BY <2>2, <2>3
<1>6. pubr' \in RoundRows /\ pubr'.pc = "send" /\ pubr'.todo = Unsent'
  <2>1. Unsent' \subseteq Nat
    BY <1>2, <1>5
  <2> QED
    BY <1>1, <1>2, <1>5, <2>1 DEF RoundRows
<1>6a. /\ journal' \in Seq(JournalRows) /\ DOMAIN journal' = DOMAIN journal /\ Len(journal') = Len(journal)
      /\ \A i \in DOMAIN journal : journal'[i].kind = journal[i].kind
  <2>1. \A i \in DOMAIN journal : Withdrawn[i].kind = journal[i].kind
    BY <1>3, Zenon
  <2> QED
    BY <1>1, <1>4, <2>1, Zenon
<1>7. PubTyped' /\ FinalLast'
  BY <1>1, <1>2, <1>6a, <1>6 DEF EventsInv, PubTyped, FinalLast, HasFinal
<1>8. StreamFits' /\ RoundFits'
  <2>1. psub # "gone"
    BY <1>1 DEF EventsInv, RoundFits, PubHolds
  <2>2. RoundFits'
    BY <1>1, <1>6, <2>1 DEF RoundFits
  <2>3. StreamFits'
    BY <1>1, <1>6a, <1>5 DEF EventsInv, StreamFits
  <2> QED
    BY <2>2, <2>3
<1>9. ErasureFits' /\ PublishedInOrder'
  BY <1>1, <1>6 DEF EventsInv, ErasureFits, PubHolds, PublishedInOrder
<1> QED
  BY <1>7, <1>8, <1>9 DEF EventsInv

\* A set of numbers has a least one.
LEMMA LeastNumber ==
  ASSUME NEW S, S \subseteq Nat, S # {} PROVE \E x \in S : \A y \in S : x <= y
<1>1. PICK x \in S : \A y \in S : <<y, x>> \notin OpToRel(<, Nat)
  BY WFMin, NatLessThanWellFounded, Zenon
<1>2. \A y \in S : ~(y < x)
  BY <1>1, Zenon DEF OpToRel
<1>3. \A y \in S : y \in Nat /\ x \in Nat
  OBVIOUS
<1> QED
  BY <1>2, <1>3

\* Of the rows read, the first is the least.
LEMMA DueIsLeast ==
  ASSUME EventsInv, pubr.todo # {}, pubr.pc \in {"send", "mark"}
  PROVE  /\ Due \in pubr.todo /\ Due \in Unsent /\ Due \in DOMAIN journal /\ Due \in Nat
         /\ \A j \in pubr.todo : Due <= j
         /\ \A j \in Unsent : Due <= j
<1>1. pubr.todo \subseteq Unsent /\ \A i \in Unsent \ pubr.todo : \A j \in pubr.todo : j < i
  BY DEF EventsInv, RoundFits
<1>2. journal \in Seq(JournalRows)
  BY DEF EventsInv, PubTyped
<1>3. Unsent \subseteq DOMAIN journal /\ Unsent \subseteq Nat
  BY <1>2 DEF Unsent
<1>4. \E x \in pubr.todo : \A y \in pubr.todo : x <= y
  BY <1>1, <1>3, LeastNumber
<1>5. Due \in pubr.todo /\ \A j \in pubr.todo : Due <= j
  BY <1>4 DEF Due, Min
<1> QED
  BY <1>1, <1>3, <1>5

\* An event is accepted in its turn: everything before it is sent, and the final one is last.
LEMMA SendStep ==
  ASSUME EventsInv, PublishSend PROVE EventsInv'
<1>1. UNCHANGED <<psub, journal, job, eras, wiped>> /\ pubr.pc = "send"
  BY DEF PublishSend
<1>2. journal \in Seq(JournalRows) /\ pubr \in RoundRows /\ stream \in Seq(StreamRows) /\ psub # "gone" /\ ~wiped
  BY <1>1 DEF EventsInv, PubTyped, RoundFits, ErasureFits, PubHolds
<1>3. CASE ~(pubr.todo # {} /\ Room(Due))
  <2>1. pubr' = PubIdle /\ UNCHANGED <<stream, told>>
    BY <1>3 DEF PublishSend, GiveUp
  <2>2. PubTyped' /\ FinalLast' /\ StreamFits' /\ RoundFits' /\ PublishedInOrder'
    BY <1>1, <1>2, <2>1, EventsRest DEF PubIdle, RoundRows, Settled
  <2> QED
    BY <1>1, <1>2, <2>2 DEF EventsInv, ErasureFits
<1>4. CASE pubr.todo # {} /\ Room(Due)
  <2>0. /\ Due \in pubr.todo /\ Due \in Unsent /\ Due \in DOMAIN journal /\ Due \in Nat /\ \A j \in Unsent : Due <= j
        /\ pubr.todo \subseteq Unsent /\ \A i \in Unsent \ pubr.todo : \A j \in pubr.todo : j < i
    BY <1>1, <1>4, DueIsLeast DEF EventsInv, RoundFits
  <2>1. Accept(Due, journal[Due].kind) /\ pubr' = [pubr EXCEPT !.pc = "mark"]
    BY <1>4 DEF PublishSend, Round
  <2>2. pubr' \in RoundRows /\ pubr'.pc = "mark" /\ pubr'.todo = pubr.todo /\ pubr'.row = pubr.row /\ Due' = Due /\ Unsent' = Unsent
    BY <1>1, <1>2, <2>1 DEF RoundRows, Due, Unsent
  <2>3. FinalLast'
    BY <1>1, <2>2 DEF EventsInv, FinalLast, HasFinal
  <2>4. ErasureFits'
    BY <1>1, <1>2 DEF EventsInv, ErasureFits
  <2>5. Accepted(Due)' => RoundFits'
    BY <1>1, <1>2, <2>0, <2>2 DEF RoundFits, Accepted
  <2>6. CASE Accepted(Due)
    <3>1. UNCHANGED <<stream, told>>
      BY <2>1, <2>6 DEF Accept
    <3>2. Accepted(Due)'
      BY <2>2, <2>6, <3>1 DEF Accepted
    <3>3. PubTyped' /\ StreamFits' /\ PublishedInOrder'
      BY <1>1, <2>2, <3>1 DEF EventsInv, PubTyped, StreamFits, PublishedInOrder
    <3> QED
      BY <2>3, <2>4, <2>5, <3>2, <3>3 DEF EventsInv
  <2>7. CASE ~Accepted(Due)
    <3> DEFINE e == [seq |-> Due, kind |-> journal[Due].kind]
    <3>1. stream' = Append(stream, e)
      BY <2>1, <2>7 DEF Accept
    <3>2. journal[Due] \in JournalRows /\ e \in StreamRows /\ e.seq = Due /\ e.kind = journal[Due].kind
      <4>1. journal[Due] \in JournalRows
        BY <1>2, <2>0
      <4> QED
        BY <2>0, <4>1 DEF JournalRows, StreamRows
    <3> HIDE DEF e
    <3>3. stream' \in Seq(StreamRows) /\ Len(stream') = Len(stream) + 1 /\ stream'[Len(stream) + 1] = e
          /\ DOMAIN stream = 1..Len(stream) /\ DOMAIN stream' = 1..(Len(stream) + 1) /\ Len(stream) \in Nat
          /\ \A i \in DOMAIN stream : stream'[i] = stream[i]
      BY <1>2, <3>1, <3>2
    <3>4. \A i \in DOMAIN stream : stream[i].seq < Due /\ stream[i].kind # "final"
      <4> SUFFICES ASSUME NEW i \in DOMAIN stream PROVE stream[i].seq < Due /\ stream[i].kind # "final"
        OBVIOUS
      <4>1. stream[i].seq \in DOMAIN journal /\ stream[i].kind = journal[stream[i].seq].kind /\ Due >= stream[i].seq
        BY <1>2, <2>0 DEF EventsInv, StreamFits
      <4>2. stream[i].seq # Due
        BY <2>7 DEF Accepted
      <4>3. Len(journal) \in Nat /\ DOMAIN journal = 1..Len(journal)
        BY <1>2
      <4>4. stream[i].seq < Due /\ stream[i].seq # Len(journal)
        BY <2>0, <4>1, <4>2, <4>3
      <4> QED
        BY <4>1, <4>4 DEF EventsInv, FinalLast
    <3>5. PubTyped'
      BY <1>1, <2>2, <3>3 DEF EventsInv, PubTyped
    <3>6. StreamFits'
      <4> SUFFICES ASSUME NEW i \in DOMAIN stream'
                   PROVE  /\ stream'[i].seq \in DOMAIN journal /\ stream'[i].kind = journal[stream'[i].seq].kind
                          /\ \A j \in Unsent : j >= stream'[i].seq
        BY <1>1, <2>2 DEF StreamFits
      <4>1. CASE i \in DOMAIN stream
        BY <1>2, <3>3, <4>1 DEF EventsInv, StreamFits
      <4>2. CASE i = Len(stream) + 1
        <5>1. \A j \in Unsent : j \in Nat
          BY <1>2 DEF Unsent
        <5> QED
          BY <2>0, <3>2, <3>3, <4>2, <5>1
      <4> QED
        BY <3>3, <4>1, <4>2
    <3>7. Accepted(Due)'
      BY <2>2, <3>2, <3>3 DEF Accepted
    <3>8. PublishedInOrder'
      <4>1. \A i \in 1..(Len(stream') - 1) : stream'[i].seq < stream'[i + 1].seq /\ stream'[i].kind # "final"
        <5> SUFFICES ASSUME NEW i \in 1..(Len(stream') - 1)
                     PROVE  stream'[i].seq < stream'[i + 1].seq /\ stream'[i].kind # "final"
          OBVIOUS
        <5>1. CASE i = Len(stream)
          BY <3>2, <3>3, <3>4, <5>1
        <5>2. CASE i < Len(stream)
          <6>1. i \in 1..(Len(stream) - 1) /\ i \in DOMAIN stream /\ i + 1 \in DOMAIN stream
            BY <3>3, <5>2
          <6>2. stream[i].seq < stream[i + 1].seq
            BY <6>1 DEF EventsInv, PublishedInOrder
          <6>3. stream'[i] = stream[i] /\ stream'[i + 1] = stream[i + 1]
            BY <3>3, <6>1
          <6>4. stream[i].kind # "final"
            BY <3>4, <6>1
          <6> QED
            BY <6>2, <6>3, <6>4, Zenon
        <5>3. Len(stream') = Len(stream) + 1 /\ Len(stream) \in Nat
          BY <3>3
        <5>4. i = Len(stream) \/ i < Len(stream)
          BY <5>3
        <5> QED
          BY <5>1, <5>2, <5>4
      <4>2. told' = "final" => stream' # <<>> /\ Last(stream').kind = "final"
        <5> SUFFICES ASSUME told' = "final" PROVE stream' # <<>> /\ Last(stream').kind = "final"
          OBVIOUS
        <5>1. journal[Due].kind = "final" \/ told = "final"
          BY <2>1, <2>7 DEF Accept
        <5>2. told # "final"
          <6>1. told = "final" => stream # <<>> /\ stream[Len(stream)].kind = "final"
            BY DEF EventsInv, PublishedInOrder, Last
          <6>2. stream # <<>> => Len(stream) \in DOMAIN stream
            BY <1>2
          <6> QED
            BY <6>1, <6>2, <3>4
        <5>3. stream' # <<>> /\ Len(stream') = Len(stream) + 1
          BY <3>3
        <5> QED
          BY <3>2, <3>3, <5>1, <5>2, <5>3 DEF Last
      <4> QED
        BY <4>1, <4>2 DEF PublishedInOrder
    <3> QED
      BY <2>3, <2>4, <2>5, <3>5, <3>6, <3>7, <3>8 DEF EventsInv
  <2> QED
    BY <2>6, <2>7
<1> QED
  BY <1>3, <1>4

\* The mark takes the event out of what is left to be sent.
LEMMA MarkStep ==
  ASSUME EventsInv, PublishMark PROVE EventsInv'
<1>1. /\ UNCHANGED <<psub, stream, told, job, eras, wiped>> /\ pubr.pc = "mark"
      /\ journal' = [journal EXCEPT ![Due].st = "sent"] /\ pubr' = [pubr EXCEPT !.pc = "send", !.todo = pubr.todo \ {Due}]
  BY DEF PublishMark
<1>2. journal \in Seq(JournalRows) /\ pubr \in RoundRows /\ psub # "gone" /\ ~wiped /\ pubr.todo # {}
  BY <1>1 DEF EventsInv, PubTyped, RoundFits, ErasureFits, PubHolds
<1>3. /\ Due \in pubr.todo /\ Due \in DOMAIN journal
      /\ pubr.todo \subseteq Unsent /\ \A i \in Unsent \ pubr.todo : \A j \in pubr.todo : j < i
  BY <1>1, <1>2, DueIsLeast DEF EventsInv, RoundFits
<1>4. \A i \in DOMAIN journal : journal[i] \in JournalRows
  BY <1>2
<1>5. /\ journal' \in Seq(JournalRows) /\ Len(journal') = Len(journal) /\ DOMAIN journal' = DOMAIN journal
      /\ \A i \in DOMAIN journal : journal'[i].kind = journal[i].kind
                                   /\ journal'[i].st = IF i = Due THEN "sent" ELSE journal[i].st
  <2>1. [journal[Due] EXCEPT !.st = "sent"] \in JournalRows /\ [journal[Due] EXCEPT !.st = "sent"].kind = journal[Due].kind
        /\ [journal[Due] EXCEPT !.st = "sent"].st = "sent"
    BY <1>3, <1>4 DEF JournalRows
  <2>2. journal' = [journal EXCEPT ![Due] = [journal[Due] EXCEPT !.st = "sent"]]
    BY <1>1
  <2> QED
    BY <1>2, <1>3, <2>1, <2>2
<1>6. Unsent' = Unsent \ {Due}
  BY <1>5 DEF Unsent
<1>7. pubr' \in RoundRows /\ pubr'.pc = "send" /\ pubr'.todo = pubr.todo \ {Due}
  BY <1>1, <1>2 DEF RoundRows
<1>8. PubTyped' /\ FinalLast'
  BY <1>1, <1>5, <1>7 DEF EventsInv, PubTyped, FinalLast, HasFinal
<1>9. StreamFits'
  BY <1>1, <1>5, <1>6 DEF EventsInv, StreamFits
<1>10. RoundFits'
  BY <1>1, <1>2, <1>3, <1>6, <1>7 DEF RoundFits
<1>11. ErasureFits' /\ PublishedInOrder'
  BY <1>1, <1>2 DEF EventsInv, ErasureFits, PublishedInOrder
<1> QED
  BY <1>8, <1>9, <1>10, <1>11 DEF EventsInv

\* The erasure: a tombstone, then the remote Workflow, the transport's data and the rows, each
\* only while nobody refers to them.
LEMMA ErasureSteps ==
  ASSUME EventsInv, PrepareErasure \/ Eraser \/ Wipe PROVE EventsInv'
<1>1. CASE PrepareErasure
  <2>1. UNCHANGED <<journal, stream, told, pubr, eras, wiped>> /\ psub \notin {"erasing", "gone"} /\ psub' = "erasing"
        /\ job'.st = "pending" /\ job' \in WipeRows
    BY <1>1 DEF PrepareErasure, Settled, WipeRows
  <2>2. PubTyped' /\ FinalLast' /\ PublishedInOrder'
    BY <2>1 DEF EventsInv, PubTyped, FinalLast, HasFinal, PublishedInOrder
  <2>3. StreamFits' /\ RoundFits' /\ ErasureFits'
    BY <2>1 DEF EventsInv, StreamFits, RoundFits, ErasureFits, PubHolds, Unsent, Accepted, Due
  <2> QED
    BY <2>2, <2>3 DEF EventsInv
<1>2. CASE RemoteClose \/ RemoteCheck \/ RemoteDelete \/ PurgeApprovals \/ (PurgeRows /\ Referenced)
  <2>1. UNCHANGED <<psub, journal, stream, told, pubr, wiped>> /\ (job' = job \/ job' = [job EXCEPT !.st = "remote_done"])
    BY <1>2 DEF RemoteClose, RemoteCheck, RemoteDelete, PurgeApprovals, PurgeRows
  <2>2. PubTyped' /\ FinalLast' /\ StreamFits' /\ RoundFits' /\ PublishedInOrder'
    BY <2>1, EventsRest DEF EventsInv, PubTyped, FinalLast, RoundFits, PubHolds
  <2>3. ErasureFits'
    <3>0. job' \in WipeRows
      BY <2>1 DEF EventsInv, ErasureFits, WipeRows
    <3>1. CASE job' = job /\ job.st # "none"
      BY <2>1, <3>0, <3>1 DEF EventsInv, ErasureFits, PubHolds
    <3>2. CASE job.st # "none" /\ job'.st = "remote_done"
      BY <2>1, <3>0, <3>2 DEF EventsInv, ErasureFits, PubHolds
    <3>3. job.st # "none"
      BY <1>2 DEF EventsInv, ErasureFits, RemoteClose, RemoteCheck, RemoteDelete, PurgeApprovals, PurgeRows, EraseStep
    <3>4. job' = job \/ job' = [job EXCEPT !.st = "remote_done"]
      BY <1>2 DEF RemoteClose, RemoteCheck, RemoteDelete, PurgeApprovals, PurgeRows
    <3>5. job' = job \/ job'.st = "remote_done"
      BY <3>4 DEF EventsInv, ErasureFits, WipeRows
    <3> QED
      BY <3>1, <3>2, <3>3, <3>5
  <2> QED
    BY <2>2, <2>3 DEF EventsInv
<1>3. CASE PurgeRows /\ ~Referenced
  <2>1. UNCHANGED <<stream, told, pubr, wiped>> /\ psub' = "gone" /\ journal' = <<>> /\ eras' = "idle"
        /\ job' = [job EXCEPT !.st = "local_done"] /\ ~PubHolds
    BY <1>3 DEF PurgeRows, EraseStep, Referenced
  <2>2. PubTyped' /\ FinalLast' /\ PublishedInOrder'
    BY <2>1 DEF EventsInv, PubTyped, FinalLast, HasFinal, PublishedInOrder
  <2>3. StreamFits' /\ RoundFits' /\ ErasureFits'
    BY <2>1 DEF EventsInv, StreamFits, RoundFits, ErasureFits, PubHolds, WipeRows
  <2> QED
    BY <2>2, <2>3 DEF EventsInv
<1>4. CASE Wipe
  <2>1. UNCHANGED <<psub, journal, stream, pubr, job, eras>> /\ job.st = "remote_done" /\ ~PubHolds /\ told' = "deleted"
    BY <1>4 DEF Wipe, Referenced
  <2>2. PubTyped' /\ FinalLast' /\ PublishedInOrder'
    BY <2>1 DEF EventsInv, PubTyped, FinalLast, HasFinal, PublishedInOrder
  <2>3. StreamFits' /\ RoundFits' /\ ErasureFits'
    BY <2>1 DEF EventsInv, StreamFits, RoundFits, ErasureFits, PubHolds, Unsent
  <2> QED
    BY <2>2, <2>3 DEF EventsInv
<1> QED
  BY <1>1, <1>2, <1>3, <1>4 DEF Eraser

\* Every step keeps the invariant.
LEMMA EventsStep == EventsInv /\ [PubNext]_pubVars => EventsInv'
<1> SUFFICES ASSUME EventsInv, [PubNext]_pubVars PROVE EventsInv'
  OBVIOUS
<1>1. CASE UNCHANGED pubVars
  BY <1>1 DEF pubVars, EventsInv, PubTyped, FinalLast, HasFinal, StreamFits, RoundFits, ErasureFits, PublishedInOrder,
              PubHolds, Unsent, Accepted, Due
<1> QED
  BY <1>1, ReferenceSteps, SubmissionSteps, JournalSteps, RoundSteps, ReadStep, SendStep, MarkStep, ErasureSteps
  DEF PubNext, Publisher

\* Once the transport's data is erased nobody publishes, and what the journal holds is only
\* deleted.
LEMMA SilentAfterErasure ==
  ASSUME EventsInv, [PubNext]_pubVars, wiped
  PROVE  UNCHANGED <<stream, told>> /\ journal' \in {journal, <<>>}
<1>1. psub \in {"erasing", "gone"} /\ ~PubHolds
  BY DEF EventsInv, ErasureFits
<1>2. CASE UNCHANGED pubVars
  BY <1>2 DEF pubVars
<1>3. CASE ActOpen \/ ActClose \/ WfClose \/ Ack \/ Pick \/ Finalize \/ FinalMark \/ Publish \/ PublisherFails
  BY <1>3 DEF ActOpen, ActClose, WfClose, Ack, Pick, Finalize, FinalMark, Publish, EnterScope, PublisherFails, OnlyRound
<1>4. CASE ActWrite \/ SubmissionEnds \/ ActFinalize \/ PrepareErasure
  BY <1>1, <1>4 DEF ActWrite, SubmissionEnds, ActFinalize, PrepareErasure, Settled
<1>5. CASE FinalAppend \/ PublishRead \/ PublishSend \/ PublishMark
  BY <1>1, <1>5 DEF PubHolds, FinalAppend, PublishRead, PublishSend, PublishMark
<1>6. CASE Eraser \/ Wipe
  BY <1>6 DEF Eraser, RemoteClose, RemoteCheck, RemoteDelete, PurgeApprovals, PurgeRows, Wipe
<1> QED
  BY <1>2, <1>3, <1>4, <1>5, <1>6 DEF PubNext, Publisher

\* The transport sees each event of the journal once and in the journal's order, and nothing
\* after the final one (publish, EventStore.append, complete_command).
THEOREM EventsInOrder == PubSpec => []PublishedInOrder
<1>1. EventsInv => PublishedInOrder
  BY DEF EventsInv
<1> QED
  BY EventsInitial, EventsStep, <1>1, PTL DEF PubSpec

\* What a deletion has wiped from the transport stays away (reference, blockers, guard_session).
THEOREM WipedStaysWiped == PubSpec => NothingAfterErasure
<1>1. EventsInv /\ [PubNext]_pubVars => [wiped => UNCHANGED <<stream, told>> /\ journal' \in {journal, <<>>}]_pubVars
  BY SilentAfterErasure
<1> QED
  BY EventsInitial, EventsStep, <1>1, PTL DEF PubSpec, NothingAfterErasure

\* What the events say nothing of: the marks of the submission, the transport and the erasers.
MarksTyped ==
  /\ pfin \in {"none", "pending", "completed"} /\ target \in {"websocket", "communication"}
  /\ acked \in 0..Len(stream) /\ told \in {"open", "suspended", "final", "deleted"}
  /\ actv \in BOOLEAN /\ wiped \in BOOLEAN /\ crashes \in Nat
  /\ eras \in {"idle", "closed", "quiet", "purge"} /\ wfl \in {"open", "closed", "deleted"}

LEMMA MarksInitial == PubInit => MarksTyped
<1> SUFFICES ASSUME PubInit PROVE MarksTyped
  OBVIOUS
<1>1. acked = 0 /\ stream = <<>>
  BY DEF PubInit
<1>2. acked \in 0..Len(stream)
  BY <1>1
<1> QED
  BY <1>2 DEF PubInit, MarksTyped

\* The transport's store only grows, and nothing beyond its end is acknowledged.
LEMMA MarksStep == EventsInv /\ MarksTyped /\ [PubNext]_pubVars => MarksTyped'
<1> SUFFICES ASSUME PubTyped, MarksTyped, [PubNext]_pubVars PROVE MarksTyped'
  BY DEF EventsInv
<1>1. ASSUME UNCHANGED <<pfin, target, stream, acked, told, actv, wiped, crashes, eras, wfl>> PROVE MarksTyped'
  BY <1>1 DEF MarksTyped
<1>2. CASE ActOpen \/ ActClose \/ SubmissionEnds \/ ActFinalize \/ WfClose \/ FinalMark
  BY <1>2 DEF ActOpen, ActClose, SubmissionEnds, ActFinalize, WfClose, FinalMark, MarksTyped
<1>3. CASE ActWrite \/ Pick \/ Finalize \/ FinalAppend \/ Publish \/ PublishRead \/ PublishMark \/ PrepareErasure
  BY <1>1, <1>3 DEF ActWrite, Pick, Finalize, FinalAppend, Publish, EnterScope, OnlyRound, PublishRead, PublishMark, PrepareErasure
<1>4. CASE PublishSend
  <2>1. Len(stream) \in Nat
    BY DEF PubTyped
  <2>2. CASE UNCHANGED <<stream, told>>
    BY <1>1, <1>4, <2>2 DEF PublishSend
  <2>3. CASE Accept(Due, journal[Due].kind)
    <3>1. Len(stream') >= Len(stream) /\ Len(stream') \in Nat
      BY <2>1, <2>3 DEF Accept, PubTyped
    <3>2. told' \in {"open", "suspended", "final", "deleted"}
      BY <2>3 DEF Accept, MarksTyped
    <3>3. acked \in 0..Len(stream')
      BY <2>1, <3>1 DEF MarksTyped
    <3> QED
      BY <1>4, <3>2, <3>3 DEF PublishSend, MarksTyped
  <2> QED
    BY <1>4, <2>2, <2>3 DEF PublishSend
<1>5. CASE PublisherFails \/ Ack
  <2>1. Len(stream) \in Nat
    BY DEF PubTyped
  <2>2. CASE PublisherFails
    <3>1. actv' \in {actv, FALSE} /\ actv \in BOOLEAN
      BY <2>2 DEF PublisherFails, MarksTyped
    <3>2. actv' \in BOOLEAN
      BY <3>1, Zenon
    <3> QED
      BY <2>2, <3>2 DEF PublisherFails, MarksTyped
  <2>3. CASE Ack
    <3>1. acked' \in (acked + 1)..Len(stream) /\ acked \in Nat
      BY <2>1, <2>3 DEF Ack, MarksTyped
    <3>2. acked' \in 0..Len(stream)
      BY <2>1, <3>1
    <3> QED
      BY <2>3, <3>2 DEF Ack, MarksTyped
  <2> QED
    BY <1>5, <2>2, <2>3
<1>6. CASE Eraser
  BY <1>6 DEF Eraser, RemoteClose, RemoteCheck, RemoteDelete, PurgeApprovals, PurgeRows, EraseStep, MarksTyped
<1>7. CASE Wipe
  <2>1. Len(stream) \in 0..Len(stream)
    BY DEF PubTyped
  <2> QED
    BY <1>7, <2>1 DEF Wipe, MarksTyped
<1>8. CASE UNCHANGED pubVars
  BY <1>1, <1>8 DEF pubVars
<1> QED
  BY <1>2, <1>3, <1>4, <1>5, <1>6, <1>7, <1>8 DEF PubNext, Publisher

----------------------------------------------------------------------------
(* An approved write *)

\* Where the Workflow has not replaced the file yet.
BeforeCommit == {"probe", "request", "read", "settle", "wait", "claim", "authorize", "consume", "stage", "commit", "replace"}
BeforeUse == BeforeCommit \ {"stage", "commit", "replace"}
Negative == {"denied", "expired", "cancelled"}

\* The order of the gate: the replacement lies behind the use of the grant, which lies behind
\* the decision; a refused wait ends the way there, and inside the transaction of the
\* replacement the submission is not fenced.
GateOrder ==
  /\ gate \in BeforeCommit => writes = 0
  /\ gate \in BeforeUse => grant # "consumed"
  /\ gate \in {"stage", "commit", "replace"} => grant = "consumed"
  /\ wait \in Negative => gate = "end" /\ writes = 0
  /\ gate \in {"replace", "observe"} => gsub = "running"
DecidedFirst == grant \in {"approved", "consumed"} => said = "approved"
WrittenOnce == writes \in {0, 1} /\ (writes = 1 => grant = "consumed")
\* As long as nobody else writes the file, it tells how often the task did.
FileTells == ~touched => /\ writes = 0 => file = "before"
                         /\ writes = 1 => file = "expected"
LookFenced == look.file # "none" => gsub \in Fenced /\ look.writes = writes
LookTells == look.file # "none" /\ ~touched => (look.file = "expected" <=> writes = 1)
ClaimLooked == claim # "none" => look.file = claim

AppInv == /\ AppTypeOK /\ GateOrder /\ DecidedFirst /\ WrittenOnce /\ FileTells
          /\ LookFenced /\ LookTells /\ ClaimLooked

\* Every step keeps every row in the states its readers know.
LEMMA AppTyped == AppTypeOK /\ [AppNext]_appVars => AppTypeOK'
<1> SUFFICES ASSUME AppTypeOK, [AppNext]_appVars
             PROVE  AppTypeOK'
  OBVIOUS
<1>0. (late' \in BOOLEAN) /\ (notice' \in BOOLEAN) /\ (touched' \in BOOLEAN)
  BY Zenon DEF AppTypeOK, AppNext, Probe, Tool, ProbeIntent, ProbeRequest, ProbeRead, ProbeSettle, Wake, Decide, ApprovalExpires,
     CancelTurn, CancelWait, ClaimTool, Authorize, Consume, Stage, CommitWrite, ReplaceFile, ObserveWrite, RecordTool, RecoverTool,
     Crash, ForeignWrite, ResolveLooks, ResolveRecords, appVars, diskVars
<1> USE <1>0, ApprovedAssumption DEF AppTypeOK, GatePcs, Open, Fenced, diskVars, lookVars
<1>1. CASE Probe
  BY <1>1 DEF Probe, ProbeIntent, ProbeRequest, ProbeRead, ProbeSettle
<1>2. CASE Wake \/ Decide \/ ApprovalExpires
  BY <1>2 DEF Wake, Decide, ApprovalExpires
<1>3. CASE CancelTurn \/ CancelWait
  BY <1>3 DEF CancelTurn, CancelWait
<1>4. CASE ClaimTool \/ Authorize \/ Consume \/ Stage
  BY <1>4 DEF ClaimTool, Authorize, Consume, Stage, Refuse
<1>5. CASE CommitWrite \/ ReplaceFile \/ ObserveWrite
  BY <1>5 DEF CommitWrite, ReplaceFile, ObserveWrite, Refuse
<1>6. CASE RecordTool \/ RecoverTool \/ Crash
  BY <1>6 DEF RecordTool, RecoverTool, Crash
<1>7. CASE ForeignWrite
  BY <1>7 DEF ForeignWrite
<1>8. CASE ResolveLooks \/ ResolveRecords
  BY <1>8 DEF ResolveLooks, ResolveRecords
<1>9. CASE UNCHANGED appVars
  BY <1>9 DEF appVars
<1> QED
  BY <1>1, <1>2, <1>3, <1>4, <1>5, <1>6, <1>7, <1>8, <1>9 DEF AppNext, Tool

\* A task without approvals satisfies the invariant.
LEMMA AppInitial == AppInit => AppInv
<1> SUFFICES ASSUME AppInit PROVE AppInv
  OBVIOUS
<1>0. (late \in BOOLEAN) /\ (notice \in BOOLEAN) /\ (touched \in BOOLEAN)
  BY Zenon DEF AppInit
<1>1. AppTypeOK
  BY <1>0, ApprovedAssumption DEF AppInit, AppTypeOK, GatePcs, Open, Fenced
<1>2. GateOrder /\ DecidedFirst /\ WrittenOnce /\ FileTells
  BY DEF AppInit, GateOrder, DecidedFirst, WrittenOnce, FileTells, BeforeCommit, BeforeUse, Negative
<1>3. LookFenced /\ LookTells /\ ClaimLooked
  BY DEF AppInit, LookFenced, LookTells, ClaimLooked
<1> QED
  BY <1>1, <1>2, <1>3 DEF AppInv

\* Every step keeps the invariant.
LEMMA AppInductive == AppInv /\ [AppNext]_appVars => AppInv'
<1> SUFFICES ASSUME AppInv, [AppNext]_appVars
             PROVE  AppInv'
  OBVIOUS
<1>0. AppTypeOK /\ AppTypeOK'
  <2>1. AppTypeOK
    BY DEF AppInv
  <2> QED
    BY <2>1, AppTyped
<1> USE DEF AppInv, GateOrder, DecidedFirst, WrittenOnce, FileTells, LookFenced, LookTells, ClaimLooked,
        BeforeCommit, BeforeUse, Negative, Open, Fenced, diskVars, lookVars
<1>1. CASE ProbeIntent
  BY <1>0, <1>1 DEF ProbeIntent
<1>2. CASE ProbeRequest
  BY <1>0, <1>2 DEF ProbeRequest
<1>3. CASE ProbeRead
  BY <1>0, <1>3 DEF ProbeRead
<1>4. CASE ProbeSettle
  BY <1>0, <1>4 DEF ProbeSettle
<1>5. CASE Wake
  BY <1>0, <1>5 DEF Wake
<1>6. CASE Decide
  BY <1>0, <1>6 DEF Decide
<1>7. CASE ApprovalExpires
  BY <1>0, <1>7 DEF ApprovalExpires
<1>8. CASE CancelTurn
  BY <1>0, <1>8 DEF CancelTurn
<1>9. CASE CancelWait
  BY <1>0, <1>9 DEF CancelWait
<1>10. CASE ClaimTool
  BY <1>0, <1>10 DEF ClaimTool
<1>11. CASE Authorize
  BY <1>0, <1>11 DEF Authorize, Refuse
<1>12. CASE Consume
  BY <1>0, <1>12 DEF Consume, Spendable, Refuse
<1>13. CASE Stage
  BY <1>0, <1>13 DEF Stage, Refuse
<1>14. CASE CommitWrite
  BY <1>0, <1>14 DEF CommitWrite, CommitScope, InScope, Refuse
<1>15. CASE ReplaceFile
  BY <1>0, <1>15 DEF ReplaceFile
<1>16. CASE ObserveWrite
  BY <1>0, <1>16 DEF ObserveWrite, Refuse
<1>17. CASE RecordTool
  BY <1>0, <1>17 DEF RecordTool
<1>18. CASE RecoverTool
  BY <1>0, <1>18 DEF RecoverTool, InScope
<1>19. CASE Crash
  BY <1>0, <1>19 DEF Crash
<1>20. CASE ForeignWrite
  BY <1>0, <1>20 DEF ForeignWrite
<1>21. CASE ResolveLooks
  BY <1>0, <1>21 DEF ResolveLooks
<1>22. CASE ResolveRecords
  BY <1>0, <1>22 DEF ResolveRecords
<1>23. CASE UNCHANGED appVars
  BY <1>0, <1>23 DEF appVars
<1> QED
  BY <1>1, <1>2, <1>3, <1>4, <1>5, <1>6, <1>7, <1>8, <1>9, <1>10, <1>11, <1>12, <1>13, <1>14, <1>15, <1>16, <1>17,
     <1>18, <1>19, <1>20, <1>21, <1>22, <1>23 DEF AppNext, Probe, Tool

\* The table of waits, grants, plans and claims only holds states its readers know.
THEOREM ApprovedTypes == AppSpec => []AppTypeOK
<1>1. AppInv => AppTypeOK
  BY DEF AppInv
<1> QED
  BY AppInitial, AppInductive, <1>1, PTL DEF AppSpec

\* The invariant says what a write, a refusal and a claim stand for.
LEMMA AppFollows == AppInv => WritesAsApproved
<1> SUFFICES ASSUME AppInv PROVE WritesAsApproved
  OBVIOUS
<1> USE DEF AppInv, GateOrder, DecidedFirst, WrittenOnce, LookFenced, LookTells, ClaimLooked, Negative
<1>1. writes <= 1 /\ (writes = 1 => said = "approved" /\ grant = "consumed")
  OBVIOUS
<1>2. wait \in {"denied", "expired", "cancelled"} => writes = 0
  OBVIOUS
<1>3. look.file # "none" => writes = look.writes
  OBVIOUS
<1>4. claim # "none" /\ ~touched => ((claim = "expected") = (writes = 1))
  OBVIOUS
<1> QED
  BY <1>1, <1>2, <1>3, <1>4 DEF WritesAsApproved

\* The file is replaced at most once, after the human's approval and the use of the grant; a
\* refusal that was recorded stays true, and what a human saw of the file is the task's last
\* word: a recorded claim tells whether it wrote, unless another writer was at the file.
THEOREM WrittenAsApproved == AppSpec => []WritesAsApproved
BY AppInitial, AppInductive, AppFollows, PTL DEF AppSpec

----------------------------------------------------------------------------
(* The budget of a root task *)

\* The sum over the calls, as the recursive function that MapThenSumSet defines.
OneOf(s) == CHOOSE x \in s : TRUE
SumOf(recs, g, s) == IF s = {} THEN 0 ELSE recs[OneOf(s)].tokens + g[s \ {OneOf(s)}]
Sums(recs) == CHOOSE g : g = [s \in SUBSET BudgetCalls |-> SumOf(recs, g, s)]

LEMMA BudgetNumbers ==
  /\ MaxTokens \in Nat /\ MaxRequests \in Nat /\ Estimate \in Nat /\ Excess \in Nat
  /\ 0 \in Tokens /\ Estimate \in Tokens /\ Tokens \subseteq Nat
<1>1. MaxTokens \in Nat /\ MaxRequests \in Nat /\ Estimate \in Nat /\ Excess \in Nat
  BY BudgetAssumption
<1> QED
  BY <1>1 DEF Tokens

\* A set of calls has a size, and without one of its elements it is one smaller.
LEMMA CallSets ==
  ASSUME NEW s \in SUBSET BudgetCalls
  PROVE  /\ IsFiniteSet(s) /\ Cardinality(s) \in Nat /\ Cardinality(s) <= Cardinality(BudgetCalls)
         /\ s # {} => /\ OneOf(s) \in s /\ s \ {OneOf(s)} \in SUBSET BudgetCalls
                      /\ Cardinality(s \ {OneOf(s)}) = Cardinality(s) - 1 /\ Cardinality(s) > 0
<1>1. IsFiniteSet(s) /\ Cardinality(s) <= Cardinality(BudgetCalls)
  BY BudgetAssumption, FS_Subset
<1>2. Cardinality(s) \in Nat /\ (Cardinality(s) = 0 <=> s = {})
  BY <1>1, FS_CardinalityType, FS_EmptySet
<1>3. ASSUME s # {} PROVE OneOf(s) \in s
  BY <1>3 DEF OneOf
<1>4. ASSUME s # {} PROVE Cardinality(s \ {OneOf(s)}) = Cardinality(s) - 1
  BY <1>1, <1>3, <1>4, FS_RemoveElement
<1> QED
  BY <1>1, <1>2, <1>3, <1>4

\* The recursion has a solution: one that is right for the sets of at most n calls gives
\* one that is right for n + 1.
LEMMA SumsDefined ==
  ASSUME NEW recs
  PROVE  Sums(recs) = [s \in SUBSET BudgetCalls |-> SumOf(recs, Sums(recs), s)]
<1> DEFINE Right(g, n) == \A s \in SUBSET BudgetCalls : Cardinality(s) <= n => g[s] = SumOf(recs, g, s)
           None == {n \in Nat : \A g : ~Right(g, n)}
<1>1. ~(0 \in None)
  <2> DEFINE z == [s \in SUBSET BudgetCalls |-> 0]
  <2>1. ASSUME NEW s \in SUBSET BudgetCalls, Cardinality(s) <= 0 PROVE s = {}
    <3>1. Cardinality(s) \in Nat /\ (s # {} => Cardinality(s) > 0)
      BY CallSets
    <3> QED
      BY <2>1, <3>1
  <2>2. Right(z, 0)
    BY <2>1 DEF SumOf
  <2> QED
    BY <2>2
<1>2. ASSUME NEW n \in Nat, n \notin None PROVE n + 1 \notin None
  <2>1. PICK g : Right(g, n)
    BY <1>2
  <2> DEFINE h == [s \in SUBSET BudgetCalls |-> IF Cardinality(s) <= n THEN g[s] ELSE SumOf(recs, g, s)]
  <2>2. \A s \in SUBSET BudgetCalls : h[s] = SumOf(recs, g, s)
    BY <2>1
  <2>3. \A s \in SUBSET BudgetCalls : Cardinality(s) <= n => h[s] = g[s]
    OBVIOUS
  <2>4. ASSUME NEW s \in SUBSET BudgetCalls, Cardinality(s) <= n + 1 PROVE SumOf(recs, g, s) = SumOf(recs, h, s)
    <3> HIDE DEF h
    <3>1. CASE s = {}
      BY <3>1 DEF SumOf
    <3>2. CASE s # {}
      <4>1. /\ s \ {OneOf(s)} \in SUBSET BudgetCalls /\ Cardinality(s \ {OneOf(s)}) = Cardinality(s) - 1
            /\ Cardinality(s) \in Nat
        BY <3>2, CallSets
      <4>2. Cardinality(s \ {OneOf(s)}) <= n
        BY <2>4, <4>1
      <4>3. h[s \ {OneOf(s)}] = g[s \ {OneOf(s)}]
        BY <2>3, <4>1, <4>2
      <4> QED
        BY <4>3 DEF SumOf
    <3> QED
      BY <3>1, <3>2
  <2>5. Right(h, n + 1)
    <3> HIDE DEF h
    <3> QED
      BY <2>2, <2>4
  <2> QED
    BY <2>5
<1>3. None = {}
  <2> SUFFICES ASSUME None # {} PROVE FALSE
    OBVIOUS
  <2>1. None \in SUBSET Nat
    OBVIOUS
  <2> HIDE DEF None
  <2>2. PICK n \in None : \A m \in None : n <= m
    BY <2>1, LeastNumber
  <2>3. n \in Nat /\ n # 0
    BY <1>1, <2>1
  <2>4. n - 1 \in Nat /\ n - 1 < n /\ (n - 1) + 1 = n
    BY <2>3
  <2> QED
    BY <1>2, <2>2, <2>4
<1>4. Cardinality(BudgetCalls) \in Nat
  BY CallSets
<1>5. PICK g : Right(g, Cardinality(BudgetCalls))
  BY <1>3, <1>4
<1> DEFINE f == [s \in SUBSET BudgetCalls |-> g[s]]
<1>6. \A s \in SUBSET BudgetCalls : g[s] = SumOf(recs, g, s)
  BY <1>5, CallSets
<1>7. \A s \in SUBSET BudgetCalls : SumOf(recs, g, s) = SumOf(recs, f, s)
  BY CallSets DEF SumOf
<1>8. f = [s \in SUBSET BudgetCalls |-> SumOf(recs, f, s)]
  BY <1>6, <1>7
<1> HIDE DEF f
<1> QED
  BY <1>8 DEF Sums

\* When the row of one call changes, the sum over any calls changes by what that row does.
LEMMA SumsChange ==
  ASSUME NEW p, NEW q, NEW c \in BudgetCalls,
         \A d \in BudgetCalls : p[d].tokens \in Nat /\ q[d].tokens \in Nat,
         \A d \in BudgetCalls \ {c} : q[d].tokens = p[d].tokens
  PROVE  /\ Sums(p)[BudgetCalls] \in Nat /\ Sums(q)[BudgetCalls] \in Nat
         /\ Sums(q)[BudgetCalls] = (Sums(p)[BudgetCalls] + q[c].tokens) - p[c].tokens
<1> DEFINE G == Sums(p)
           H == Sums(q)
           Part(r, s) == IF c \in s THEN r[c].tokens ELSE 0
           Adds(s) == G[s] \in Nat /\ H[s] \in Nat /\ H[s] + Part(p, s) = G[s] + Part(q, s)
           Bad == {n \in Nat : \E s \in SUBSET BudgetCalls : Cardinality(s) = n /\ ~Adds(s)}
<1>1. \A s \in SUBSET BudgetCalls : G[s] = SumOf(p, G, s) /\ H[s] = SumOf(q, H, s)
  BY SumsDefined
<1> HIDE DEF G, H
<1>2. Bad = {}
  <2> SUFFICES ASSUME Bad # {} PROVE FALSE
    OBVIOUS
  <2>1. Bad \in SUBSET Nat
    OBVIOUS
  <2>2. PICK n \in Bad : \A m \in Bad : n <= m
    <3> HIDE DEF Bad
    <3> QED
      BY <2>1, LeastNumber
  <2>3. PICK s \in SUBSET BudgetCalls : Cardinality(s) = n /\ ~Adds(s)
    BY <2>2
  <2>4. CASE s = {}
    <3>1. G[s] = 0 /\ H[s] = 0
      BY <1>1, <2>4 DEF SumOf
    <3>2. Part(p, s) = 0 /\ Part(q, s) = 0
      BY <2>4
    <3> HIDE DEF Part
    <3> QED
      BY <2>3, <3>1, <3>2
  <2>5. CASE s # {}
    <3> DEFINE x == OneOf(s)
               t == s \ {OneOf(s)}
    <3>1. x \in s /\ t \in SUBSET BudgetCalls /\ Cardinality(t) = Cardinality(s) - 1 /\ Cardinality(s) > 0 /\ Cardinality(t) \in Nat
      BY <2>5, CallSets
    <3>2. Adds(t)
      <4> SUFFICES ASSUME ~Adds(t) PROVE FALSE
        OBVIOUS
      <4>1. Cardinality(t) \in Bad
        BY <3>1
      <4>2. n \in Nat /\ Cardinality(t) < n /\ ~(n <= Cardinality(t))
        BY <2>1, <2>3, <3>1
      <4> HIDE DEF Bad, t
      <4> QED
        BY <2>2, <4>1, <4>2
    <3>3. G[s] = p[x].tokens + G[t] /\ H[s] = q[x].tokens + H[t]
      BY <1>1, <2>5 DEF SumOf
    <3>4. x \in BudgetCalls /\ (c \in t <=> c \in s /\ c # x)
      BY <3>1
    <3> HIDE DEF x, t
    <3>5. Adds(s)
      BY <3>2, <3>3, <3>4, <3>1
    <3> QED
      BY <2>3, <3>5
  <2> QED
    BY <2>4, <2>5
<1>3. Adds(BudgetCalls)
  BY <1>2, CallSets
<1> QED
  BY <1>3 DEF G, H

\* The thread of a call against its row: a request that was made was reserved; what is
\* reserved is not less than the estimate or what the budget was told, what is reported is what
\* it was told last; and the provider tells no more than it has used.
FitsRow(t, r) ==
  /\ t.pc \in {"idle", "slot", "reserve"} => r.st = "none"
  /\ t.pc \in {"sent", "answered", "stream"} => r.st = "reserved"
  /\ t.pc = "sent" => t.used = 0
  /\ r.st = "none" => r.tokens = 0 /\ t.used = 0 /\ t.told = {}
  /\ r.st = "reserved" => \A x \in t.told \cup {Estimate} : x <= r.tokens
  /\ r.st = "reported" => t.told = {r.tokens}
  /\ \A x \in t.told : x <= t.used
  /\ \A x, y \in t.told : x = y
Within == (\A c \in BudgetCalls : call[c].used <= Estimate) => spent.tokens <= MaxTokens
BudInv == /\ BudTypeOK /\ spent.tokens = Sums(paid)[BudgetCalls] /\ Within
          /\ \A c \in BudgetCalls : FitsRow(call[c], paid[c])

LEMMA SumIs == MapThenSumSet(LAMBDA c : paid[c].tokens, BudgetCalls) = Sums(paid)[BudgetCalls]
BY DEF MapThenSumSet, MapThenFoldSet, Sums, SumOf, OneOf

LEMMA BudInitial == BudInit => BudInv
<1> SUFFICES ASSUME BudInit PROVE BudInv
  OBVIOUS
<1> USE BudgetNumbers DEF BudInit
<1>1. BudTypeOK
  <2>1. spent \in [requests : Nat, tokens : Nat] /\ over \in BOOLEAN
    OBVIOUS
  <2>2. call \in [BudgetCalls -> [pc : CallPcs, used : Tokens, told : SUBSET Tokens]]
    BY <2>1 DEF CallPcs
  <2>3. paid \in [BudgetCalls -> [st : {"none", "reserved", "reported"}, tokens : Tokens]]
    BY <2>1
  <2> QED
    BY <2>1, <2>2, <2>3 DEF BudTypeOK
<1>2. Sums(paid)[BudgetCalls] = 0
  <2> DEFINE G == Sums(paid)
             Bad == {n \in Nat : \E s \in SUBSET BudgetCalls : Cardinality(s) = n /\ G[s] # 0}
  <2>1. \A s \in SUBSET BudgetCalls : G[s] = SumOf(paid, G, s)
    BY SumsDefined
  <2> HIDE DEF G
  <2>2. Bad \in SUBSET Nat
    OBVIOUS
  <2>3. Bad = {}
    <3> SUFFICES ASSUME Bad # {} PROVE FALSE
      OBVIOUS
    <3>1. PICK n \in Bad : \A m \in Bad : n <= m
      <4> HIDE DEF Bad
      <4> QED
        BY <2>2, LeastNumber
    <3>2. PICK s \in SUBSET BudgetCalls : Cardinality(s) = n /\ G[s] # 0
      BY <3>1
    <3>3. s # {}
      BY <2>1, <3>2 DEF SumOf
    <3>4. OneOf(s) \in s /\ s \ {OneOf(s)} \in SUBSET BudgetCalls /\ Cardinality(s \ {OneOf(s)}) = n - 1 /\ n - 1 \in Nat
      BY <3>2, <3>3, CallSets
    <3>5. G[s \ {OneOf(s)}] # 0
      <4>1. G[s] = paid[OneOf(s)].tokens + G[s \ {OneOf(s)}]
        BY <2>1, <3>3 DEF SumOf
      <4>2. paid[OneOf(s)].tokens = 0
        BY <3>4
      <4> QED
        BY <3>2, <4>1, <4>2
    <3>6. n - 1 \in Bad /\ ~(n <= n - 1)
      BY <2>2, <3>4, <3>5
    <3> HIDE DEF Bad
    <3> QED
      BY <3>1, <3>6
  <2>4. G[BudgetCalls] = 0
    BY <2>3, CallSets
  <2> QED
    BY <2>4 DEF G
<1>3. \A c \in BudgetCalls : FitsRow(call[c], paid[c])
  BY DEF FitsRow
<1> QED
  BY <1>1, <1>2, <1>3 DEF BudInv, Within
PaidRows == [st : {"none", "reserved", "reported"}, tokens : Tokens]
CallRows == [pc : CallPcs, used : Tokens, told : SUBSET Tokens]
Cells == [BudgetCalls -> {"none", "live", "stale"}]
Watches == [BudgetCalls -> {"none", "on", "closed"}]

\* A thread moves on and its row stays.
LEMMA MoveKeepsBudget ==
  ASSUME BudInv, NEW c \in BudgetCalls, NEW pc \in CallPcs \ {"sent"}, Moves(c, pc), UNCHANGED <<spent, over, paid>>,
         slot' \in Cells, watch' \in Watches,
         pc \in {"idle", "slot", "reserve"} => paid[c].st = "none",
         pc \in {"sent", "answered", "stream"} => paid[c].st = "reserved"
  PROVE  BudInv'
<1>1. call \in [BudgetCalls -> CallRows]
  BY DEF BudInv, BudTypeOK, CallRows
<1>2. /\ call' \in [BudgetCalls -> CallRows] /\ call'[c].pc = pc
      /\ \A d \in BudgetCalls : /\ call'[d].used = call[d].used /\ call'[d].told = call[d].told
                                /\ d # c => call'[d] = call[d]
  BY <1>1 DEF Moves, CallRows
<1>3. BudTypeOK'
  BY <1>2 DEF BudInv, BudTypeOK, CallRows, Cells, Watches
<1>4. spent'.tokens = Sums(paid')[BudgetCalls] /\ Within'
  BY <1>2 DEF BudInv, Within
<1>5. FitsRow(call'[c], paid'[c])
  <2>1. FitsRow(call[c], paid[c])
    BY DEF BudInv
  <2>2. call'[c].pc = pc /\ call'[c].used = call[c].used /\ call'[c].told = call[c].told /\ paid'[c] = paid[c]
    BY <1>2
  <2> QED
    BY <2>1, <2>2 DEF FitsRow
<1>6. \A d \in BudgetCalls : FitsRow(call'[d], paid'[d])
  <2>1. \A d \in BudgetCalls \ {c} : call'[d] = call[d] /\ paid'[d] = paid[d] /\ FitsRow(call[d], paid[d])
    BY <1>2 DEF BudInv
  <2> QED
    BY <1>5, <2>1, Zenon
<1> QED
  BY <1>3, <1>4, <1>6 DEF BudInv

\* A row is written and the budget's row with it.
LEMMA SumFollows ==
  ASSUME BudInv, NEW c \in BudgetCalls, NEW row \in PaidRows, paid' = [paid EXCEPT ![c] = row]
  PROVE  /\ paid' \in [BudgetCalls -> PaidRows] /\ paid'[c] = row /\ \A d \in BudgetCalls \ {c} : paid'[d] = paid[d]
         /\ (spent.tokens + row.tokens) - paid[c].tokens \in Nat
         /\ (spent.tokens + row.tokens) - paid[c].tokens = Sums(paid')[BudgetCalls]
<1>1. paid \in [BudgetCalls -> PaidRows]
  BY DEF BudInv, BudTypeOK, PaidRows
<1>2. /\ paid' \in [BudgetCalls -> PaidRows] /\ paid'[c] = row
      /\ \A d \in BudgetCalls \ {c} : paid'[d] = paid[d]
  BY <1>1
<1> DEFINE q == paid'
<1>3. \A d \in BudgetCalls : paid[d].tokens \in Nat /\ q[d].tokens \in Nat
  BY <1>1, <1>2, BudgetNumbers DEF PaidRows
<1>4. \A d \in BudgetCalls \ {c} : q[d].tokens = paid[d].tokens
  BY <1>2
<1>5. q[c].tokens = row.tokens
  BY <1>2
<1> HIDE DEF q
<1>6. Sums(q)[BudgetCalls] \in Nat /\ Sums(q)[BudgetCalls] = (Sums(paid)[BudgetCalls] + q[c].tokens) - paid[c].tokens
  BY <1>3, <1>4, SumsChange
<1>7. spent.tokens = Sums(paid)[BudgetCalls]
  BY DEF BudInv
<1>8. /\ (spent.tokens + row.tokens) - paid[c].tokens \in Nat
      /\ (spent.tokens + row.tokens) - paid[c].tokens = Sums(q)[BudgetCalls]
  BY <1>5, <1>6, <1>7
<1> QED
  BY <1>2, <1>8 DEF q

\* A thread and its row are written together.
LEMMA ChargeKeepsBudget ==
  ASSUME BudInv, NEW c \in BudgetCalls, NEW row \in PaidRows, NEW crow \in CallRows, FitsRow(crow, row),
         paid' = [paid EXCEPT ![c] = row], call' = [call EXCEPT ![c] = crow],
         spent' \in [requests : Nat, tokens : Int], spent'.tokens = (spent.tokens + row.tokens) - paid[c].tokens,
         UNCHANGED <<over, slot, watch>>, Within'
  PROVE  BudInv'
<1>1. call \in [BudgetCalls -> CallRows]
  BY DEF BudInv, BudTypeOK, CallRows
<1>2. call' \in [BudgetCalls -> CallRows] /\ call'[c] = crow /\ \A d \in BudgetCalls \ {c} : call'[d] = call[d]
  BY <1>1
<1>3. /\ paid' \in [BudgetCalls -> PaidRows] /\ paid'[c] = row /\ \A d \in BudgetCalls \ {c} : paid'[d] = paid[d]
      /\ spent'.tokens \in Nat /\ spent'.tokens = Sums(paid')[BudgetCalls]
  <2>1. /\ paid' \in [BudgetCalls -> PaidRows] /\ paid'[c] = row /\ \A d \in BudgetCalls \ {c} : paid'[d] = paid[d]
        /\ (spent.tokens + row.tokens) - paid[c].tokens \in Nat
        /\ (spent.tokens + row.tokens) - paid[c].tokens = Sums(paid')[BudgetCalls]
    BY SumFollows, Zenon
  <2> QED
    BY <2>1, Zenon
<1>4. spent' \in [requests : Nat, tokens : Nat]
  BY <1>3
<1>5. BudTypeOK'
  BY <1>2, <1>3, <1>4 DEF BudInv, BudTypeOK, CallRows, PaidRows
<1>6. \A d \in BudgetCalls : FitsRow(call'[d], paid'[d])
  <2>1. FitsRow(call'[c], paid'[c])
    BY <1>2, <1>3, Zenon
  <2>2. \A d \in BudgetCalls \ {c} : call'[d] = call[d] /\ paid'[d] = paid[d] /\ FitsRow(call[d], paid[d])
    BY <1>2, <1>3 DEF BudInv
  <2> QED
    BY <2>1, <2>2, Zenon
<1> QED
  BY <1>3, <1>5, <1>6 DEF BudInv

LEMMA ReserveKeepsBudget ==
  ASSUME BudInv, NEW c \in BudgetCalls, Reserve(c)
  PROVE  BudInv'
<1>1. call \in [BudgetCalls -> CallRows] /\ call[c].pc = "reserve"
  BY DEF BudInv, BudTypeOK, CallRows, Reserve, CallAt
<1>2. spent \in [requests : Nat, tokens : Nat] /\ UNCHANGED <<over, slot, watch>> /\ slot \in Cells /\ watch \in Watches
  BY DEF BudInv, BudTypeOK, Reserve, Cells, Watches
<1>3. paid[c].st = "none" /\ paid[c].tokens = 0 /\ call[c].used = 0 /\ call[c].told = {}
  BY <1>1 DEF BudInv, FitsRow
<1>4. CASE Affordable /\ ~over
  <2> DEFINE row == [st |-> "reserved", tokens |-> Estimate]
             crow == [pc |-> "sent", used |-> 0, told |-> {}]
  <2>1. row \in PaidRows /\ crow \in CallRows
    BY BudgetNumbers DEF PaidRows, CallRows, CallPcs
  <2>2. /\ spent' = [requests |-> spent.requests + 1, tokens |-> spent.tokens + Estimate]
        /\ paid' = [paid EXCEPT ![c] = row] /\ Moves(c, "sent")
    BY <1>4 DEF Reserve
  <2>3. call' = [call EXCEPT ![c] = crow]
    <3>1. call[c] \in CallRows
      BY <1>1
    <3>2. [call[c] EXCEPT !.pc = "sent"] = crow
      BY <3>1, <1>3 DEF CallRows
    <3>3. call' = [call EXCEPT ![c] = [call[c] EXCEPT !.pc = "sent"]]
      BY <2>2 DEF Moves
    <3> QED
      BY <3>2, <3>3
  <2>4. spent' \in [requests : Nat, tokens : Int] /\ spent'.tokens = (spent.tokens + row.tokens) - paid[c].tokens
    BY <1>2, <1>3, <2>2, BudgetNumbers
  <2>5. Within'
    BY <1>4, <2>2 DEF Within, Affordable
  <2>6. FitsRow(crow, row)
    BY BudgetNumbers DEF FitsRow
  <2> HIDE DEF row, crow
  <2> QED
    BY <1>2, <2>1, <2>2, <2>3, <2>4, <2>5, <2>6, ChargeKeepsBudget
<1>5. CASE ~(Affordable /\ ~over)
  <2>1. Moves(c, "release") /\ UNCHANGED <<spent, over, paid, slot, watch>>
    BY <1>5 DEF Reserve
  <2> QED
    BY <1>2, <2>1, MoveKeepsBudget DEF CallPcs
<1> QED
  BY <1>4, <1>5

\* Only the amount used changes: the row stays reserved, and it is not less than before.
LEMMA UseKeepsBudget ==
  ASSUME BudInv, NEW c \in BudgetCalls, NEW crow \in CallRows, call' = [call EXCEPT ![c] = crow],
         paid[c].st = "reserved", crow.used >= call[c].used, crow.told \in {{}, call[c].told},
         crow.pc \in {"answered", "release", "stream"}, UNCHANGED <<spent, over, paid, slot, watch>>
  PROVE  BudInv'
<1>1. call \in [BudgetCalls -> CallRows]
  BY DEF BudInv, BudTypeOK, CallRows
<1>2. call' \in [BudgetCalls -> CallRows] /\ call'[c] = crow /\ \A d \in BudgetCalls \ {c} : call'[d] = call[d]
  BY <1>1
<1>3. BudTypeOK'
  BY <1>2 DEF BudInv, BudTypeOK, CallRows
<1>4. Within'
  <2>1. \A d \in BudgetCalls : call[d].used \in Nat /\ call'[d].used \in Nat /\ call'[d].used >= call[d].used
    <3>1. \A d \in BudgetCalls : call[d].used \in Nat /\ call'[d].used \in Nat
      BY <1>1, <1>2, BudgetNumbers DEF CallRows
    <3>2. call'[c].used >= call[c].used
      BY <1>2
    <3> QED
      BY <1>2, <3>1, <3>2
  <2> QED
    BY <2>1, BudgetNumbers DEF BudInv, Within
<1>5. FitsRow(crow, paid[c])
  <2>1. FitsRow(call[c], paid[c])
    BY DEF BudInv
  <2>2. crow.told \subseteq call[c].told
    OBVIOUS
  <2>3. \A x \in crow.told : x <= crow.used
    <3> SUFFICES ASSUME NEW x \in crow.told PROVE x <= crow.used
      OBVIOUS
    <3>1. call[c].told \in SUBSET Tokens /\ call[c].used \in Nat /\ crow.used \in Nat
      BY <1>1, BudgetNumbers DEF CallRows
    <3>2. x \in Nat /\ x <= call[c].used
      BY <2>1, <2>2, <3>1, BudgetNumbers DEF FitsRow
    <3> QED
      BY <3>1, <3>2
  <2> QED
    BY <2>1, <2>2, <2>3 DEF FitsRow
<1>6. \A d \in BudgetCalls : FitsRow(call'[d], paid'[d])
  <2>1. \A d \in BudgetCalls : paid'[d] = paid[d] /\ FitsRow(call[d], paid[d])
    BY DEF BudInv
  <2> QED
    BY <1>2, <1>5, <2>1, Zenon
<1>7. spent'.tokens = Sums(paid')[BudgetCalls]
  BY DEF BudInv
<1> QED
  BY <1>3, <1>4, <1>6, <1>7 DEF BudInv

LEMMA AnsweredKeepsBudget ==
  ASSUME BudInv, NEW c \in BudgetCalls, Answered(c)
  PROVE  BudInv'
<1>1. paid[c].st = "reserved" /\ call[c].used = 0
  BY DEF BudInv, FitsRow, Answered, CallAt
<1>2. PICK used \in Tokens, pc \in {"answered", "release"} :
        call' = [call EXCEPT ![c] = [pc |-> pc, used |-> used, told |-> {}]]
  BY DEF Answered
<1> DEFINE crow == [pc |-> pc, used |-> used, told |-> {}]
<1>3. /\ crow \in CallRows /\ crow.used >= call[c].used /\ crow.pc \in {"answered", "release", "stream"}
      /\ crow.told \in {{}, call[c].told}
  BY <1>1, BudgetNumbers DEF CallRows, CallPcs
<1>4. call' = [call EXCEPT ![c] = crow]
  BY <1>2
<1>5. UNCHANGED <<spent, over, paid, slot, watch>>
  BY DEF Answered
<1> HIDE DEF crow
<1> QED
  BY <1>1, <1>3, <1>4, <1>5, UseKeepsBudget

\* A report: of a stream that goes on, which can only raise the charge; or the last one, which
\* settles it.  It is not more than was used.
LEMMA ReportKeepsBudget ==
  ASSUME BudInv, NEW c \in BudgetCalls, NEW crow \in CallRows, NEW total \in Tokens, NEW settle \in BOOLEAN,
         call' = [call EXCEPT ![c] = crow], paid[c].st = "reserved", crow.used >= call[c].used,
         crow.told = {total}, total <= crow.used,
         crow.pc \in {"stream", "release", "finish"}, crow.pc = "stream" => settle = FALSE,
         ReconcileCall(c, total, settle), UNCHANGED <<over, slot, watch>>
  PROVE  BudInv'
<1>1. call \in [BudgetCalls -> CallRows] /\ paid \in [BudgetCalls -> PaidRows] /\ spent \in [requests : Nat, tokens : Nat]
  BY DEF BudInv, BudTypeOK, CallRows, PaidRows
<1>2. crow.used \in Tokens /\ paid[c].tokens \in Tokens /\ paid[c].tokens >= Estimate
  <2>1. Estimate <= paid[c].tokens
    BY DEF BudInv, FitsRow
  <2>2. crow.used \in Tokens /\ paid[c].tokens \in Tokens /\ paid[c].tokens \in Nat /\ Estimate \in Nat
    BY <1>1, BudgetNumbers DEF CallRows, PaidRows
  <2> QED
    BY <2>1, <2>2
<1>3. \E t \in Tokens, st \in {"reserved", "reported"} :
        /\ st = "reserved" => t >= paid[c].tokens /\ t >= total
        /\ st = "reported" => t = total /\ settle = TRUE
        /\ total <= paid[c].tokens => t <= paid[c].tokens
        /\ paid' = [paid EXCEPT ![c] = [st |-> st, tokens |-> t]]
        /\ spent' = [spent EXCEPT !.tokens = (@ + t) - paid[c].tokens]
  <2>1. CASE settle = TRUE
    <3>1. /\ paid' = [paid EXCEPT ![c] = [st |-> "reported", tokens |-> total]]
          /\ spent' = [spent EXCEPT !.tokens = (@ + total) - paid[c].tokens]
      BY <2>1 DEF ReconcileCall, Charged
    <3> QED
      BY <1>2, <2>1, <3>1
  <2>2. CASE settle = FALSE
    <3> DEFINE t == IF total > paid[c].tokens THEN total ELSE paid[c].tokens
    <3>1. /\ paid' = [paid EXCEPT ![c] = [st |-> "reserved", tokens |-> t]]
          /\ spent' = [spent EXCEPT !.tokens = (@ + t) - paid[c].tokens]
      BY <2>2 DEF ReconcileCall, Charged
    <3>2. t \in Tokens /\ t >= paid[c].tokens /\ t >= total /\ (total <= paid[c].tokens => t <= paid[c].tokens)
      <4>1. total \in Nat /\ paid[c].tokens \in Nat
        BY <1>2, BudgetNumbers
      <4> QED
        BY <1>2, <4>1
    <3> HIDE DEF t
    <3> QED
      BY <3>1, <3>2
  <2> QED
    BY <2>1, <2>2
<1>4. PICK t \in Tokens, st \in {"reserved", "reported"} :
        /\ st = "reserved" => t >= paid[c].tokens /\ t >= total
        /\ st = "reported" => t = total /\ settle = TRUE
        /\ total <= paid[c].tokens => t <= paid[c].tokens
        /\ paid' = [paid EXCEPT ![c] = [st |-> st, tokens |-> t]]
        /\ spent' = [spent EXCEPT !.tokens = (@ + t) - paid[c].tokens]
  BY <1>3, Zenon
<1> DEFINE row == [st |-> st, tokens |-> t]
<1>5. row \in PaidRows /\ row.tokens = t /\ row.st = st /\ paid' = [paid EXCEPT ![c] = row]
  BY <1>4 DEF PaidRows
<1>6. /\ t \in Nat /\ paid[c].tokens \in Nat /\ spent.tokens \in Nat /\ crow.used \in Nat /\ Estimate \in Nat
      /\ MaxTokens \in Nat /\ total \in Nat
  BY <1>1, <1>2, BudgetNumbers
<1>7. spent' \in [requests : Nat, tokens : Int] /\ spent'.tokens = (spent.tokens + t) - paid[c].tokens
  <2>1. (spent.tokens + t) - paid[c].tokens \in Int
    BY <1>6
  <2> QED
    BY <1>1, <1>4, <2>1
<1>8. Within'
  <2> SUFFICES ASSUME \A d \in BudgetCalls : call'[d].used <= Estimate PROVE spent'.tokens <= MaxTokens
    BY DEF Within
  <2>1. call'[c] = crow /\ \A d \in BudgetCalls \ {c} : call'[d] = call[d]
    BY <1>1
  <2>2. crow.used <= Estimate /\ \A d \in BudgetCalls \ {c} : call[d].used <= Estimate
    BY <2>1
  <2>3. call[c].used \in Nat
    BY <1>1, BudgetNumbers DEF CallRows
  <2>4. call[c].used <= Estimate
    BY <1>6, <2>2, <2>3
  <2>5. spent.tokens <= MaxTokens
    BY <2>2, <2>4 DEF BudInv, Within
  <2>6. t <= paid[c].tokens
    BY <1>2, <1>4, <1>6, <2>2
  <2> QED
    BY <1>6, <1>7, <2>5, <2>6
<1>9. FitsRow(crow, row)
  <2>1. row.st = "reserved" => \A x \in crow.told \cup {Estimate} : x <= row.tokens
    BY <1>2, <1>4, <1>5, <1>6
  <2>2. row.st = "reported" => crow.told = {row.tokens}
    BY <1>4, <1>5
  <2>3. row.st # "none" /\ crow.pc \notin {"idle", "slot", "reserve"} /\ crow.pc # "sent"
    BY <1>4, <1>5
  <2>4. crow.pc \in {"sent", "answered", "stream"} => row.st = "reserved"
    BY <1>4, <1>5
  <2> HIDE DEF row
  <2> QED
    BY <2>1, <2>2, <2>3, <2>4 DEF FitsRow
<1> HIDE DEF row
<1> QED
  BY <1>5, <1>7, <1>8, <1>9, ChargeKeepsBudget

LEMMA SettleKeepsBudget ==
  ASSUME BudInv, NEW c \in BudgetCalls, SettleCall(c)
  PROVE  BudInv'
<1>1. /\ paid[c].st = "reserved" /\ call[c] \in CallRows /\ slot \in Cells /\ watch \in Watches
      /\ UNCHANGED <<over, slot, watch>>
  BY DEF BudInv, BudTypeOK, CallRows, Cells, Watches, FitsRow, SettleCall, CallAt
<1>2. CASE Moves(c, "release") /\ UNCHANGED <<spent, paid>>
  BY <1>1, <1>2, MoveKeepsBudget DEF CallPcs
<1>3. CASE /\ ReconcileCall(c, call[c].used, TRUE)
           /\ call' = [call EXCEPT ![c] = [pc |-> "release", used |-> call[c].used, told |-> {call[c].used}]]
  <2> DEFINE total == call[c].used
             crow == [pc |-> "release", used |-> total, told |-> {total}]
  <2>1. total \in Tokens /\ total \in Nat
    BY <1>1, BudgetNumbers DEF CallRows
  <2>2. crow \in CallRows /\ crow.used = total /\ crow.pc = "release" /\ crow.told = {total}
    BY <2>1 DEF CallRows, CallPcs
  <2>3. call' = [call EXCEPT ![c] = crow] /\ ReconcileCall(c, total, TRUE)
    BY <1>3
  <2>4. crow.used >= call[c].used /\ total <= crow.used
    BY <2>1, <2>2
  <2> HIDE DEF crow, total
  <2> QED
    BY <1>1, <2>1, <2>2, <2>3, <2>4, ReportKeepsBudget
<1> QED
  BY <1>2, <1>3 DEF SettleCall

LEMMA EndKeepsBudget ==
  ASSUME BudInv, NEW c \in BudgetCalls, StreamEnds(c)
  PROVE  BudInv'
<1>1. /\ paid[c].st = "reserved" /\ call \in [BudgetCalls -> CallRows] /\ slot \in Cells /\ watch \in Watches
      /\ UNCHANGED <<over, slot, watch>> /\ Moves(c, "finish")
  BY DEF BudInv, BudTypeOK, CallRows, Cells, Watches, FitsRow, StreamEnds, CallAt
<1>2. CASE UNCHANGED <<spent, paid>>
  BY <1>1, <1>2, MoveKeepsBudget DEF CallPcs
<1>3. ASSUME NEW total \in call[c].told, ReconcileCall(c, total, TRUE) PROVE BudInv'
  <2> DEFINE crow == [pc |-> "finish", used |-> call[c].used, told |-> call[c].told]
  <2>1. total \in Tokens /\ call[c].used \in Nat
    BY <1>1, BudgetNumbers DEF CallRows
  <2>2. crow \in CallRows /\ crow.used = call[c].used /\ crow.pc = "finish" /\ crow.told = call[c].told
    BY <1>1 DEF CallRows, CallPcs
  <2>3. call' = [call EXCEPT ![c] = crow]
    <3>1. call[c] \in CallRows
      BY <1>1
    <3>2. [call[c] EXCEPT !.pc = "finish"] = crow
      BY <3>1 DEF CallRows
    <3> QED
      BY <1>1, <3>2 DEF Moves
  <2>4. call[c].told = {total} /\ total <= call[c].used
    BY DEF BudInv, FitsRow
  <2>5. crow.used >= call[c].used /\ total <= crow.used /\ crow.told = {total}
    BY <2>1, <2>2, <2>4
  <2> HIDE DEF crow
  <2> QED
    BY <1>1, <1>3, <2>1, <2>2, <2>3, <2>5, ReportKeepsBudget
<1> QED
  BY <1>2, <1>3 DEF StreamEnds

LEMMA ChunkKeepsBudget ==
  ASSUME BudInv, NEW c \in BudgetCalls, Chunk(c)
  PROVE  BudInv'
<1>1. /\ paid[c].st = "reserved" /\ call[c].pc = "stream" /\ call \in [BudgetCalls -> CallRows]
      /\ UNCHANGED <<over, slot, watch>>
  BY DEF BudInv, BudTypeOK, CallRows, FitsRow, Chunk, CallAt
<1>2. PICK used \in Tokens :
        /\ used >= call[c].used
        /\ \/ call' = [call EXCEPT ![c].used = used] /\ UNCHANGED <<spent, paid>>
           \/ /\ ReconcileCall(c, used, FALSE)
              /\ call' = [call EXCEPT ![c] = [pc |-> IF spent'.tokens > MaxTokens THEN "finish" ELSE "stream",
                                             used |-> used, told |-> {used}]]
  BY DEF Chunk
<1>3. used \in Nat /\ call[c].used \in Nat /\ call[c] \in CallRows
  BY <1>1, BudgetNumbers DEF CallRows
<1>4. CASE call' = [call EXCEPT ![c].used = used] /\ UNCHANGED <<spent, paid>>
  <2> DEFINE crow == [pc |-> "stream", used |-> used, told |-> call[c].told]
  <2>1. crow \in CallRows /\ crow.used = used /\ crow.pc = "stream" /\ crow.told = call[c].told
    BY <1>3 DEF CallRows, CallPcs
  <2>2. call' = [call EXCEPT ![c] = crow]
    <3>1. [call[c] EXCEPT !.used = used] = crow
      BY <1>1, <1>3 DEF CallRows
    <3> QED
      BY <1>4, <3>1
  <2> HIDE DEF crow
  <2> QED
    BY <1>1, <1>2, <1>4, <2>1, <2>2, UseKeepsBudget
<1>5. CASE /\ ReconcileCall(c, used, FALSE)
           /\ call' = [call EXCEPT ![c] = [pc |-> IF spent'.tokens > MaxTokens THEN "finish" ELSE "stream",
                                          used |-> used, told |-> {used}]]
  <2>1. PICK pc \in {"finish", "stream"} : call' = [call EXCEPT ![c] = [pc |-> pc, used |-> used, told |-> {used}]]
    BY <1>5
  <2> DEFINE crow == [pc |-> pc, used |-> used, told |-> {used}]
  <2>2. crow \in CallRows /\ crow.used = used /\ crow.pc = pc /\ crow.told = {used}
    BY DEF CallRows, CallPcs
  <2>3. call' = [call EXCEPT ![c] = crow]
    BY <2>1
  <2>4. used <= used
    BY <1>3
  <2> HIDE DEF crow
  <2> QED
    BY <1>1, <1>2, <1>5, <2>2, <2>3, <2>4, ReportKeepsBudget
<1> QED
  BY <1>2, <1>4, <1>5

\* Nobody's thread moves.
LEMMA OthersKeepBudget ==
  ASSUME BudInv, UNCHANGED <<spent, call, paid>>, over' \in BOOLEAN, slot' \in Cells, watch' \in Watches
  PROVE  BudInv'
BY DEF BudInv, BudTypeOK, Within, Cells, Watches

LEMMA BudgetStep ==
  ASSUME BudInv, [BudNext]_budgetVars
  PROVE  BudInv'
<1>1. slot \in Cells /\ watch \in Watches /\ over \in BOOLEAN
  BY DEF BudInv, BudTypeOK, Cells, Watches
<1>2. CASE TimeIsUp \/ UNCHANGED budgetVars
  BY <1>1, <1>2, OthersKeepBudget DEF TimeIsUp, budgetVars
<1>3. ASSUME NEW c \in BudgetCalls,
             BudStep(c) \/ ReaderLeaves(c) \/ MonitorCloses(c) \/ Killed(c) \/ RenewStops(c)
      PROVE  BudInv'
  <2>1. FitsRow(call[c], paid[c])
    BY DEF BudInv
  <2>2. CASE Begin(c)
    BY <1>1, <2>1, <2>2, MoveKeepsBudget DEF Begin, CallAt, CallPcs, FitsRow
  <2>3. CASE TakeSlot(c)
    <3>1. slot' \in Cells
      BY <1>1, <2>3 DEF TakeSlot, Cells
    <3>2. Moves(c, "end") \/ Moves(c, "reserve")
      BY <2>3 DEF TakeSlot
    <3> QED
      BY <1>1, <2>1, <2>3, <3>1, <3>2, MoveKeepsBudget DEF TakeSlot, CallAt, CallPcs, FitsRow
  <2>4. CASE OpenStream(c)
    <3>1. watch' \in Watches
      BY <1>1, <2>4 DEF OpenStream, Watches
    <3> QED
      BY <1>1, <2>1, <2>4, <3>1, MoveKeepsBudget DEF OpenStream, CallAt, CallPcs, FitsRow
  <2>5. CASE Close(c) /\ UNCHANGED <<spent, over, paid>> /\ (Moves(c, "end") \/ UNCHANGED call)
    <3>1. slot' \in Cells /\ watch' \in Watches
      BY <1>1, <2>5 DEF Close, Cells, Watches
    <3>2. CASE Moves(c, "end")
      BY <2>5, <3>1, <3>2, MoveKeepsBudget DEF CallPcs
    <3>3. CASE UNCHANGED call
      BY <1>1, <2>5, <3>1, <3>3, OthersKeepBudget
    <3> QED
      BY <2>5, <3>2, <3>3
  <2>6. CASE ReaderLeaves(c)
    BY <1>1, <2>6, MoveKeepsBudget DEF ReaderLeaves, CallPcs
  <2>7. CASE Release(c) \/ Killed(c)
    <3>1. slot' \in Cells /\ watch' \in Watches
      BY <1>1, <2>7 DEF Release, Killed, Cells, Watches
    <3>2. Moves(c, "end") /\ UNCHANGED <<spent, over, paid>>
      BY <2>7 DEF Release, Killed
    <3> QED
      BY <3>1, <3>2, MoveKeepsBudget DEF CallPcs
  <2>8. CASE RenewStops(c)
    <3>1. slot' \in Cells
      BY <1>1, <2>8 DEF RenewStops, Cells
    <3> QED
      BY <1>1, <2>8, <3>1, OthersKeepBudget DEF RenewStops
  <2>9. CASE ReaderCloses(c) \/ MonitorCloses(c)
    BY <2>5, <2>9 DEF ReaderCloses, MonitorCloses
  <2> QED
    BY <1>3, <2>2, <2>3, <2>4, <2>6, <2>7, <2>8, <2>9, ReserveKeepsBudget, AnsweredKeepsBudget, SettleKeepsBudget,
       ChunkKeepsBudget, EndKeepsBudget DEF BudStep
<1> QED
  BY <1>2, <1>3 DEF BudNext

LEMMA BudgetFollows == BudInv => BudgetHolds
<1> SUFFICES ASSUME BudInv PROVE BudgetHolds
  OBVIOUS
<1>1. spent.tokens = MapThenSumSet(LAMBDA c : paid[c].tokens, BudgetCalls)
  BY SumIs DEF BudInv
<1>2. \A c \in BudgetCalls : /\ paid[c].st = "reported" => call[c].told = {paid[c].tokens}
                             /\ paid[c].st = "reserved" => \A t \in call[c].told \cup {Estimate} : t <= paid[c].tokens
  BY Zenon DEF BudInv, FitsRow
<1>3. (\A c \in BudgetCalls : call[c].used <= Estimate) => spent.tokens <= MaxTokens
  BY DEF BudInv, Within
<1> QED
  BY <1>1, <1>2, <1>3 DEF BudgetHolds

\* For any number of calls, their threads, monitors and crashes, a budget's row is the sum
\* of its calls, a settled call is charged what the provider said last and an unsettled one no
\* less than its estimate, and no call within its estimate takes the task above max_tokens
\* (TaskBudget.reserve, reconcile, BudgetStream).
THEOREM BudgetHeld == BudSpec => []BudgetHolds
<1>1. BudInit => BudInv
  BY BudInitial
<1>2. BudInv /\ [BudNext]_budgetVars => BudInv'
  BY BudgetStep
<1>3. BudInv => BudgetHolds
  BY BudgetFollows
<1> QED
  BY <1>1, <1>2, <1>3, PTL DEF BudSpec
----------------------------------------------------------------------------
(* The components together *)

\* What holds of each component's rows; they share no variable, so a step of one leaves the
\* others as they are.
StoresInv == /\ StepsInv /\ OnceInv /\ TaskFollows /\ ContractInv /\ KindsInv
             /\ EventsInv /\ MarksTyped
             /\ LifeInv /\ GenFits /\ WipeMarks
             /\ AppInv /\ BudInv
             /\ CollabInv /\ AroundTyped
             /\ EnginesInv /\ MemInv

\* A step of the stores is a step of each component, or leaves it as it is.
LEMMA StepsApart ==
  ASSUME [Next]_storesVars
  PROVE  /\ [StepsNext]_stepsVars /\ [PubNext]_pubVars /\ [LifeNext]_lifeVars /\ [AppNext]_appVars /\ [BudNext]_budgetVars
         /\ [CollabNext]_collabVars /\ [SchedNext]_schedVars /\ [MemNext]_memoryVars
BY DEF Next, storesVars, InSteps, InEvents, InWorkspaces, InApprovals, InBudgets, InCollabs, InSchedules, InMemory

\* The invariant holds whichever component runs.
LEMMA StoresAlways == SafeSpec => []StoresInv
<1>1. Init => StoresInv
  <2> SUFFICES ASSUME Init PROVE StoresInv
    OBVIOUS
  <2>1. StepsInit /\ PubInit /\ LifeInit /\ AppInit /\ BudInit /\ CollabInit /\ SchedInit /\ MemInit
    BY DEF Init
  <2> QED
    BY <2>1, StepsInitial, OnceInitial, FollowsInitial, ContractInitial, KindsInitial, EventsInitial, MarksInitial, LifeInitial, BoundsInitial, AppInitial,
       BudInitial, CollabInitial, AroundInitial, EnginesInit, ScheduleAssumption, MemStarts DEF StoresInv
<1>2. StoresInv /\ [Next]_storesVars => StoresInv'
  <2> SUFFICES ASSUME StoresInv, [Next]_storesVars PROVE StoresInv'
    OBVIOUS
  <2>1. /\ [StepsNext]_stepsVars /\ [PubNext]_pubVars /\ [LifeNext]_lifeVars /\ [AppNext]_appVars /\ [BudNext]_budgetVars
        /\ [CollabNext]_collabVars /\ [SchedNext]_schedVars /\ [MemNext]_memoryVars
    BY StepsApart
  <2>2. StepsInv' /\ OnceInv' /\ TaskFollows' /\ ContractInv' /\ KindsInv'
    BY <2>1, StepsInductive, OnceInductive, FollowsInductive, ContractInductive, KindsInductive DEF StoresInv
  <2>3. EventsInv' /\ MarksTyped' /\ LifeInv' /\ GenFits' /\ WipeMarks'
    BY <2>1, EventsStep, MarksStep, LifeStep, GenStep, WipeMarksStep DEF StoresInv
  <2>4. AppInv' /\ BudInv' /\ CollabInv' /\ AroundTyped'
    BY <2>1, AppInductive, BudgetStep, CollabStep, AroundStep DEF StoresInv
  <2>5. EnginesInv' /\ MemInv'
    BY <2>1, EnginesStep, ScheduleAssumption, MemStep DEF StoresInv
  <2> QED
    BY <2>2, <2>3, <2>4, <2>5 DEF StoresInv
<1> QED
  BY <1>1, <1>2, PTL DEF SafeSpec

\* StoresTypeOK: every submission, Activity, event, directory, plan, budget, node, schedule,
\* occurrence, memory job and thread has a state the code knows, within the bounds the model
\* puts on retries, generations and claims.
THEOREM StoresTyped == SafeSpec => []StoresTypeOK
<1>1. StoresInv => StepsTypeOK /\ MemTypeOK
  BY StepsTypes, MemInvTypes DEF StoresInv
<1>2. StoresInv => PubTypeOK
  BY DEF StoresInv, EventsInv, PubTyped, JournalRows, StreamRows, RoundRows, ErasureFits, WipeRows, MarksTyped, PubTypeOK
<1>3. StoresInv => LifeTypeOK
  <2> SUFFICES ASSUME StoresInv PROVE LifeTypeOK
    OBVIOUS
  <2>1. sess \in [Sessions -> {"active", "deleting", "deleted"}] /\ dir \in DirRows /\ dir.gen \in 1..(MaxGen + 2)
        /\ disk \in DiskRows /\ disk.ver <= MaxWrites /\ worker \in [Plans -> WorkerRows]
        /\ plan \in [Plans -> PlanRows] /\ \A p \in Plans : plan[p].ver <= MaxWrites
    BY DEF StoresInv, LifeInv, LifeTyped, GenFits
  <2>2. dir \in [st : DirStates, gen : 1..(MaxGen + 2), temporary : BOOLEAN, refs : SUBSET Sessions]
    BY <2>1 DEF DirRows
  <2>3. disk \in [at : {"source", "archive", "partial", "none"}, ver : 0..MaxWrites]
    BY <2>1, LifecycleAssumption DEF DiskRows
  <2>4. ASSUME NEW p \in Plans
        PROVE  plan[p] \in [action : PlanActions, items : BOOLEAN, gen : Nat, refs : SUBSET Sessions, from : DirStates,
                            ver : 0..MaxWrites, st : {"none", "preview", "executing", "completed"},
                            op : {"none", "running", "blocked", "completed"}]
    <3>1. plan[p] \in PlanRows /\ plan[p].ver <= MaxWrites
      BY <2>1
    <3>2. plan[p].ver \in 0..MaxWrites
      BY <3>1, LifecycleAssumption DEF PlanRows
    <3> QED
      BY <3>1, <3>2 DEF PlanRows
  <2>5. plan \in [Plans -> [action : PlanActions, items : BOOLEAN, gen : Nat, refs : SUBSET Sessions, from : DirStates,
                            ver : 0..MaxWrites, st : {"none", "preview", "executing", "completed"},
                            op : {"none", "running", "blocked", "completed"}]]
    BY <2>1, <2>4
  <2> QED
    BY <2>1, <2>2, <2>3, <2>5 DEF StoresInv, WipeMarks, WorkerRows, LifeTypeOK
<1>4. StoresInv => AppTypeOK /\ BudTypeOK /\ SchedTypeOK
  BY DEF StoresInv, AppInv, BudInv, EnginesInv
<1>5. StoresInv => CollabTypeOK
  BY DEF StoresInv, CollabInv, CollabTyped, NodeRows, ChildRows, AroundTyped, CollabTypeOK
<1> QED
  BY <1>1, <1>2, <1>3, <1>4, <1>5, StoresAlways, PTL DEF StoresTypeOK

\* What is proved of each component holds of all of them together: operations, slots, jobs and
\* writes happen once and as approved, events in order, budgets are the sums of their calls,
\* and what was stopped or erased stays so.
THEOREM StoresSafe == SafeSpec => [](/\ OperationOnce /\ PublishedInOrder /\ WritesAsApproved /\ BudgetHolds
                                     /\ ScheduledOnce /\ OffStaysOff /\ BegunOnce /\ ErasedFallsSilent)
<1>1. StoresInv => OperationOnce
  BY DEF StoresInv, OnceInv, CalledClaimed, OperationOnce
<1>2. StoresInv => PublishedInOrder /\ WritesAsApproved /\ BudgetHolds
  BY BudgetFollows, AppFollows DEF StoresInv, EventsInv
<1>3. StoresInv => ScheduledOnce /\ OffStaysOff
  BY StoppedFollows DEF StoresInv, EnginesInv, EngineInv, SlotInv, SlotKept, ScheduledOnce
<1>4. StoresInv => BegunOnce /\ ErasedFallsSilent
  BY DEF StoresInv, MemInv, BegunInv, JobsOK, BegunOnce, Counted, SilentInv, ErasePhases, Muted, Silenced, ErasedFallsSilent
<1> QED
  BY <1>1, <1>2, <1>3, <1>4, StoresAlways, PTL

\* So does what is proved of their steps: nothing late is accepted, nothing comes back after an
\* erasure, files are destroyed and results merged as they were seen, and a submission keeps the
\* contract of a durable task.
THEOREM StoresStepsSafe ==
  SafeSpec => LateResultsRefused /\ NothingAfterErasure /\ DestroyedAsApproved /\ MergedAsReviewed /\ ContractKept
<1>1. Init => Contract!ContractInit
  BY DEF Init, StepsInit, Contract!ContractInit, Made
<1>2. StoresInv /\ [Next]_storesVars
      => [(sub \in {"cancelled", "uncertain"}) =>
           /\ sub' = sub /\ run' = run
           /\ \A o \in StepIds : ops'[o] \in {"running", "completed"} => ops'[o] = ops[o]
           /\ tk' # tk => tk'.st = "cancelled"]_stepsVars
  BY StepsApart, NextRefused DEF StoresInv, Refuses, OpsRefused, DecidedAgainst
<1>3. StoresInv /\ [Next]_storesVars => [wiped => UNCHANGED <<stream, told>> /\ journal' \in {journal, <<>>}]_pubVars
  BY StepsApart, SilentAfterErasure DEF StoresInv
<1>4. StoresInv /\ [Next]_storesVars =>
        [(disk'.at # disk.at /\ disk'.at \in {"partial", "none"}) =>
           /\ dir.temporary /\ dir.refs \subseteq {"A"}
           /\ \E p \in Plans : Deletes(p) /\ plan[p].op # "none" /\ plan[p].ver = disk.ver /\ plan[p].items]_lifeVars
  BY StepsApart, PurgesAsApproved DEF StoresInv
<1>5. StoresInv /\ StoresInv' /\ [Next]_storesVars =>
        [/\ merges' <= 1
         /\ (node'["coder"].st = "merged" /\ node["coder"].st # "merged")
              => /\ node["coder"].st = "merging" /\ merger.wrote = Files
                 /\ review.ok /\ review.of = commit]_collabVars
  <2>1. StoresInv' => merges' <= 1
    BY DEF StoresInv, CollabInv, CollabTyped, OneMerge
  <2> QED
    BY <2>1, StepsApart, MergesAsReviewed DEF StoresInv
<1>6. StoresInv /\ [Next]_storesVars => [Contract!ContractNext]_(Contract!contractVars)
  BY StepsApart, StepsImplement DEF StoresInv, ContractStep
<1> QED
  BY StoresAlways, <1>1, <1>2, <1>3, <1>4, <1>5, <1>6, PTL
     DEF SafeSpec, LateResultsRefused, NothingAfterErasure, DestroyedAsApproved, MergedAsReviewed, ContractKept, Contract!ContractSpec
=============================================================================
