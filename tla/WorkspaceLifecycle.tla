------------------------- MODULE WorkspaceLifecycle -------------------------
(****************************************************************************)
(* A managed directory and the conversations that refer to it               *)
(* (workspace_lifecycle/store.py), the operations a human approved on it    *)
(* (operations.py): archive, restore, deletion of the session, each a       *)
(* frozen plan that a crashed worker's successor resumes, and the erasure   *)
(* of the session's data once the files are gone (erasure.py).              *)
(****************************************************************************)
EXTENDS Naturals, FiniteSets

CONSTANTS
  Plans,       \* previews one conversation may ask for
  MaxGen,      \* bound on the directory's generation
  MaxWrites,   \* bound on the writes into the directory
  MaxFails     \* bound on the crashes of workers

ASSUME LifecycleAssumption == MaxGen \in Nat \ {0} /\ MaxWrites \in Nat /\ MaxFails \in Nat

VARIABLES
  sess,    \* wl_sessions.state of the two conversations of one user
  dir,     \* wl_directories: state, generation, purpose, and wl_refs
  disk,    \* where the directory's files are and which contents they have
  plan,    \* wl_plans with wl_operations.state
  worker,  \* the worker of each operation, and whether it holds wl_leases
  data,    \* wl_outbox.state of the session "A"
  task,    \* whether a task of "A" is running
  ext,     \* whether a schedule, a memory worker or a transport still works for "A"
  fails

lifeVars == <<sess, dir, disk, plan, worker, data, task, ext, fails>>

Sessions == {"A", "B"}
PlanActions == {"archive", "restore", "delete_session"}
MovingStates == {"active", "archiving", "quarantining"}
DirStates == MovingStates \union {"restoring", "archived", "purge_pending", "purging", "purged"}
NoPlan == [action |-> "archive", items |-> FALSE, gen |-> 0, refs |-> {}, from |-> "active", ver |-> 0,
           st |-> "none", op |-> "none"]

LifeInit ==
  /\ sess = [s \in Sessions |-> "active"]
  /\ dir \in [st : {"active"}, gen : {1}, temporary : BOOLEAN, refs : {{"A"}}]
  /\ disk = [at |-> "source", ver |-> 0]
  /\ plan = [p \in Plans |-> NoPlan]
  /\ worker = [p \in Plans |-> [pc |-> "idle", lease |-> FALSE]]
  /\ data = "none" /\ task = FALSE /\ ext \in BOOLEAN /\ fails = 0

----------------------------------------------------------------------------
(* The conversations *)

\* Mutant of Frozen: only what is already deleted is refused.
FrozenLate == \E s \in dir.refs : sess[s] = "deleted"

\* A referencing conversation is being deleted.
Frozen == \E s \in dir.refs : sess[s] # "active"

Attach ==
  /\ sess["B"] = "active" /\ dir.st \in {"active", "archived"} /\ ~Frozen /\ dir.gen < MaxGen
  /\ dir' = [dir EXCEPT !.refs = @ \union {"B"}, !.gen = @ + 1]
  /\ UNCHANGED <<sess, disk, plan, worker, data, task, ext, fails>>

Retain ==
  /\ sess["B"] = "active" /\ dir.st \in {"active", "archived"} /\ ~Frozen /\ dir.gen < MaxGen
  /\ dir' = [dir EXCEPT !.temporary = FALSE, !.gen = @ + 1]
  /\ UNCHANGED <<sess, disk, plan, worker, data, task, ext, fails>>

TaskTurns ==
  /\ task \/ sess["A"] = "active"
  /\ task' = ~task
  /\ UNCHANGED <<sess, dir, disk, plan, worker, data, ext, fails>>

\* assert_access(write=True), then the write of a tool.
Write ==
  /\ dir.st = "active" /\ disk.at = "source" /\ disk.ver < MaxWrites
  /\ (task /\ sess["A"] = "active" /\ "A" \in dir.refs) \/ (sess["B"] = "active" /\ "B" \in dir.refs)
  /\ disk' = [disk EXCEPT !.ver = @ + 1]
  /\ UNCHANGED <<sess, dir, plan, worker, data, task, ext, fails>>

ExternalEnds ==
  /\ ext /\ ext' = FALSE
  /\ UNCHANGED <<sess, dir, disk, plan, worker, data, task, fails>>

\* preview with request and the human's decision; a shared or retained directory is kept.
Preview(p) ==
  /\ plan[p].st = "none" /\ sess["A"] = "active" /\ ~task /\ ~ext
  /\ \E action \in PlanActions :
       LET item == (dir.temporary \/ action = "restore") /\ dir.refs = {"A"} IN
       /\ item \/ action = "delete_session"
       /\ item => dir.st \in CASE action = "archive" -> {"active"}
                               [] action = "restore" -> {"archived"}
                               [] OTHER -> {"active", "archived"}
       /\ plan' = [plan EXCEPT ![p] = [action |-> action, items |-> item, gen |-> dir.gen, refs |-> dir.refs,
                                       from |-> dir.st, ver |-> disk.ver, st |-> "preview", op |-> "none"]]
  /\ UNCHANGED <<sess, dir, disk, worker, data, task, ext, fails>>

\* check_items, in the transaction that starts the operation.
Checked(p) ==
  /\ sess["A"] = "active" /\ ~task /\ ~ext
  /\ dir.gen = plan[p].gen /\ dir.refs = plan[p].refs
  /\ plan[p].items => dir.st = plan[p].from /\ disk.ver = plan[p].ver

Deletes(p) == plan[p].action = "delete_session"

ExecutePlan(p) ==
  /\ plan[p].st = "preview" /\ Checked(p)
  /\ plan' = [plan EXCEPT ![p].st = "executing", ![p].op = "running"]
  /\ IF Deletes(p) THEN sess' = [sess EXCEPT !["A"] = "deleting"] /\ data' = "pending"
                   ELSE UNCHANGED <<sess, data>>
  /\ UNCHANGED <<dir, disk, worker, task, ext, fails>>

----------------------------------------------------------------------------
(* The worker of an operation: resume *)

AtStage(p, pc) == worker[p].pc = pc
To(p, pc) == worker' = [worker EXCEPT ![p].pc = pc]
\* An exception: the operation is blocked, the lease given back.
Blocked(p) ==
  /\ plan' = [plan EXCEPT ![p].op = "blocked"] /\ worker' = [worker EXCEPT ![p] = [pc |-> "idle", lease |-> FALSE]]
OnlyWorker == UNCHANGED <<sess, dir, disk, plan, data, task, ext, fails>>

Resume(p) ==
  /\ AtStage(p, "idle") /\ plan[p].op \in {"running", "blocked"} /\ ~worker[p].lease
  /\ worker' = [worker EXCEPT ![p] = [pc |-> IF Deletes(p) THEN "guard" ELSE "item", lease |-> TRUE]]
  /\ OnlyWorker

\* guard_session, begin_session_deletion, disable_schedules, external_blockers
Guard(p) ==
  /\ AtStage(p, "guard")
  /\ IF ext THEN Blocked(p) ELSE To(p, "item") /\ UNCHANGED plan
  /\ UNCHANGED <<sess, dir, disk, data, task, ext, fails>>

Final(p) == CASE plan[p].action = "restore" -> "active" [] plan[p].action = "archive" -> "archived" [] OTHER -> "purged"
Doing(p) == CASE plan[p].action = "restore" -> "restoring" [] plan[p].action = "archive" -> "archiving"
              [] OTHER -> "quarantining"
Origin(p) == IF plan[p].action = "restore" THEN "archive" ELSE "source"
Target(p) == IF plan[p].action = "restore" THEN "source" ELSE "archive"

\* The item's row; the intent to move is committed before the move.
Item(p) ==
  /\ AtStage(p, "item")
  /\ \/ /\ ~plan[p].items \/ (dir.st = Final(p) /\ dir.gen > plan[p].gen)
        /\ To(p, "finish") /\ UNCHANGED <<dir, plan>>
     \/ /\ plan[p].items /\ ~(dir.st = Final(p) /\ dir.gen > plan[p].gen)
        /\ IF dir.gen # plan[p].gen \/ (~dir.temporary /\ plan[p].action # "restore")
             THEN Blocked(p) /\ UNCHANGED dir
             ELSE /\ UNCHANGED plan
                  /\ IF plan[p].action = "restore" \/ dir.st \in MovingStates
                       THEN dir' = [dir EXCEPT !.st = Doing(p)] /\ To(p, "move")
                       ELSE UNCHANGED dir /\ To(p, IF Deletes(p) THEN "purge" ELSE "done")
  /\ UNCHANGED <<sess, disk, data, task, ext, fails>>

\* The tree is pinned, its digest compared, the move made under the lock.
MoveItem(p) ==
  /\ AtStage(p, "move")
  /\ IF disk.at \notin {Origin(p), Target(p)} \/ disk.ver # plan[p].ver
       THEN Blocked(p) /\ UNCHANGED disk
       ELSE disk' = [disk EXCEPT !.at = Target(p)] /\ To(p, "moved") /\ UNCHANGED plan
  /\ UNCHANGED <<sess, dir, data, task, ext, fails>>

Moved(p) ==
  /\ AtStage(p, "moved")
  /\ dir' = [dir EXCEPT !.st = IF Deletes(p) THEN "purge_pending" ELSE Final(p)]
  /\ To(p, IF Deletes(p) THEN "purge" ELSE "done")
  /\ UNCHANGED <<sess, disk, plan, data, task, ext, fails>>

\* Only the approved contents, or what a partial purge left of them.
Purgeable(p) == disk.ver = plan[p].ver

Purge(p) ==
  /\ AtStage(p, "purge")
  /\ CASE disk.at \in {"archive", "partial"} /\ Purgeable(p) ->
            dir' = [dir EXCEPT !.st = "purging"] /\ To(p, "purging") /\ UNCHANGED plan
       [] disk.at = "none" /\ dir.st = "purging" -> To(p, "done") /\ UNCHANGED <<dir, plan>>
       [] OTHER -> Blocked(p) /\ UNCHANGED dir
  /\ UNCHANGED <<sess, disk, data, task, ext, fails>>

\* locked.purge, which may stop half-way
Purging(p) ==
  /\ AtStage(p, "purging")
  /\ \/ disk' = [disk EXCEPT !.at = "none"] /\ To(p, "done") /\ UNCHANGED <<plan, fails>>
     \/ fails < MaxFails /\ fails' = fails + 1 /\ disk' = [disk EXCEPT !.at = "partial"] /\ Blocked(p)
  /\ UNCHANGED <<sess, dir, data, task, ext>>

ItemDone(p) ==
  /\ AtStage(p, "done") /\ dir.gen <= MaxGen
  /\ dir' = [dir EXCEPT !.st = Final(p), !.gen = @ + 1] /\ To(p, "finish")
  /\ UNCHANGED <<sess, disk, plan, data, task, ext, fails>>

Finish(p) ==
  /\ AtStage(p, "finish")
  /\ plan' = [plan EXCEPT ![p].st = "completed", ![p].op = "completed"]
  /\ worker' = [worker EXCEPT ![p] = [pc |-> "idle", lease |-> FALSE]]
  /\ IF Deletes(p)
       THEN /\ dir' = [dir EXCEPT !.refs = @ \ {"A"}, !.gen = IF plan[p].items THEN @ ELSE @ + 1]
            /\ data' = "ready"
       ELSE UNCHANGED <<dir, data>>
  /\ UNCHANGED <<sess, disk, task, ext, fails>>

\* The worker dies; its lease of 600 seconds stays, and runs out.
WorkerDies(p) ==
  /\ ~AtStage(p, "idle") /\ fails < MaxFails /\ fails' = fails + 1
  /\ To(p, "idle")
  /\ UNCHANGED <<sess, dir, disk, plan, data, task, ext>>

\* Mutant of LeaseEnds: a lease is only given back.
LeaseKept(p) == FALSE /\ OnlyWorker /\ UNCHANGED worker

LeaseEnds(p) ==
  /\ AtStage(p, "idle") /\ worker[p].lease
  /\ worker' = [worker EXCEPT ![p].lease = FALSE]
  /\ OnlyWorker

\* erasure.finalize: transports, schedules, memory, Temporal rows, then the session.
EraseSession ==
  /\ data = "ready" /\ ~ext
  /\ data' = "completed" /\ sess' = [sess EXCEPT !["A"] = "deleted"]
  /\ UNCHANGED <<dir, disk, plan, worker, task, ext, fails>>

----------------------------------------------------------------------------
WorkerSteps(p) ==
  \/ Resume(p) \/ Guard(p) \/ Item(p) \/ MoveItem(p) \/ Moved(p) \/ Purge(p) \/ Purging(p) \/ ItemDone(p)
  \/ Finish(p) \/ LeaseEnds(p)

LifeNext ==
  \/ Attach \/ Retain \/ TaskTurns \/ Write \/ ExternalEnds \/ EraseSession
  \/ \E p \in Plans : Preview(p) \/ ExecutePlan(p) \/ WorkerSteps(p) \/ WorkerDies(p)

\* The client resumes a blocked or interrupted cleanup; external work ends.
LifeFairness ==
  /\ WF_lifeVars(ExternalEnds) /\ WF_lifeVars(EraseSession)
  /\ \A p \in Plans : WF_lifeVars(WorkerSteps(p))

LifeSpec == LifeInit /\ [][LifeNext]_lifeVars /\ LifeFairness

----------------------------------------------------------------------------
(* Properties *)

LifeTypeOK ==
  /\ sess \in [Sessions -> {"active", "deleting", "deleted"}]
  /\ dir \in [st : DirStates, gen : 1..(MaxGen + 2), temporary : BOOLEAN, refs : SUBSET Sessions]
  /\ disk \in [at : {"source", "archive", "partial", "none"}, ver : 0..MaxWrites]
  /\ plan \in [Plans -> [action : PlanActions, items : BOOLEAN, gen : Nat, refs : SUBSET Sessions, from : DirStates,
                         ver : 0..MaxWrites, st : {"none", "preview", "executing", "completed"},
                         op : {"none", "running", "blocked", "completed"}]]
  /\ worker \in [Plans -> [pc : {"idle", "guard", "item", "move", "moved", "purge", "purging", "done", "finish"},
                           lease : BOOLEAN]]
  /\ data \in {"none", "pending", "ready", "completed"} /\ task \in BOOLEAN /\ ext \in BOOLEAN /\ fails \in 0..MaxFails

\* Files are destroyed only as the human saw them: by an approved deletion, with the
\* contents of its preview, in a temporary directory no other conversation refers to,
\* whatever the other operations, attachments and writes since (check_items, resume).
DestroyedAsApproved ==
  [][(disk'.at # disk.at /\ disk'.at \in {"partial", "none"}) =>
       /\ dir.temporary /\ dir.refs \subseteq {"A"}
       /\ \E p \in Plans : Deletes(p) /\ plan[p].op # "none" /\ plan[p].ver = disk.ver /\ plan[p].items]_lifeVars

\* A deletion that was approved and started ends with the session's data erased, whichever
\* worker dies on the way (resume, finalize), unless it was overtaken: ExecutePlan looks at the
\* generation once, and a plan started before it, interrupted then and resumed now, raises it.  No
\* resumption of the frozen list gets past that (operations.py:169).
Deleting == sess["A"] = "deleting"
Deleted == sess["A"] = "deleted"
Overtaken == \E p \in Plans : /\ Deletes(p) /\ plan[p].items /\ plan[p].op \in {"running", "blocked"}
                              /\ dir.gen > plan[p].gen /\ dir.st # "purged"
=============================================================================
