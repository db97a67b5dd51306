---------------------------- MODULE Collaboration ----------------------------
(****************************************************************************)
(* A coder, its reviewer and the merge of its result (coordinator.py,       *)
(* coordinator_worker.py): nodes in a table, leases of ninety seconds, a    *)
(* subprocess per claim, the durable task each subprocess runs, and the     *)
(* delivery of the reviewed commit file by file into the parent's           *)
(* workspace.  The durable task is seen through what the coordinator reads  *)
(* of it; its own protocol is TaskLease.                                    *)
(****************************************************************************)
EXTENDS Naturals

CONSTANTS
  MaxClaims,    \* bound on how often a node is claimed; recover gives up after three
  MaxAnswers,   \* bound on the human's answers
  Files         \* what the result changes

ASSUME CollabAssumption == MaxClaims \in Nat /\ MaxAnswers \in Nat

VARIABLES
  node,     \* agent_nodes: state, lease (the number of the claim, 0 for none), live, attempts
  child,    \* the node's durable task, and the claim that holds it
  proc,     \* subprocess of each claim of each node
  commit,   \* the coder's result, by the claim that published it
  review,   \* the reviewer: the commit it was given, and whether it approved it
  merger,   \* the process that merges: its state and the files it has written
  tree,     \* the parent's workspace by file: "old", "new", "other"
  merges,   \* how often a merge was started
  halted,   \* the root task was stopped, or the node's deadline has passed
  service,  \* the CoordinatorService: "first", "down", "again"; it dies once (bound)
  answers

collabVars == <<node, child, proc, commit, review, merger, tree, merges, halted, service, answers>>

Nodes == {"coder", "reviewer"}
Claims == 1..MaxClaims
Merge == MaxClaims + 1  \* the lease of the merge
Resting == {"completed", "reviewed", "merged", "failed", "rejected", "cancelled", "timed_out", "needs_input",
            "needs_resolution", "conflict"}
Stopped == {"failed", "rejected", "cancelled", "timed_out", "needs_input", "needs_resolution"}
NodeStates == Resting \union {"absent", "queued", "running", "cancel_requested", "review_pending", "merging"}
Served == service # "down"
NoMerge == [st |-> "none", wrote |-> {}]

CollabInit ==
  /\ node = [n \in Nodes |-> [st |-> "absent", lease |-> 0, live |-> FALSE, tries |-> 0]]
  /\ child = [n \in Nodes |-> [st |-> "none", by |-> 0]]
  /\ proc = [n \in Nodes |-> [t \in Claims |-> "none"]]
  /\ commit = 0 /\ review = [of |-> 0, ok |-> FALSE]
  /\ merger = NoMerge /\ tree = [f \in Files |-> "old"] /\ merges = 0
  /\ halted = FALSE /\ service = "first" /\ answers = 0

Put(n, st) == [node EXCEPT ![n].st = st]
Ends(n, st) == [node EXCEPT ![n].st = st, ![n].lease = 0, ![n].live = FALSE]
OnlyNodes == UNCHANGED <<proc, commit, review, merger, tree, merges, halted, service, answers>>

\* The other node follows a reviewer that stopped: its coder is rejected.
Rejects(nodes) == [nodes EXCEPT !["coder"].st = IF @ = "review_pending" /\ nodes["reviewer"].st \in Stopped
                                                  THEN "rejected" ELSE @]

\* submit, insert: refused once the root's deadline has passed.
Submits ==
  /\ node["coder"].st = "absent" /\ ~halted
  /\ node' = Put("coder", "queued")
  /\ UNCHANGED child /\ OnlyNodes

----------------------------------------------------------------------------
(* The service: tick, with recover, claim and ensure_review *)

Fence(n) == [child EXCEPT ![n] = IF @.st = "running" THEN [st |-> "pending", by |-> 0] ELSE @]

\* What recover makes of one row; the same state when it leaves the row alone.
Recovered(n) ==
  LET row == node[n] IN
  CASE row.st = "merging" -> IF row.live THEN "merging" ELSE "needs_resolution"
    [] row.st = "cancel_requested" \/ (halted /\ row.st \in {"queued", "running"}) ->
         IF row.live THEN "cancel_requested" ELSE "cancelled"
    [] row.st = "running" /\ ~row.live /\ ~halted ->
         IF child[n].st = "tool" THEN "needs_resolution"
         ELSE IF child[n].st = "suspended" THEN "needs_input"
         ELSE IF child[n].st = "failed" THEN "failed"
         ELSE IF row.tries >= 3 THEN "failed" ELSE "queued"
    [] OTHER -> row.st

RecoverNodes ==
  LET rows == [n \in Nodes |-> [node[n] EXCEPT !.st = Recovered(n)]] IN
  /\ Served /\ Rejects(rows) # node
  /\ node' = Rejects(rows)
  /\ child' = [n \in Nodes |-> IF rows[n].st = "queued" /\ node[n].st = "running" THEN Fence(n)[n] ELSE child[n]]
  /\ OnlyNodes

\* claim: the child's lease is over, the dependencies allow it; a subprocess is started.
Ready(n) == n = "coder" \/ node["coder"].st \in {"review_pending", "completed", "reviewed", "merged"}
ClaimNode(n) ==
  /\ Served /\ ~halted /\ node[n].st = "queued" /\ child[n].st # "running" /\ node[n].tries < MaxClaims
  /\ LET t == node[n].tries + 1 IN
     IF n = "reviewer" /\ node["coder"].st \in Stopped \union {"conflict"}
       THEN node' = Put(n, "failed") /\ UNCHANGED proc
       ELSE /\ Ready(n)
            /\ node' = [node EXCEPT ![n] = [st |-> "running", lease |-> t, live |-> TRUE, tries |-> t]]
            /\ proc' = [proc EXCEPT ![n][t] = "start"]
  /\ UNCHANGED <<child, commit, review, merger, tree, merges, halted, service, answers>>

\* ensure_review: one review of a node for ever; without a budget the human is asked.
EnsureReview ==
  /\ Served /\ node["coder"].st = "review_pending" /\ node["reviewer"].st = "absent"
  /\ \/ ~halted /\ node' = Put("reviewer", "queued") /\ review' = [review EXCEPT !.of = commit]
     \/ node' = Put("coder", "needs_input") /\ UNCHANGED review
  /\ UNCHANGED <<child, proc, commit, merger, tree, merges, halted, service, answers>>

----------------------------------------------------------------------------
(* A worker subprocess under its supervisor *)

Leased(n, t) == node[n].st = "running" /\ node[n].lease = t /\ node[n].live
Cancelled(n, t) == ~Leased(n, t) \/ halted
Exit(n, t) == proc' = [proc EXCEPT ![n][t] = "none"]
OnlyWork == UNCHANGED <<commit, review, merger, tree, merges, halted, service, answers>>

\* fail: only the holder of the lease is heard.
Fail(n, t, st) ==
  IF node[n].lease = t /\ node[n].st \in {"running", "cancel_requested"}
    THEN LET to == IF node[n].st = "cancel_requested" THEN "cancelled" ELSE st IN
         /\ node' = Rejects(Ends(n, to))
         /\ child' = IF to = "queued" THEN Fence(n)
                     ELSE IF to = "needs_resolution" /\ child[n].st = "tool" THEN [child EXCEPT ![n] = [st |-> "unknown", by |-> 0]]
                     ELSE child
    ELSE UNCHANGED <<node, child>>

\* The durable task is claimed; one whose tool was started needs a human.
WorkerStarts(n, t) ==
  /\ proc[n][t] = "start" /\ ~Cancelled(n, t)
  /\ CASE child[n].st \in {"none", "pending"} ->
            child' = [child EXCEPT ![n] = [st |-> "running", by |-> t]] /\ proc' = [proc EXCEPT ![n][t] = "work"] /\ UNCHANGED node
       [] child[n].st \in {"done", "weak"} -> proc' = [proc EXCEPT ![n][t] = "publish"] /\ UNCHANGED <<node, child>>
       [] child[n].st \in {"tool", "unknown"} -> Fail(n, t, "needs_resolution") /\ Exit(n, t)
       [] OTHER -> Fail(n, t, "failed") /\ Exit(n, t)
  /\ OnlyWork

HoldsLease(n, t) == child[n] \in [st : {"running", "tool"}, by : {t}]

\* The durable task goes on while this claim holds it: a tool, a question, its end.
WorkerRuns(n, t) ==
  /\ proc[n][t] = "work" /\ ~Cancelled(n, t) /\ HoldsLease(n, t)
  /\ \E to \in {"running", "tool", "suspended", "done", "weak", "failed"} :
       /\ (to = "tool") = (child[n].st = "running") \/ to \notin {"running", "tool"}
       /\ child' = [child EXCEPT ![n] = [st |-> to, by |-> IF to \in {"running", "tool"} THEN t ELSE 0]]
       /\ proc' = [proc EXCEPT ![n][t] = IF to \in {"running", "tool"} THEN "work" ELSE "publish"]
  /\ UNCHANGED node /\ OnlyWork

\* Mutant of Publishable: a worker publishes under a lease it has lost.
PublishableLate(n, t) == node[n].st \in {"running", "review_pending", "reviewed"} /\ ~halted

Publishable(n, t) == Leased(n, t) /\ ~halted

\* publish, after the result was committed; the reviewer settles the coder with its own row.
WorkerPublishes(n, t) ==
  /\ proc[n][t] = "publish" /\ child[n].st \in {"done", "weak"} /\ Publishable(n, t)
  /\ \E ok \in BOOLEAN :
       /\ ok => child[n].st = "done"
       /\ IF n = "coder"
            THEN /\ commit' = t /\ UNCHANGED review
                 /\ node' = Ends(n, IF ok THEN "review_pending" ELSE "needs_input")
            ELSE /\ UNCHANGED commit /\ review' = [review EXCEPT !.ok = ok]
                 /\ LET rows == Ends(n, IF ok THEN "completed" ELSE "rejected") IN
                    node' = [rows EXCEPT !["coder"].st = IF @ # "review_pending" THEN @ ELSE IF ok THEN "reviewed" ELSE "rejected"]
  /\ Exit(n, t)
  /\ UNCHANGED <<child, merger, tree, merges, halted, service, answers>>

\* Any other end: an exception, a kill by the supervisor, a lost lease.
WorkerEnds(n, t) ==
  /\ proc[n][t] # "none" /\ Exit(n, t)
  /\ \E st \in {IF child[n].st = "tool" THEN "needs_resolution" ELSE IF child[n].st = "suspended" THEN "needs_input"
                ELSE IF halted THEN "timed_out" ELSE IF node[n].tries < 3 THEN "queued" ELSE "failed",
                IF n = "reviewer" THEN "rejected" ELSE "failed", "cancelled"} : Fail(n, t, st)
  /\ OnlyWork

\* The service is killed; its workers die or stay behind without a supervisor.
ServiceDies ==
  /\ service = "first" /\ service' = "down"
  /\ proc' \in {proc, [n \in Nodes |-> [t \in Claims |-> "none"]]}
  /\ UNCHANGED <<node, child, commit, review, merger, tree, merges, halted, answers>>

\* resume_coordinator looks for work; a merge is not work.
ServiceResumes ==
  /\ service = "down" /\ \E n \in Nodes : node[n].st \in {"queued", "running", "review_pending", "cancel_requested"}
  /\ service' = "again"
  /\ UNCHANGED <<node, child, proc, commit, review, merger, tree, merges, halted, answers>>

\* Ninety seconds without a renewal: a paused worker, a dead one, a long merge.
LeaseExpires(n) ==
  /\ node[n].live /\ node' = [node EXCEPT ![n].live = FALSE]
  /\ UNCHANGED child /\ OnlyNodes

\* The durable task of a dead worker is released by its own lease.
ChildExpires(n) ==
  /\ child[n].st = "running" /\ proc[n][child[n].by] # "work"
  /\ child' = [child EXCEPT ![n] = [st |-> "pending", by |-> 0]]
  /\ UNCHANGED node /\ OnlyNodes

----------------------------------------------------------------------------
(* Cancellation, the clock, the human *)

\* cancel: the node and its review, whatever their states but merged.
CancelCollab ==
  /\ node' = [n \in Nodes |-> IF node[n].st \in {"merged", "absent"} THEN node[n]
                              ELSE [node[n] EXCEPT !.st = IF node[n].live
                                                            THEN "cancel_requested" ELSE "cancelled"]]
  /\ UNCHANGED child /\ OnlyNodes

Halt == ~halted /\ halted' = TRUE
        /\ UNCHANGED <<node, child, proc, commit, review, merger, tree, merges, service, answers>>

\* answer and resolve of a child that waits for them; start_coordinator.
HumanAnswers(n) ==
  /\ answers < MaxAnswers /\ answers' = answers + 1
  /\ \/ node[n].st = "needs_input" /\ child[n].st = "suspended"
     \/ node[n].st = "needs_resolution" /\ child[n].st \in {"tool", "unknown"}
  /\ child' = [child EXCEPT ![n] = [st |-> "pending", by |-> 0]]
  /\ node' = Ends(n, "queued") /\ service' = IF Served THEN service ELSE "again"
  /\ UNCHANGED <<proc, commit, review, merger, tree, merges, halted>>

\* abandon, after the leases are over.
HumanAbandons(n) ==
  /\ node[n].st = "needs_resolution" /\ ~node[n].live
  /\ node' = Ends(n, "conflict") /\ child' = [child EXCEPT ![n] = [st |-> "failed", by |-> 0]]
  /\ OnlyNodes

----------------------------------------------------------------------------
(* merge_node *)

\* The checks, then the claim of the row; a parent that has changed is a conflict.
MergeStarts ==
  /\ merger = NoMerge /\ ~halted /\ node["coder"].st = "reviewed" /\ node["reviewer"].st = "completed" /\ review.ok
  /\ IF \E f \in Files : tree[f] # "old"
       THEN node' = Put("coder", "conflict") /\ UNCHANGED <<merger, merges>>
       ELSE /\ node' = [node EXCEPT !["coder"].st = "merging", !["coder"].lease = Merge, !["coder"].live = TRUE]
            /\ merger' = [NoMerge EXCEPT !.st = "apply"] /\ merges' = merges + 1
  /\ UNCHANGED <<child, proc, commit, review, tree, halted, service, answers>>

\* One file: its content again, then its replacement.
MergeFile(f) ==
  /\ merger.st = "apply" /\ f \notin merger.wrote
  /\ IF tree[f] = "old"
       THEN tree' = [tree EXCEPT ![f] = "new"] /\ merger' = [merger EXCEPT !.wrote = @ \union {f}]
       ELSE merger' = [merger EXCEPT !.st = "undo"] /\ UNCHANGED tree
  /\ UNCHANGED <<node, child, proc, commit, review, merges, halted, service, answers>>

MergeKept == node["coder"].st = "merging" /\ node["coder"].lease = Merge

MergeCommits ==
  /\ merger.st = "apply" /\ merger.wrote = Files
  /\ IF MergeKept THEN node' = Ends("coder", "merged") /\ merger' = NoMerge
                  ELSE merger' = [merger EXCEPT !.st = "undo"] /\ UNCHANGED node
  /\ UNCHANGED <<child, proc, commit, review, tree, merges, halted, service, answers>>

\* An exception, a cancellation: what is still ours is put back, the rest left to the human.
MergeFails == /\ merger.st = "apply" /\ merger' = [merger EXCEPT !.st = "undo"]
              /\ UNCHANGED <<node, child, proc, commit, review, tree, merges, halted, service, answers>>
MergeUndoes ==
  /\ merger.st = "undo" /\ merger' = NoMerge
  /\ tree' = [f \in Files |-> IF f \in merger.wrote /\ tree[f] = "new" THEN "old" ELSE tree[f]]
  /\ node' = IF node["coder"].lease = Merge THEN Put("coder", "needs_resolution") ELSE node
  /\ UNCHANGED <<child, proc, commit, review, merges, halted, service, answers>>

MergeDies == /\ merger.st # "none" /\ merger' = NoMerge
             /\ UNCHANGED <<node, child, proc, commit, review, tree, merges, halted, service, answers>>

\* Somebody edits a file of the parent's workspace.
ForeignEdit(f) == /\ tree[f] # "other" /\ tree' = [tree EXCEPT ![f] = "other"]
                  /\ UNCHANGED <<node, child, proc, commit, review, merger, merges, halted, service, answers>>

----------------------------------------------------------------------------
Tick == RecoverNodes \/ EnsureReview \/ \E n \in Nodes : ClaimNode(n)
Worker(n, t) == WorkerStarts(n, t) \/ WorkerRuns(n, t) \/ WorkerPublishes(n, t) \/ WorkerEnds(n, t)

CollabNext ==
  \/ Submits \/ Tick \/ ServiceDies \/ ServiceResumes \/ CancelCollab \/ Halt
  \/ \E n \in Nodes : \/ LeaseExpires(n) \/ ChildExpires(n) \/ HumanAnswers(n) \/ HumanAbandons(n)
                      \/ \E t \in Claims : Worker(n, t)
  \/ MergeStarts \/ MergeCommits \/ MergeFails \/ MergeUndoes \/ MergeDies
  \/ \E f \in Files : MergeFile(f) \/ ForeignEdit(f)

\* The loop of the service, its restart, the deadline, and the end of a lease.
CollabFairness ==
  /\ WF_collabVars(Tick) /\ WF_collabVars(ServiceResumes) /\ WF_collabVars(Halt)
  /\ \A n \in Nodes : /\ WF_collabVars(LeaseExpires(n)) /\ WF_collabVars(ChildExpires(n))

CollabSpec == CollabInit /\ [][CollabNext]_collabVars /\ CollabFairness

----------------------------------------------------------------------------
(* Properties *)

CollabTypeOK ==
  /\ node \in [Nodes -> [st : NodeStates, lease : 0..Merge, live : BOOLEAN, tries : 0..MaxClaims]]
  /\ child \in [Nodes -> [st : {"none", "pending", "running", "tool", "suspended", "done", "weak", "failed", "unknown"}, by : 0..MaxClaims]]
  /\ proc \in [Nodes -> [Claims -> {"none", "start", "work", "publish"}]]
  /\ commit \in 0..MaxClaims /\ review \in [of : 0..MaxClaims, ok : BOOLEAN]
  /\ merger \in [st : {"none", "apply", "undo"}, wrote : SUBSET Files]
  /\ tree \in [Files -> {"old", "new", "other"}] /\ merges \in Nat
  /\ halted \in BOOLEAN /\ service \in {"first", "down", "again"} /\ answers \in 0..MaxAnswers

\* What is merged is the commit the reviewer approved, whole, by a merge that nobody had
\* cancelled, and no result is delivered twice (publish, fail, recover, merge_node).
MergedAsReviewed ==
  [][/\ merges' <= 1
     /\ (node'["coder"].st = "merged" /\ node["coder"].st # "merged")
          => /\ node["coder"].st = "merging" /\ merger.wrote = Files
             /\ review.ok /\ review.of = commit]_collabVars

\* "A process crash is marked needs_resolution, and the scene is kept for a human"
\* (README.md:633): no other state hides the files a crashed merge has written.
CrashedMergeMarked ==
  [][(/\ node["coder"].lease = Merge /\ node["coder"].st \in {"merging", "cancel_requested"}
      /\ merger = NoMerge /\ (\E f \in Files : tree[f] = "new")
      /\ node'["coder"].st \notin {"merging", "cancel_requested"})
        => node'["coder"].st = "needs_resolution"]_collabVars

\* The nodes come to rest: published, refused, stopped or waiting for a human.
NodesSettled == \A n \in Nodes : node[n].st \notin {"queued", "running", "cancel_requested", "review_pending"}
=============================================================================
