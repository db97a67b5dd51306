----------------------------- MODULE AgentGraph -----------------------------
(****************************************************************************)
(* A coder and its reviewer as a native DAG (dag.py, dag_activities.py,     *)
(* dag_workflow.py): the graph's row, the one-time permit of each node, the *)
(* Activity's host and the subprocess it starts, the Child Workflow that    *)
(* fences what it lost, and the reconciliation of a second host.  On top of *)
(* it the at-most-once merge and archive operations (dag_lifecycle.py), the *)
(* retention of closed histories (dag_retention.py) and the erasure of the  *)
(* session (dag_erasure.py).                                                *)
(*                                                                          *)
(* A crash takes the host and every Activity on it; the subprocesses may    *)
(* stay.  The merge of single files is in Collaboration.                    *)
(****************************************************************************)
EXTENDS Naturals

CONSTANTS
  MaxHostCrashes,  \* bound: crashes of the Temporal worker
  LateRequests     \* bound: what is asked of a graph beside its run: "merge", "archive", "collect", "erase"

ASSUME GraphAssumption == MaxHostCrashes \in Nat /\ LateRequests \subseteq {"merge", "archive", "collect", "erase"}

VARIABLES
  graph,    \* temporal_agent_graphs: state, sealed, stop_reason
  root,     \* the root task, and whether the deadline has passed
  vertex,   \* agent_nodes: state, whose lease it has, whether it has not expired
  permit,   \* temporal_agent_runs.state
  host,     \* the Activity of each node: waits for its process, also when it was cancelled
  agent,      \* the subprocess of each node
  registered,    \* temporal_agent_processes: the nodes whose process is registered
  begun,    \* how often the model work of a node was begun
  flow,     \* the Child Workflow of each node
  parent,   \* the parent Workflow
  op,       \* temporal_dag_operations: action and state; and the thread that executes it
  gc,       \* temporal_dag_gc.state
  owner,    \* the session: active, deleting, erased
  hostCrashes

graphVars == <<graph, root, vertex, permit, host, agent, registered, begun, flow, parent, op, gc, owner, hostCrashes>>

Vertices == {"coder", "reviewer"}
GraphTerminal == {"completed", "needs_input", "cancelled"}
Success == {"completed", "reviewed", "merged"}
Halts == {"failed", "rejected", "cancelled", "needs_input", "needs_resolution", "conflict"}
NoOp == [act |-> "none", st |-> "none", at |-> "none"]

GraphInit ==
  /\ graph = [st |-> "pending", sealed |-> FALSE, why |-> "none"]
  /\ root = [st |-> "running", over |-> FALSE]
  /\ vertex = [n \in Vertices |-> [st |-> IF n = "coder" THEN "queued" ELSE "absent", by |-> "none", live |-> FALSE]]
  /\ permit = [n \in Vertices |-> "none"] /\ host = [n \in Vertices |-> "none"]
  /\ agent = [n \in Vertices |-> "none"] /\ registered = {} /\ begun = [n \in Vertices |-> 0]
  /\ flow = [n \in Vertices |-> "none"] /\ parent = "none"
  /\ op = NoOp /\ gc = "none" /\ owner = "active" /\ hostCrashes = 0

Set(n, st) == [vertex EXCEPT ![n].st = st]
Frees(n, st) == [vertex EXCEPT ![n] = [st |-> st, by |-> "none", live |-> FALSE]]
Present == {n \in Vertices : vertex[n].st # "absent"}
Stopping == root.st = "cancelled" \/ root.over
Hosted(n) == host[n] # "none"
\* live: a registered process that is still there, or the thread of an operation.
Alive(n) == (n \in registered /\ agent[n] # "none") \/ (n = "coder" /\ op.at # "none")
OnlyRows == UNCHANGED <<root, permit, host, agent, registered, begun, flow, parent, op, gc, owner, hostCrashes>>

----------------------------------------------------------------------------
(* The graph's row *)

\* Mutant of StoppedRows: what has not begun is passed over.
StoppedRowsBegun == [n \in Vertices |-> IF vertex[n].st \in {"running", "merging"}
                       THEN [vertex[n] EXCEPT !.st = "cancel_requested"] ELSE vertex[n]]

\* stop: cancels what has no lease, asks what has one.
StoppedRows == [n \in Vertices |-> IF vertex[n].st \in {"queued", "running", "review_pending", "merging"}
                  THEN [vertex[n] EXCEPT !.st = IF @ # "queued" /\ vertex[n].by # "none" THEN "cancel_requested" ELSE "cancelled"]
                  ELSE vertex[n]]
StopGraph(why) ==
  IF graph.st \in GraphTerminal \cup {"erased"}
    THEN graph' = (IF graph.st = "completed" THEN [graph EXCEPT !.why = why, !.sealed = TRUE] ELSE graph) /\ UNCHANGED vertex
    ELSE graph' = [st |-> "cancelling", sealed |-> TRUE, why |-> why] /\ vertex' = StoppedRows

HumanStops == graph.st # "erased" /\ StopGraph("cancelled") /\ graph' # graph /\ OnlyRows
Seal == ~graph.sealed /\ graph' = [graph EXCEPT !.sealed = TRUE] /\ UNCHANGED vertex /\ OnlyRows

\* snapshot, first transaction: the root or its deadline ended, or its authority is gone.
SnapshotStops ==
  /\ graph.st \in {"pending", "running", "cancelling"} /\ (Stopping \/ owner = "deleting")
  /\ StopGraph(IF root.st = "cancelled" THEN "cancelled" ELSE "needs_input")
  /\ OnlyRows

\* ensure_review, by the snapshot or the publisher: one reviewer for ever, or a human is asked.
GraphReview ==
  /\ graph.st # "cancelling" /\ vertex["coder"].st = "review_pending" /\ vertex["reviewer"].st = "absent"
  /\ vertex' = IF graph.st \in {"pending", "running"} /\ ~root.over /\ owner = "active"
                 THEN Set("reviewer", "queued") ELSE Set("coder", "needs_input")
  /\ UNCHANGED graph /\ OnlyRows

\* snapshot, last transaction: dependants of what stopped fail; the graph may be done.
SnapshotSettles ==
  LET rows == IF vertex["reviewer"].st = "queued" /\ vertex["coder"].st \in Halts
                THEN Set("reviewer", "failed") ELSE vertex
      over == \A n \in Present : rows[n].st \in Success \cup Halts
      done == over /\ (graph.st = "cancelling" \/ graph.sealed \/ root.st # "running")
  IN /\ graph.st \in {"pending", "running", "cancelling"} /\ vertex' = rows
     /\ graph' = IF ~done THEN graph
                 ELSE [graph EXCEPT !.sealed = TRUE,
                         !.st = IF graph.why # "none" THEN graph.why
                                ELSE IF \A n \in Present : rows[n].st \in Success THEN "completed" ELSE "needs_input"]
     /\ <<graph, vertex>>' # <<graph, vertex>> /\ OnlyRows

----------------------------------------------------------------------------
(* The Workflows *)

\* dispatch: a duplicate start finds the old Workflow.
DispatchGraph ==
  /\ parent = "none" /\ graph.st \in {"pending", "running", "cancelling"} /\ ~root.over /\ owner = "active"
  /\ parent' = "open" /\ graph' = [graph EXCEPT !.st = IF @ = "pending" THEN "running" ELSE @]
  /\ UNCHANGED <<root, vertex, permit, host, agent, registered, begun, flow, op, gc, owner, hostCrashes>>

\* snapshot.ready: one Child Workflow for a node, its ID never reused.
DepsDone(n) == n = "coder" \/ vertex["coder"].st \in Success \cup {"review_pending"}
StartChild(n) ==
  /\ parent = "open" /\ graph.st \in {"pending", "running"} /\ ~Stopping
  /\ flow[n] = "none" /\ vertex[n].st = "queued" /\ DepsDone(n)
  /\ flow' = [flow EXCEPT ![n] = "open"]
  /\ UNCHANGED <<graph, root, vertex, permit, host, agent, registered, begun, parent, op, gc, owner, hostCrashes>>

\* The parent sees the stop or the end; it is cancelled, fails or times out from outside.
ParentCancels ==
  /\ parent = "open"
  /\ \/ graph.st \in GraphTerminal \cup {"cancelling"} /\ UNCHANGED <<graph, vertex>>
     \/ \E why \in {"cancelled", "needs_input"} : StopGraph(why)
  /\ parent' = "closed"
  /\ flow' = [n \in Vertices |-> IF flow[n] = "open" THEN "cancel" ELSE flow[n]]
  /\ UNCHANGED <<root, permit, host, agent, registered, begun, op, gc, owner, hostCrashes>>

\* The Activity ended well, or without a result; the Child Workflow fences the latter.
ChildCloses(n) ==
  /\ flow[n] \in {"open", "cancel"} /\ permit[n] # "none" /\ ~Hosted(n)
  /\ flow' = [flow EXCEPT ![n] = IF permit[n] = "completed" /\ flow[n] = "open" THEN "closed" ELSE "fence"]
  /\ UNCHANGED <<graph, root, vertex, permit, host, agent, registered, begun, parent, op, gc, owner, hostCrashes>>
\* It is cancelled, refused by claim or timed out before its Activity had a permit.
ChildRefused(n) ==
  /\ flow[n] = "cancel" \/ (flow[n] = "open" /\ (graph.st \notin {"pending", "running"} \/ Stopping \/ vertex[n].st # "queued"))
  /\ permit[n] = "none" /\ flow' = [flow EXCEPT ![n] = "fence"]
  /\ UNCHANGED <<graph, root, vertex, permit, host, agent, registered, begun, parent, op, gc, owner, hostCrashes>>

FencedState(n) == IF permit[n] = "none" THEN "cancelled" ELSE "needs_resolution"

\* node_stopped
NodeStopped(n) ==
  /\ vertex' = IF vertex[n].st \in {"running", "cancel_requested", "queued"} \/ (vertex[n].st = "failed" /\ permit[n] # "none")
                 THEN Set(n, FencedState(n)) ELSE vertex
  /\ permit' = [permit EXCEPT ![n] = IF @ = "started" THEN "uncertain" ELSE @]

ChildFences(n) ==
  /\ flow[n] = "fence" /\ flow' = [flow EXCEPT ![n] = "closed"] /\ NodeStopped(n)
  /\ UNCHANGED <<graph, root, host, agent, registered, begun, parent, op, gc, owner, hostCrashes>>

----------------------------------------------------------------------------
(* The node's Activity and its subprocess *)

\* Mutant of Claimable: a second delivery goes on with the permit of the first.
ClaimableAgain(n) == \/ permit[n] = "none" /\ vertex[n].st = "queued" /\ DepsDone(n)
                     \/ permit[n] = "started" /\ vertex[n].st = "running"

Claimable(n) == permit[n] = "none" /\ vertex[n].st = "queued" /\ DepsDone(n)

\* claim, and the launch of coordinator_worker.
ClaimVertex(n) ==
  /\ flow[n] = "open" /\ ~Hosted(n) /\ Claimable(n)
  /\ graph.st \in {"pending", "running"} /\ ~Stopping /\ owner = "active"
  /\ vertex' = [vertex EXCEPT ![n] = [st |-> "running", by |-> "run", live |-> TRUE]]
  /\ permit' = [permit EXCEPT ![n] = "started"]
  /\ host' = [host EXCEPT ![n] = "wait"] /\ agent' = [agent EXCEPT ![n] = "start"]
  /\ UNCHANGED <<graph, root, registered, begun, flow, parent, op, gc, owner, hostCrashes>>

VertexLeased(n) == vertex[n] = [st |-> "running", by |-> "run", live |-> TRUE]
NodeCancelled(n) == ~VertexLeased(n) \/ Stopping

Permitted(n) == permit[n] = "started" /\ Hosted(n)

\* main, execute_node, register_process: only under the live permit.
ProcRegisters(n) ==
  /\ agent[n] = "start" /\ ~NodeCancelled(n) /\ Permitted(n)
  /\ agent' = [agent EXCEPT ![n] = "work"] /\ registered' = registered \cup {n} /\ begun' = [begun EXCEPT ![n] = @ + 1]
  /\ UNCHANGED <<graph, root, vertex, permit, host, flow, parent, op, gc, owner, hostCrashes>>

\* publish: the reviewer settles the coder with its own row.
ProcPublishes(n) ==
  /\ agent[n] = "work" /\ VertexLeased(n) /\ ~Stopping
  /\ \E ok \in BOOLEAN :
       vertex' = IF n = "coder" THEN Frees(n, IF ok THEN "review_pending" ELSE "needs_input")
                 ELSE LET rows == Frees(n, IF ok THEN "completed" ELSE "rejected")
                      IN [rows EXCEPT !["coder"].st = IF @ # "review_pending" THEN @ ELSE IF ok THEN "reviewed" ELSE "rejected"]
  /\ agent' = [agent EXCEPT ![n] = "none"]
  /\ UNCHANGED <<graph, root, permit, host, registered, begun, flow, parent, op, gc, owner, hostCrashes>>

\* fail, by the holder of the lease; or the process is killed or refused, without a word.
ProcEnds(n) ==
  /\ agent[n] # "none" /\ agent' = [agent EXCEPT ![n] = "none"]
  /\ \/ UNCHANGED vertex
     \/ /\ vertex[n].by = "run" /\ vertex[n].st \in {"running", "cancel_requested"}
        /\ \E st \in {"failed", "needs_resolution"} :
             vertex' = LET rows == Frees(n, IF vertex[n].st = "cancel_requested" THEN "cancelled" ELSE st)
                       IN [rows EXCEPT !["coder"].st = IF n = "reviewer" /\ @ = "review_pending" THEN "rejected" ELSE @]
  /\ UNCHANGED <<graph, root, permit, host, registered, begun, flow, parent, op, gc, owner, hostCrashes>>

\* The Activity is cancelled: it fences, and waits for its process.
HostStops(n) ==
  /\ Hosted(n) /\ permit[n] = "started" /\ flow[n] = "cancel" /\ NodeStopped(n)
  /\ UNCHANGED <<graph, root, host, agent, registered, begun, flow, parent, op, gc, owner, hostCrashes>>

\* process_done: the process is gone, whatever it said.
ProcessDone(n) ==
  /\ Hosted(n) /\ agent[n] = "none" /\ host' = [host EXCEPT ![n] = "none"]
  /\ permit' = [permit EXCEPT ![n] = "completed"]
  /\ vertex' = LET st == vertex[n].st IN
       IF vertex[n].by # "run" THEN vertex
       ELSE Frees(n, IF st = "cancel_requested" THEN "cancelled"
                     ELSE IF st \in {"running", "queued"} THEN "needs_resolution" ELSE st)
  /\ UNCHANGED <<graph, root, agent, registered, begun, flow, parent, op, gc, owner, hostCrashes>>

GraphLeaseExpires(n) ==
  /\ vertex[n].live /\ vertex' = [vertex EXCEPT ![n].live = FALSE]
  /\ UNCHANGED graph /\ OnlyRows

\* The worker process dies with its Activities and threads.  Subprocesses die or stay behind.
HostCrash ==
  /\ hostCrashes < MaxHostCrashes /\ hostCrashes' = hostCrashes + 1
  /\ host' = [n \in Vertices |-> "none"] /\ op' = [op EXCEPT !.at = "none"]
  /\ \E kept \in SUBSET {n \in Vertices : agent[n] # "none"} :
       agent' = [n \in Vertices |-> IF n \in kept THEN agent[n] ELSE "none"]
  /\ UNCHANGED <<graph, root, vertex, permit, registered, begun, flow, parent, gc, owner>>

\* reap, for one run: a dead host with a live process is asked to stop, else the node is fenced.
Reap(n) ==
  /\ permit[n] \in {"started", "uncertain"} /\ ~Hosted(n)
  /\ IF Alive(n)
       THEN /\ vertex' = IF vertex[n].st = "running" THEN Set(n, "cancel_requested") ELSE vertex
            /\ permit' = [permit EXCEPT ![n] = "uncertain"]
       ELSE /\ vertex' = IF vertex[n].st \in {"running", "cancel_requested"} THEN Frees(n, "needs_resolution") ELSE vertex
            /\ permit' = [permit EXCEPT ![n] = "completed"]
  /\ UNCHANGED <<graph, root, host, agent, registered, begun, flow, parent, op, gc, owner, hostCrashes>>

----------------------------------------------------------------------------
(* Merge and archive *)

\* Mutant of Quiet: the leases are looked at, the processes are not.
QuietRows(n) == ~vertex[n].live

Quiet(n) == /\ ~vertex[n].live /\ ~Alive(n)
            /\ ~(permit[n] \in {"started", "uncertain"} /\ Hosted(n))

MergeAllowed == graph.why = "none" /\ graph.st \notin {"cancelling", "cancelled"} /\ ~Stopping /\ owner = "active"

\* validate
Valid(a) ==
  /\ Quiet("coder") /\ owner = "active"
  /\ IF a = "merge"
       THEN MergeAllowed /\ vertex["coder"].st = "reviewed" /\ vertex["reviewer"].st = "completed"
       ELSE /\ graph.st \in GraphTerminal /\ vertex["coder"].st \in Halts \cup {"merged", "completed"}
            /\ \A n \in Present : Quiet(n)

\* request: refused once the graph's history is being collected.
RequestOp ==
  /\ op.st = "none" /\ gc = "none"
  /\ \E a \in {"merge", "archive"} \cap LateRequests : Valid(a) /\ op' = [act |-> a, st |-> "pending", at |-> "none"]
  /\ UNCHANGED <<graph, root, vertex, permit, host, agent, registered, begun, flow, parent, gc, owner, hostCrashes>>

\* execute: validated again, then started for ever; a target that changed fails it.
ExecuteOp ==
  /\ op.st = "pending" /\ owner = "active"
  /\ op' = IF Valid(op.act) THEN [op EXCEPT !.st = "started", !.at = "claim"] ELSE [op EXCEPT !.st = "failed"]
  /\ UNCHANGED <<graph, root, vertex, permit, host, agent, registered, begun, flow, parent, gc, owner, hostCrashes>>

\* merge_node claims the row under merge_guard; or archives; or fails before any effect.
OpApplies ==
  /\ op.at = "claim"
  /\ IF op.act = "archive" THEN op' = [op EXCEPT !.at = "io"] /\ UNCHANGED vertex
     ELSE IF MergeAllowed /\ vertex["coder"].st = "reviewed"
            THEN op' = [op EXCEPT !.at = "io"] /\ vertex' = [vertex EXCEPT !["coder"] = [st |-> "merging", by |-> "merge", live |-> TRUE]]
            ELSE op' = [op EXCEPT !.st = "uncertain", !.at = "none"] /\ UNCHANGED vertex
  /\ UNCHANGED <<graph, root, permit, host, agent, registered, begun, flow, parent, gc, owner, hostCrashes>>

\* The files are written and the row is committed; a stop or an error undoes them.
OpCommits ==
  /\ op.at = "io" /\ op' = [op EXCEPT !.st = "completed", !.at = "none"]
  /\ IF op.act = "archive" THEN UNCHANGED vertex
     ELSE MergeAllowed /\ vertex["coder"].st = "merging" /\ vertex["coder"].by = "merge" /\ vertex' = Frees("coder", "merged")
  /\ UNCHANGED <<graph, root, permit, host, agent, registered, begun, flow, parent, gc, owner, hostCrashes>>
OpFails ==
  /\ op.at = "io" /\ op' = [op EXCEPT !.st = "uncertain", !.at = "none"]
  /\ vertex' = IF vertex["coder"].by = "merge" THEN Set("coder", "needs_resolution") ELSE vertex
  /\ UNCHANGED <<graph, root, permit, host, agent, registered, begun, flow, parent, gc, owner, hostCrashes>>

\* The lifecycle Activity is cancelled, or its Workflow was closed: a pending operation is
\* cancelled, a started one stops the graph.
OpObserved ==
  /\ op.st \in {"pending", "started"}
  /\ IF op.st = "pending" THEN op' = [op EXCEPT !.st = "cancelled"] /\ UNCHANGED <<graph, vertex>>
     ELSE StopGraph("cancelled") /\ UNCHANGED op
  /\ UNCHANGED <<root, permit, host, agent, registered, begun, flow, parent, gc, owner, hostCrashes>>

\* reap, for the operation: the host died with it.
ReapOp ==
  /\ op.st = "started" /\ op.at = "none" /\ op' = [op EXCEPT !.st = "uncertain"]
  /\ vertex' = IF vertex["coder"].st = "merging" THEN Frees("coder", "needs_resolution") ELSE vertex
  /\ UNCHANGED <<graph, root, permit, host, agent, registered, begun, flow, parent, gc, owner, hostCrashes>>

----------------------------------------------------------------------------
(* Retention and erasure *)

\* _eligible, for an aged graph.
Collectable ==
  /\ graph.st = "completed" /\ root.st = "completed" /\ owner = "active"
  /\ \A n \in Present : /\ vertex[n].st \in {"completed", "merged"} /\ Quiet(n)
  /\ op.st \in {"none", "completed", "cancelled"}
CollectBegins == "collect" \in LateRequests /\ gc = "none" /\ Collectable /\ gc' = "pending"
  /\ UNCHANGED <<graph, root, vertex, permit, host, agent, registered, begun, flow, parent, op, owner, hostCrashes>>
CollectEnds == gc = "pending" /\ Collectable /\ gc' = "completed"
  /\ UNCHANGED <<graph, root, vertex, permit, host, agent, registered, begun, flow, parent, op, owner, hostCrashes>>

\* The session's tombstone; erase stops the graph and waits for what still runs; scrub.
Tombstone == "erase" \in LateRequests /\ owner = "active" /\ owner' = "deleting" /\ StopGraph("cancelled")
  /\ UNCHANGED <<root, permit, host, agent, registered, begun, flow, parent, op, gc, hostCrashes>>
Scrub ==
  /\ owner = "deleting" /\ graph.st # "erased" /\ \A n \in Vertices : Quiet(n)
  /\ owner' = "erased" /\ graph' = [graph EXCEPT !.st = "erased"] /\ parent' = "closed"
  /\ permit' = [n \in Vertices |-> "none"] /\ registered' = {} /\ op' = NoOp /\ gc' = "none"
  /\ flow' = [n \in Vertices |-> "closed"]
  /\ UNCHANGED <<root, vertex, host, agent, begun, hostCrashes>>

RootEnds == root.st = "running" /\ (\E st \in {"completed", "cancelled"} : root' = [root EXCEPT !.st = st])
  /\ UNCHANGED <<graph, vertex, permit, host, agent, registered, begun, flow, parent, op, gc, owner, hostCrashes>>
DeadlinePasses == ~root.over /\ root' = [root EXCEPT !.over = TRUE]
  /\ UNCHANGED <<graph, vertex, permit, host, agent, registered, begun, flow, parent, op, gc, owner, hostCrashes>>

----------------------------------------------------------------------------
Snapshot == SnapshotStops \/ GraphReview \/ SnapshotSettles
Operation == ExecuteOp \/ OpApplies \/ OpCommits \/ OpFails \/ ReapOp
OneNode(n) == ProcRegisters(n) \/ ProcPublishes(n) \/ ProcEnds(n)
Supervised(n) == ChildCloses(n) \/ ChildRefused(n) \/ ChildFences(n) \/ ProcessDone(n) \/ Reap(n)

\* What the service and its workers do of themselves, after the first transaction of a snapshot.
GraphWork == GraphReview \/ SnapshotSettles \/ Operation \/ \E n \in Vertices : Supervised(n) \/ ProcEnds(n)

GraphNext ==
  \/ Snapshot \/ Operation \/ DispatchGraph \/ ParentCancels \/ HumanStops \/ Seal \/ HostCrash
  \/ \E n \in Vertices : \/ OneNode(n) \/ Supervised(n)
                         \/ StartChild(n) \/ ClaimVertex(n) \/ HostStops(n) \/ GraphLeaseExpires(n)
  \/ RequestOp \/ OpObserved \/ CollectBegins \/ CollectEnds \/ Tombstone \/ Scrub
  \/ RootEnds \/ DeadlinePasses

\* Every graph, node, permit, operation and intent has a state the code knows.
GraphTypeOK ==
  /\ graph \in [st : GraphTerminal \cup {"pending", "running", "cancelling", "erased"}, sealed : BOOLEAN,
                why : {"none", "cancelled", "needs_input"}]
  /\ vertex \in [Vertices -> [st : Success \cup Halts \cup {"absent", "queued", "running", "cancel_requested", "review_pending", "merging"},
                              by : {"none", "run", "merge"}, live : BOOLEAN]]
  /\ permit \in [Vertices -> {"none", "started", "uncertain", "completed"}]
  /\ host \in [Vertices -> {"none", "wait"}] /\ agent \in [Vertices -> {"none", "start", "work"}]
  /\ flow \in [Vertices -> {"none", "open", "cancel", "fence", "closed"}]
  /\ op.st \in {"none", "pending", "started", "completed", "failed", "uncertain", "cancelled"}
  /\ gc \in {"none", "pending", "completed"}

\* The model work of a node is begun once, whichever Workflow, Activity or host is lost.
NodeOnce == \A n \in Vertices : begun[n] <= 1

\* The files of a node are merged or archived, its history collected and its rows erased,
\* only when none of its processes works on them: a subprocess whose host died included.
UntouchedWhileAlive ==
  /\ op.at # "none" => agent["coder"] # "work" /\ (op.act = "archive" => agent["reviewer"] # "work")
  /\ gc # "none" \/ owner = "erased" => \A n \in Vertices : agent[n] # "work" /\ op.at = "none"

\* A stopped graph ends, except when a merge that was asked to stop died with its host.
GraphStops == graph.st = "cancelling"
MergeLost == op.act = "merge" /\ op.st = "uncertain" /\ vertex["coder"].st = "cancel_requested"
=============================================================================
