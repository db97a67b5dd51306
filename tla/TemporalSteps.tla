--------------------------- MODULE TemporalSteps ---------------------------
(****************************************************************************)
(* One task of the Temporal backend: the submission (store.py), the cursor  *)
(* chain of the step protocol (step_store.py), the operation ledger         *)
(* (ledger.py), the Activities that run one bounded continuation each       *)
(* (step_activities.py, durable_invoke, run_agent with a StepController),   *)
(* the Workflow that schedules them (workflows.py), human waits             *)
(* (decisions.py) and cancellation (cancellation.py, worker.py).            *)
(*                                                                          *)
(* An Activity is named by the order in which the Workflow scheduled it; it *)
(* may still run after the Workflow has given it up.  Every database        *)
(* transaction is one action.  The Temporal service is modelled by what the *)
(* code relies on: one Workflow per submission, an Activity scheduled once, *)
(* its result or its timeout delivered, metadata Activities repeated.       *)
(****************************************************************************)
EXTENDS Naturals

CONSTANTS
  StepLimit,      \* STEP_LIMIT
  RecoveryLimit,  \* STEP_RECOVERY_LIMIT
  MaxAttempts     \* provider attempts of one model step (max_retries + 1)

ASSUME StepsAssumption == StepLimit \in Nat /\ RecoveryLimit \in Nat /\ MaxAttempts \in Nat \ {0}

VARIABLES
  sub,      \* temporal_submissions.state
  fenced,   \* whether its fence has been issued
  box,      \* temporal_cancellations.delivery
  tk,       \* tasks: state, phase, next_kind and model_attempt of the checkpoint, lease_owner
  run,      \* temporal_step_runs by revision
  ops,      \* operation_ledger by logical step
  effects,  \* how often the model, tool or evaluator of a logical step was really called
  ans,      \* temporal_human_answers by revision: state, delivery, whether expires has passed
  act,      \* the Activities
  wf,       \* the Workflow
  disp      \* the client that dispatches the submission

stepsVars == <<sub, fenced, box, tk, run, ops, effects, ans, act, wf, disp>>
rows == <<sub, fenced, box, tk, run, ops, ans>>

Revs == 0..StepLimit
Acts == 1..(StepLimit + RecoveryLimit)
NoAct == 0
IOKinds == {"model", "tool", "evaluation"}
StepIds == Revs \X (1..MaxAttempts)

SubStates == {"none", "pending", "dispatched", "running", "completed", "failed", "uncertain", "cancelled"}
OpenSub == {"pending", "dispatched", "running"}
TerminalStates == {"completed", "failed", "cancelled"}
TaskPhases == {"temporal_pending", "step_preparing", "model_pending", "model_received", "tool_started",
               "tool_done", "evaluation_pending", "evaluation_done", "step_ready", "waiting_user"}
ActPcs == {"unused", "claim", "lease", "run", "preparing", "request", "io", "prepared", "started", "executed",
           "failed", "recorded", "saved", "asking", "yielding", "commit", "ok", "busy", "fatal", "dead"}
EndPcs == {"ok", "busy", "fatal", "dead"}
WfPcs == {"adopt", "bootstrap", "step", "await", "recover", "before", "probe", "wait", "finalize"}

Activity(pc, r) == [pc |-> pc, rev |-> r, next |-> "model", att |-> 1, asks |-> FALSE]

StepsInit ==
  /\ sub = "none" /\ fenced = FALSE /\ box = "none"
  /\ tk = [st |-> "none", ph |-> "temporal_pending", nx |-> "model", att |-> 1, lease |-> NoAct]
  /\ run = [r \in Revs |-> [st |-> "none", kind |-> "model", fence |-> NoAct]]
  /\ ops = [o \in StepIds |-> "none"]
  /\ effects = [o \in StepIds |-> 0]
  /\ ans = [r \in Revs |-> [st |-> "none", sent |-> "none", late |-> FALSE]]
  /\ act = [a \in Acts |-> Activity("unused", 0)]
  /\ wf = [st |-> "none", pc |-> "adopt", rev |-> 0, rec |-> 0, act |-> NoAct, note |-> FALSE, cancel |-> FALSE]
  /\ disp = "idle"

----------------------------------------------------------------------------
(* Scopes and fences *)

\* Ledger._scope(active=False) and Ledger._scope()
Scoped == fenced /\ sub \in {"running", "completed", "failed"}
          /\ tk.st \in {"pending", "running", "completed", "failed", "suspended"}
ActiveScope == fenced /\ sub = "running" /\ tk.st \in {"pending", "running"}

FencedOps == [o \in StepIds |-> CASE ops[o] = "prepared" -> "rejected_no_effect"
                                  [] ops[o] = "running" -> "uncertain"
                                  [] OTHER -> ops[o]]

Rev(a) == act[a].rev
Kind(a) == run[Rev(a)].kind
StepOf(a) == <<Rev(a), act[a].att>>
\* StepStore.current: the Activity still holds its cursor.
Current(a) == run[Rev(a)].st = "running" /\ run[Rev(a)].fence = a
Holds(a) == tk.st = "running" /\ tk.lease = a
\* What check_cancelled must answer, and what it may answer: the service tells an
\* abandoned Activity on a later heartbeat.
MustStop(a) == ~Current(a) \/ sub = "cancelled"
MayStop(a) == MustStop(a) \/ wf.act # a \/ wf.st # "open" \/ ~Holds(a)

Goto(a, pc) == act' = [act EXCEPT ![a] = IF pc \in EndPcs THEN Activity(pc, 0) ELSE [@ EXCEPT !.pc = pc]]
CommitNext(a, kind) == act' = [act EXCEPT ![a].pc = "commit", ![a].next = kind]
OnlyAct == UNCHANGED <<sub, fenced, box, run, ans, wf, disp>>

----------------------------------------------------------------------------
(* Admission, dispatch and cancellation *)

Submit ==
  /\ sub = "none"
  /\ sub' = "pending" /\ tk' = [tk EXCEPT !.st = "pending"]
  /\ UNCHANGED <<fenced, box, run, ops, effects, ans, act, wf, disp>>

\* TaskStore.cancel and Store.cancel with cancellation.request, one transaction.
CancelRows ==
  /\ tk' = IF tk.st \in TerminalStates THEN tk ELSE [tk EXCEPT !.st = "cancelled", !.lease = NoAct]
  /\ IF tk'.st = "cancelled" /\ sub \in OpenSub \union {"cancelled"}
       THEN /\ ops' = FencedOps /\ sub' = "cancelled"
            /\ box' = IF box = "none" THEN "pending" ELSE box
       ELSE UNCHANGED <<ops, sub, box>>

\* A user, a /clear, the client whose wait timed out: all end in the same statements.
Cancel ==
  /\ sub # "none" /\ (tk.st \notin TerminalStates \/ (tk.st = "cancelled" /\ sub \in OpenSub))
  /\ CancelRows
  /\ UNCHANGED <<fenced, run, effects, ans, act, wf, disp>>

\* Store.workflow_failed
FailRows ==
  IF sub \in OpenSub
    THEN /\ sub' = "uncertain" /\ ops' = FencedOps
         /\ tk' = IF tk.st \in TerminalStates THEN tk ELSE [tk EXCEPT !.st = "uncertain", !.lease = NoAct]
    ELSE UNCHANGED <<sub, ops, tk>>

\* A row read as pending is checked, then the Workflow started and the row marked.
DispatchCheck ==
  /\ disp = "idle" /\ sub = "pending"
  /\ IF tk.st = "cancelled" THEN CancelRows /\ UNCHANGED disp
                            ELSE disp' = "checked" /\ UNCHANGED <<sub, box, tk, ops>>
  /\ UNCHANGED <<fenced, run, effects, ans, act, wf>>

\* Starting twice is refused by the service; the mark may be lost with the client.
DispatchStart ==
  /\ disp = "checked" /\ disp' = "idle"
  /\ wf' = IF wf.st = "none" THEN [wf EXCEPT !.st = "open"] ELSE wf
  /\ sub' \in {sub, IF sub = "pending" THEN "dispatched" ELSE sub}
  /\ UNCHANGED <<fenced, box, tk, run, ops, effects, ans, act>>

\* The deadline passed before the start: fail_budget_before_start.
DispatchExpired ==
  /\ disp = "checked" /\ disp' = "idle"
  /\ ops' = FencedOps
  /\ IF sub \in {"pending", "dispatched"}
       THEN /\ sub' = "failed"
            /\ tk' = IF tk.st = "pending" THEN [tk EXCEPT !.st = "failed", !.lease = NoAct] ELSE tk
       ELSE UNCHANGED <<sub, tk>>
  /\ UNCHANGED <<fenced, box, run, effects, ans, act, wf>>

\* The client dies or the start fails: the row stays pending for the reconcile loop.
DispatchLost == /\ disp = "checked" /\ disp' = "idle"
                /\ UNCHANGED <<rows, effects, act, wf>>

\* cancellation.dispatch: NOT_FOUND is as good as an acknowledgement.
DispatchCancel ==
  /\ box = "pending" /\ sub = "cancelled"
  /\ wf' = IF wf.st = "open" THEN [wf EXCEPT !.cancel = TRUE] ELSE wf
  /\ box' = "sent"
  /\ UNCHANGED <<sub, fenced, tk, run, ops, effects, ans, act, disp>>

\* The reconcile loop looks at the active rows.
Reconcile ==
  /\ sub \in {"dispatched", "running"}
  /\ \/ tk.st = "cancelled" /\ CancelRows
     \/ tk.st # "cancelled" /\ wf.st = "canceled" /\ CancelRows
     \/ tk.st # "cancelled" /\ wf.st = "failed" /\ FailRows /\ UNCHANGED box
  /\ UNCHANGED <<fenced, run, effects, ans, act, wf, disp>>

----------------------------------------------------------------------------
(* An Activity: advance(payload, kind) *)

StepClaim(a) ==
  /\ act[a].pc = "claim"
  /\ LET row == run[Rev(a)] IN
     IF Scoped /\ row.st = "completed" THEN Goto(a, "ok") /\ UNCHANGED run
     ELSE IF ActiveScope /\ row.st = "ready"
            THEN run' = [run EXCEPT ![Rev(a)].st = "running", ![Rev(a)].fence = a] /\ Goto(a, "lease")
            ELSE Goto(a, "fatal") /\ UNCHANGED run
  /\ UNCHANGED <<sub, fenced, box, tk, ops, effects, ans, wf, disp>>

\* TaskStore.claim: a settled task returns its reply, a held one raises TaskBusy.
TakeLease(a) ==
  /\ act[a].pc = "lease"
  /\ IF tk.st \in TerminalStates THEN CommitNext(a, "finalize") /\ UNCHANGED tk
     ELSE IF tk.lease # NoAct \/ tk.st \in {"suspended", "uncertain"} THEN Goto(a, "busy") /\ UNCHANGED tk
     ELSE IF tk.ph = "tool_started" THEN Goto(a, "busy") /\ tk' = [tk EXCEPT !.st = "uncertain"]
     ELSE Goto(a, "run") /\ tk' = [tk EXCEPT !.st = "running", !.lease = a]
  /\ UNCHANGED <<ops, effects>> /\ OnlyAct

\* TaskStore.checkpoint, or TaskBusy.
Saves(a, ph, nx, pc) ==
  IF Holds(a) THEN tk' = [tk EXCEPT !.ph = ph, !.nx = nx, !.att = act[a].att] /\ Goto(a, pc)
              ELSE UNCHANGED tk /\ Goto(a, "busy")
\* TaskStore.finish, or TaskBusy.
Finishes(a, st, next) ==
  IF Holds(a) THEN tk' = [tk EXCEPT !.st = st, !.lease = NoAct] /\ CommitNext(a, next)
              ELSE UNCHANGED tk /\ Goto(a, "busy")
\* A returned reply leaves a cancelled task alone.
Returns(a, st) ==
  IF tk.st = "cancelled" THEN UNCHANGED tk /\ CommitNext(a, "finalize") ELSE Finishes(a, st, "finalize")

\* The turn returns because it was told to stop.
Stop(a) ==
  /\ act[a].pc \in {"run", "preparing", "io", "failed"} /\ MayStop(a)
  /\ Returns(a, "cancelled")
  /\ UNCHANGED <<ops, effects>> /\ OnlyAct

\* The turn starts at the saved phase; the StepController lets its kind in once.
Enter(a) ==
  /\ act[a].pc = "run" /\ ~MustStop(a)
  /\ CASE tk.ph = "evaluation_done" -> UNCHANGED tk /\ Goto(a, "saved")
       [] tk.ph = "model_pending" -> UNCHANGED tk /\ act' = [act EXCEPT ![a].pc = "request", ![a].att = tk.att]
       [] tk.ph \notin {"evaluation_done", "model_pending"} /\ Kind(a) = "evaluation" -> Saves(a, "evaluation_pending", "none", "io")
       [] OTHER -> Saves(a, "step_preparing", Kind(a), "preparing")
  /\ UNCHANGED <<ops, effects>> /\ OnlyAct

\* The hooks ran.  A refused tool is answered without being called; ask_user keeps its phase.
Prepare(a) ==
  /\ act[a].pc = "preparing"
  /\ \/ Kind(a) = "model" /\ Goto(a, "request") /\ UNCHANGED tk
     \/ Kind(a) = "tool" /\ Saves(a, "tool_started", "none", "io")
     \/ Kind(a) = "tool" /\ Saves(a, "tool_done", "none", "saved")
     \/ Kind(a) = "tool" /\ act' = [act EXCEPT ![a].pc = "io", ![a].asks = TRUE] /\ UNCHANGED tk
  /\ UNCHANGED <<ops, effects>> /\ OnlyAct

\* The request of a model attempt is saved before it is sent.
Request(a) ==
  /\ act[a].pc = "request"
  /\ Saves(a, "model_pending", "none", "io")
  /\ UNCHANGED <<ops, effects>> /\ OnlyAct

\* durable_invoke's except branch: what was started stays uncertain, the rest may be retried.
Raise(a, how) ==
  IF Holds(a) THEN /\ tk' = [tk EXCEPT !.st = IF tk.ph = "tool_started" THEN "uncertain" ELSE "pending", !.lease = NoAct]
                   /\ Goto(a, how)
              ELSE UNCHANGED tk /\ Goto(a, IF tk.st = "cancelled" THEN how ELSE "busy")

\* Ledger.prepare
PrepareOp(a) ==
  /\ act[a].pc = "io"
  /\ IF ActiveScope /\ ~MustStop(a)
       THEN /\ ops' = IF ops[StepOf(a)] = "none" THEN [ops EXCEPT ![StepOf(a)] = "prepared"] ELSE ops
            /\ Goto(a, "prepared") /\ UNCHANGED tk
       ELSE Raise(a, "fatal") /\ UNCHANGED ops
  /\ UNCHANGED effects /\ OnlyAct

\* Mutant of ClaimOp: the ledger row is claimed whatever its state, check_cancelled unasked.
ClaimOpAny(a) ==
  /\ act[a].pc = "prepared"
  /\ IF ActiveScope THEN ops' = [ops EXCEPT ![StepOf(a)] = "running"] /\ Goto(a, "started") /\ UNCHANGED tk
                    ELSE Raise(a, "fatal") /\ UNCHANGED ops
  /\ UNCHANGED effects /\ OnlyAct

\* Ledger.claim
ClaimOp(a) ==
  /\ act[a].pc = "prepared"
  /\ IF ActiveScope /\ ~MustStop(a) /\ ops[StepOf(a)] = "prepared"
       THEN ops' = [ops EXCEPT ![StepOf(a)] = "running"] /\ Goto(a, "started") /\ UNCHANGED tk
       ELSE Raise(a, "fatal") /\ UNCHANGED ops
  /\ UNCHANGED effects /\ OnlyAct

\* The model, the tool or the evaluator is called: the one effect of the step.
Execute(a) ==
  /\ act[a].pc = "started"
  /\ effects' = [effects EXCEPT ![StepOf(a)] = @ + 1]
  /\ Goto(a, "executed")
  /\ UNCHANGED <<tk, ops>> /\ OnlyAct

UncertainOp(a) == ops' = IF ActiveScope /\ ~MustStop(a) /\ ops[StepOf(a)] = "running"
                           THEN [ops EXCEPT ![StepOf(a)] = "uncertain"] ELSE ops

\* The call raises, before or after it reached the other side: Ledger.uncertain.
ExecuteFails(a) ==
  /\ act[a].pc = "started"
  /\ effects' \in {effects, [effects EXCEPT ![StepOf(a)] = @ + 1]}
  /\ UncertainOp(a) /\ Goto(a, "failed")
  /\ UNCHANGED tk /\ OnlyAct

\* Mutant of AttemptLeft: the retry after the last one.
AttemptAfterLast(a) == act[a].att <= MaxAttempts

AttemptLeft(a) == act[a].att < MaxAttempts

\* A transient provider error is tried again under the next attempt's step ID.
RetryModel(a) ==
  /\ act[a].pc = "failed" /\ Kind(a) = "model" /\ AttemptLeft(a) /\ ~MustStop(a)
  /\ act' = [act EXCEPT ![a].pc = "request", ![a].att = @ + 1]
  /\ UNCHANGED <<tk, ops, effects>> /\ OnlyAct

\* Anything else leaves the turn as an exception.
RaiseFailed(a) ==
  /\ act[a].pc = "failed" /\ Raise(a, "busy")
  /\ UNCHANGED <<ops, effects>> /\ OnlyAct

\* Mutant of Recordable: the UPDATE names the row only.
RecordableLate(a) == ops[StepOf(a)] # "completed"

\* Ledger.complete
Recordable(a) == ActiveScope /\ ~MustStop(a) /\ ops[StepOf(a)] = "running"

Record(a) ==
  /\ act[a].pc = "executed"
  /\ IF Recordable(a)
       THEN ops' = [ops EXCEPT ![StepOf(a)] = "completed"] /\ Goto(a, "recorded") /\ UNCHANGED tk
       ELSE Raise(a, "fatal") /\ UNCHANGED ops
  /\ UNCHANGED effects /\ OnlyAct

Done(kind) == CASE kind = "model" -> "model_received" [] kind = "tool" -> "tool_done" [] OTHER -> "evaluation_done"

\* The result is saved; a question is saved as the phase waiting_user.
Save(a) ==
  /\ act[a].pc = "recorded"
  /\ IF act[a].asks THEN Saves(a, "waiting_user", "none", "asking") ELSE Saves(a, Done(Kind(a)), "none", "saved")
  /\ UNCHANGED <<ops, effects>> /\ OnlyAct

Suspend(a) ==
  /\ act[a].pc = "asking" /\ Finishes(a, "suspended", "human")
  /\ UNCHANGED <<ops, effects>> /\ OnlyAct

Following(kind) == CASE kind = "model" -> IOKinds [] kind = "tool" -> {"tool", "model"} [] OTHER -> {"model"}

\* StepController.enter for the next kind: step_ready is saved, then the task put back.
Yield(a, next) ==
  /\ act[a].pc = "saved" /\ next \in Following(Kind(a))
  /\ Saves(a, "step_ready", next, "yielding")
  /\ UNCHANGED <<ops, effects>> /\ OnlyAct

Yielded(a) ==
  /\ act[a].pc = "yielding" /\ Finishes(a, "pending", tk.nx)
  /\ UNCHANGED <<ops, effects>> /\ OnlyAct

\* The turn returns a reply; a stop noticed at the end makes it a cancelled one.
End(a, st) ==
  /\ \/ act[a].pc \in {"preparing", "recorded", "saved"}
     \/ act[a].pc = "failed" /\ Kind(a) = "model" /\ st = "failed"
  /\ Returns(a, IF MustStop(a) THEN "cancelled" ELSE st)
  /\ UNCHANGED <<ops, effects>> /\ OnlyAct

\* next_kind(phase, checkpoint), as far as the messages leave it open
NextKinds(phase) ==
  CASE phase = "step_ready" -> {tk.nx}
    [] phase = "evaluation_done" -> {"evaluation"}
    [] phase = "model_received" -> {"tool", "evaluation"}
    [] phase = "tool_done" -> {"tool", "model"}
    [] OTHER -> {}

\* StepStore._commit of a running step: the next revision becomes ready in the same transaction.
Fits(task, kind) ==
  CASE kind = "human" -> task.st = "suspended" /\ task.ph = "waiting_user"
    [] kind = "finalize" -> task.st \in {"completed", "failed"}
    [] OTHER -> task.st = "pending" /\ kind \in NextKinds(task.ph)
Chain(r, kind) == run' = [run EXCEPT ![r].st = "completed", ![r + 1] = [st |-> "ready", kind |-> kind, fence |-> NoAct]]
OpenWait(r, kind) == ans' = IF kind = "human" THEN [ans EXCEPT ![r + 1].st = "waiting"] ELSE ans

\* Mutant of Commit: the scope of the submission is forgotten.
CommitUnscoped(a) ==
  /\ act[a].pc = "commit"
  /\ LET r == Rev(a) IN
     IF Current(a) /\ Fits(tk, act[a].next) /\ r < StepLimit
       THEN Chain(r, act[a].next) /\ OpenWait(r, act[a].next) /\ Goto(a, "ok")
       ELSE Goto(a, "fatal") /\ UNCHANGED <<run, ans>>
  /\ UNCHANGED <<sub, fenced, box, tk, ops, effects, wf, disp>>

Commit(a) ==
  /\ act[a].pc = "commit"
  /\ LET r == Rev(a) IN
     IF Scoped /\ run[r].st = "completed" THEN Goto(a, "ok") /\ UNCHANGED <<run, ans>>
     ELSE IF Scoped /\ Current(a) /\ Fits(tk, act[a].next) /\ r < StepLimit
       THEN Chain(r, act[a].next) /\ OpenWait(r, act[a].next) /\ Goto(a, "ok")
       ELSE Goto(a, "fatal") /\ UNCHANGED <<run, ans>>
  /\ UNCHANGED <<sub, fenced, box, tk, ops, effects, wf, disp>>

\* The worker process dies, or its Activity never runs.
Die(a) ==
  /\ act[a].pc \notin EndPcs \union {"unused"}
  /\ Goto(a, "dead")
  /\ UNCHANGED <<tk, ops, effects>> /\ OnlyAct

----------------------------------------------------------------------------
(* The Workflow.  A metadata Activity is repeated until its answer arrives: *)
(* every one of its transactions may run again after it took effect.        *)

Working(pc) == wf.st = "open" /\ wf.pc = pc
Closes(st) == wf' = [wf EXCEPT !.st = st]
Answers(next) == wf' \in {next, wf}
OnlyWf == UNCHANGED <<rows, effects, act, disp>>

\* bootstrap_claim issues the fence once.
WfAdopt ==
  /\ Working("adopt")
  /\ IF tk.st = "cancelled" \/ sub \in {"uncertain", "cancelled"} THEN Closes("failed") /\ UNCHANGED <<sub, fenced>>
     ELSE /\ IF sub \in {"pending", "dispatched"} THEN sub' = "running" /\ fenced' = TRUE ELSE UNCHANGED <<sub, fenced>>
          /\ wf' = [wf EXCEPT !.pc = "bootstrap"]
  /\ UNCHANGED <<box, tk, run, ops, effects, ans, act, disp>>

\* bootstrap: the first cursor exists once.
WfBootstrap ==
  /\ Working("bootstrap")
  /\ IF ~Scoped \/ (run[0].st = "none" /\ tk.st # "pending") THEN Closes("failed") /\ UNCHANGED run
     ELSE /\ run' = IF run[0].st = "none" THEN [run EXCEPT ![0].st = "ready"] ELSE run
          /\ Answers([wf EXCEPT !.pc = "step"])
  /\ UNCHANGED <<sub, fenced, box, tk, ops, effects, ans, act, disp>>

\* The cursor decides what comes next; an I/O step is scheduled once.
WfStep ==
  /\ Working("step")
  /\ LET kind == run[wf.rev].kind IN
     CASE kind = "human" -> wf' = [wf EXCEPT !.pc = "before"] /\ UNCHANGED act
       [] kind = "finalize" -> wf' = [wf EXCEPT !.pc = "finalize"] /\ UNCHANGED act
       [] kind \in IOKinds /\ wf.rev >= StepLimit -> Closes("failed") /\ UNCHANGED act
       [] OTHER -> /\ wf.act + 1 \in Acts
                   /\ wf' = [wf EXCEPT !.pc = "await", !.act = @ + 1]
                   /\ act' = [act EXCEPT ![wf.act + 1] = Activity("claim", wf.rev)]
  /\ UNCHANGED <<rows, effects, disp>>

WfResult ==
  /\ Working("await") /\ act[wf.act].pc = "ok"
  /\ wf' = [wf EXCEPT !.pc = "step", !.rev = @ + 1]
  /\ OnlyWf

\* A non-retryable failure, or one failure too many.
Ended(a) == act[a].pc \in {"busy", "dead"}
WfFails ==
  /\ Working("await")
  /\ act[wf.act].pc = "fatal" \/ (Ended(wf.act) /\ wf.rec >= RecoveryLimit)
  /\ Closes("failed") /\ OnlyWf

\* A retryable failure, or the missing heartbeat of a dead Activity.
Retried == wf' = IF wf.rec < RecoveryLimit THEN [wf EXCEPT !.pc = "recover", !.rec = @ + 1] ELSE [wf EXCEPT !.st = "failed"]
WfRetries == Working("await") /\ Ended(wf.act) /\ wf.rec < RecoveryLimit /\ Retried /\ OnlyWf

\* The Activity is alive, but its heartbeats or its ten minutes are lost.
WfGivesUp == Working("await") /\ act[wf.act].pc \notin EndPcs /\ Retried /\ OnlyWf

\* What the saved phase of a running step lets StepStore.recover commit, with "again" for
\* a step put back and {} for one that needs inspection.
PhaseRecovery(r) ==
  CASE tk.ph \in {"step_ready", "model_received", "tool_done", "evaluation_done"} -> NextKinds(tk.ph)
    [] tk.ph \in {"model_pending", "evaluation_pending"} -> IF ops[<<r, tk.att>>] \in {"none", "prepared"} THEN {"again"} ELSE {}
    [] tk.ph = "temporal_pending" -> {"again"}
    [] OTHER -> {}

Recovery(r) ==
  CASE tk.st \in {"completed", "failed"} -> {"finalize"}
    [] tk.st = "suspended" -> IF tk.ph = "waiting_user" THEN {"human"} ELSE {}
    [] OTHER -> PhaseRecovery(r)

PutBack == tk' = IF tk.st \in {"pending", "running"} THEN [tk EXCEPT !.st = "pending", !.lease = NoAct] ELSE tk

WfRecover ==
  /\ Working("recover")
  /\ LET r == wf.rev  next == [wf EXCEPT !.pc = "step"]  onward == [next EXCEPT !.rev = r + 1] IN
     \/ ~Scoped /\ Closes("failed") /\ UNCHANGED <<sub, tk, run, ops, ans>>
     \/ Scoped /\ run[r].st = "completed" /\ Answers(onward) /\ UNCHANGED <<sub, tk, run, ops, ans>>
     \/ Scoped /\ run[r].st = "ready" /\ Answers(next) /\ UNCHANGED <<sub, tk, run, ops, ans>>
     \/ /\ Scoped /\ run[r].st = "running"
        /\ \/ Recovery(r) = {} /\ FailRows /\ wf' \in {[wf EXCEPT !.st = "failed"], wf} /\ UNCHANGED <<run, ans>>
           \/ /\ "again" \in Recovery(r)
              /\ PutBack /\ run' = [run EXCEPT ![r].st = "ready", ![r].fence = NoAct]
              /\ Answers(next) /\ UNCHANGED <<sub, ops, ans>>
           \/ \E kind \in Recovery(r) \ {"again"} :
                IF r < StepLimit
                  THEN PutBack /\ Chain(r, kind) /\ OpenWait(r, kind) /\ Answers(onward) /\ UNCHANGED <<sub, ops>>
                  ELSE Closes("failed") /\ UNCHANGED <<sub, tk, run, ops, ans>>
  /\ UNCHANGED <<fenced, box, effects, act, disp>>

\* before = self.notifications, then the probe, then wait_condition.
WfBefore ==
  /\ Working("before")
  /\ wf' = [wf EXCEPT !.pc = "probe", !.note = FALSE]
  /\ OnlyWf

\* StepStore.human
WfProbe ==
  /\ Working("probe")
  /\ LET r == wf.rev  onward == [wf EXCEPT !.pc = "step", !.rev = r + 1]
         Consumes(st, task, kind) == /\ tk' = task /\ Chain(r, kind)
                                     /\ ans' = [ans EXCEPT ![r].st = st] /\ Answers(onward)
     IN
     CASE Scoped /\ run[r].st = "completed" -> Answers(onward) /\ UNCHANGED <<tk, run, ans>>
       [] Scoped /\ run[r].st # "completed" /\ tk.st = "suspended" /\ ans[r].st = "waiting" /\ ~ans[r].late ->
            Answers([wf EXCEPT !.pc = "wait"]) /\ UNCHANGED <<tk, run, ans>>
       [] Scoped /\ run[r].st # "completed" /\ tk.st = "suspended" /\ ans[r].st \in {"waiting", "answered"} /\ ans[r].late /\ r < StepLimit ->
            Consumes("expired", [tk EXCEPT !.st = "failed"], "finalize")
       [] Scoped /\ run[r].st # "completed" /\ tk.st = "suspended" /\ ans[r].st = "answered" /\ ~ans[r].late /\ r < StepLimit ->
            \E kind \in {"tool", "model"} : Consumes("consumed", [tk EXCEPT !.st = "pending", !.ph = "tool_done"], kind)
       [] OTHER -> Closes("failed") /\ UNCHANGED <<tk, run, ans>>
  /\ UNCHANGED <<sub, fenced, box, ops, effects, act, disp>>

WfWakes ==
  /\ Working("wait") /\ (wf.note \/ ans[wf.rev].late)
  /\ wf' = [wf EXCEPT !.pc = "before"]
  /\ OnlyWf

\* finalize with Store.finish
WfFinalize ==
  /\ Working("finalize")
  /\ \/ sub \in {"completed", "failed"} /\ wf' \in {[wf EXCEPT !.st = "completed"], wf} /\ UNCHANGED sub
     \/ sub = "running" /\ tk.st \in {"completed", "failed"} /\ sub' = tk.st /\ wf' \in {[wf EXCEPT !.st = "completed"], wf}
     \/ ~(sub \in {"completed", "failed"}) /\ ~(sub = "running" /\ tk.st \in {"completed", "failed"}) /\ Closes("failed") /\ UNCHANGED sub
  /\ UNCHANGED <<fenced, box, tk, run, ops, effects, ans, act, disp>>

\* A requested cancellation is raised at the next await.
WfCanceled == wf.st = "open" /\ wf.cancel /\ Closes("canceled") /\ OnlyWf

\* The execution timeout, a termination, or a metadata Activity that failed for good.
WfDies == wf.st = "open" /\ Closes("failed") /\ OnlyWf

----------------------------------------------------------------------------
(* Human answers: Decisions.answer, dispatch, and the clock *)

Answer(r) ==
  /\ sub \in {"running", "completed"} /\ tk.st = "suspended" /\ ans[r].st = "waiting" /\ ~ans[r].late
  /\ ans' = [ans EXCEPT ![r].st = "answered", ![r].sent = "pending"]
  /\ UNCHANGED <<sub, fenced, box, tk, run, ops, effects, act, wf, disp>>

\* The signal is sent, then the row marked; a death in between sends it again.
Signal(r) ==
  /\ ans[r].sent = "pending" /\ sub = "running" /\ wf.st = "open"
  /\ wf' = [wf EXCEPT !.note = TRUE]
  /\ ans' \in {[ans EXCEPT ![r].sent = "sent"], ans}
  /\ UNCHANGED <<sub, fenced, box, tk, run, ops, effects, act, disp>>

Expire(r) ==
  /\ ans[r].st \in {"waiting", "answered"} /\ ~ans[r].late
  /\ ans' = [ans EXCEPT ![r].late = TRUE]
  /\ UNCHANGED <<sub, fenced, box, tk, run, ops, effects, act, wf, disp>>

----------------------------------------------------------------------------
Advance(a) ==
  \/ StepClaim(a) \/ TakeLease(a) \/ Stop(a) \/ Enter(a) \/ Prepare(a) \/ Request(a) \/ PrepareOp(a) \/ ClaimOp(a)
  \/ Execute(a) \/ ExecuteFails(a) \/ RetryModel(a) \/ RaiseFailed(a) \/ Record(a) \/ Save(a) \/ Suspend(a)
  \/ (\E next \in IOKinds : Yield(a, next)) \/ Yielded(a) \/ (\E st \in {"completed", "failed"} : End(a, st)) \/ Commit(a)

Workflow == \/ WfAdopt \/ WfBootstrap \/ WfStep \/ WfResult \/ WfFails \/ WfRetries \/ WfRecover \/ WfBefore \/ WfProbe \/ WfWakes
            \/ WfFinalize \/ WfCanceled

Client == Submit \/ DispatchCheck \/ DispatchStart \/ DispatchCancel \/ Reconcile
          \/ \E r \in Revs : Signal(r) \/ Expire(r)

Faults == \/ Cancel \/ DispatchExpired \/ DispatchLost \/ WfGivesUp \/ WfDies
          \/ (\E a \in Acts : Die(a)) \/ (\E r \in Revs : Answer(r))

StepsNext == Client \/ Workflow \/ (\E a \in Acts : Advance(a)) \/ Faults

\* The mark after a start that went through, which the client may lose.
Marked == DispatchStart /\ (sub = "pending" => sub' = "dispatched")

\* The reconcile loop runs, the service starts a Workflow in the end, runs its code and
\* reports Activities that ended or died; the Activities' threads are scheduled.
StepsFairness == /\ WF_stepsVars(Client) /\ SF_stepsVars(Marked) /\ WF_stepsVars(Workflow)
                 /\ \A a \in Acts : WF_stepsVars(Advance(a))

StepsSpec == StepsInit /\ [][StepsNext]_stepsVars /\ StepsFairness

----------------------------------------------------------------------------
(* Properties *)

StepsTypeOK ==
  /\ sub \in SubStates /\ fenced \in BOOLEAN /\ box \in {"none", "pending", "sent"}
  /\ tk \in [st : SubStates \union {"suspended"}, ph : TaskPhases, nx : IOKinds \union {"none"}, att : 1..MaxAttempts, lease : Acts \union {NoAct}]
  /\ run \in [Revs -> [st : {"none", "ready", "running", "completed"}, kind : IOKinds \union {"human", "finalize"}, fence : Acts \union {NoAct}]]
  /\ ops \in [StepIds -> {"none", "prepared", "running", "completed", "uncertain", "rejected_no_effect"}]
  /\ effects \in [StepIds -> Nat]
  /\ ans \in [Revs -> [st : {"none", "waiting", "answered", "consumed", "expired"}, sent : {"none", "pending", "sent"}, late : BOOLEAN]]
  /\ act \in [Acts -> [pc : ActPcs, rev : Revs, next : IOKinds \union {"human", "finalize"}, att : 1..MaxAttempts, asks : BOOLEAN]]
  /\ wf \in [st : {"none", "open", "completed", "failed", "canceled"}, pc : WfPcs, rev : Revs, rec : 0..RecoveryLimit,
             act : Acts \union {NoAct}, note : BOOLEAN, cancel : BOOLEAN]
  /\ disp \in {"idle", "checked"}

\* However often the Workflow gives an Activity up and starts another for the same
\* cursor, the model, the tool or the evaluator of a logical step is called once.
OperationOnce == \A o \in StepIds : effects[o] <= 1

\* After a cancellation or a failure nothing of the late Activities is accepted: no
\* result, no cursor, no claimed call, no change of the task but its cancellation.
LateResultsRefused ==
  [][(sub \in {"cancelled", "uncertain"}) =>
       /\ sub' = sub /\ run' = run
       /\ \A o \in StepIds : ops'[o] \in {"running", "completed"} => ops'[o] = ops[o]
       /\ tk' # tk => tk'.st = "cancelled"]_stepsVars

\* The submission keeps the contract of a durable task: calls made and learnt once, one
\* outcome, no success over a tool whose result is unknown.
Made == {o \in StepIds : effects[o] > 0}
Contract == INSTANCE TaskContract WITH
  Calls <- StepIds,
  Supplied <- {},
  called <- Made,
  risky <- {o \in Made : run[o[1]].kind = "tool"},
  known <- {o \in StepIds : ops[o] = "completed"},
  outcome <- CASE sub \in OpenSub \union {"none"} -> "open" [] sub = "uncertain" -> "unknown" [] OTHER -> sub
ContractKept == Contract!ContractSpec
=============================================================================
