------------------------------ MODULE TaskLease ------------------------------
(****************************************************************************)
(* Durable tasks: the SQLite task table of agent_execution/tasks.py, the    *)
(* workers that run a task under durable_invoke, the agent loop of          *)
(* server.run_agent seen through the checkpoints it writes, and the humans  *)
(* who answer, resolve, cancel or clear.                                    *)
(*                                                                          *)
(* Time is abstract.  The code only ever asks whether lease_until lies in   *)
(* the future: the lease column is null, live or expired, a live lease       *)
(* expires at any moment (a paused process does not renew) and a successful *)
(* renew leaves it live.                                                    *)
(* A lease token (uuid4) is the number of the claim that created it: fresh, *)
(* never reused.  Conversation messages are reduced to the calls of the     *)
(* last assistant message and the calls that have a tool message.           *)
(****************************************************************************)
EXTENDS Naturals, FiniteSets

CONSTANTS
  Tasks,          \* task keys of one owner (source, identity, project, session)
  SkillTasks,     \* the tasks that are invoked as a whole skill
  Workers,        \* threads and processes that may run a task
  Calls,          \* tool call ids the model may issue
  AskCalls,       \* the calls that are ask_user
  SkillStep,      \* the step id 'skill'
  NoCall,
  NoTask,
  UseEvaluator,   \* whether the runtime has a task_evaluator
  MaxRecoveries,  \* the limit 3 of TaskStore.claim
  MaxIterations,  \* max_iterations
  MaxEvalRetries  \* max_eval_retries

ASSUME ConstantsAssumption ==
  /\ SkillTasks \subseteq Tasks /\ AskCalls \subseteq Calls
  /\ SkillStep \notin Calls /\ NoCall \notin Calls /\ NoCall # SkillStep
  /\ NoTask \notin Tasks
  /\ UseEvaluator \in BOOLEAN
  /\ MaxRecoveries \in Nat \ {0} /\ MaxIterations \in Nat \ {0} /\ MaxEvalRetries \in Nat

StepIds == Calls \cup {SkillStep}

Terminal == {"completed", "failed", "cancelled"}
States == Terminal \cup {"absent", "pending", "running", "suspended", "uncertain"}

Started == {"tool_started", "skill_started"}
Phases == Started \cup
  {"model_pending", "model_received", "tool_done", "evaluation_pending", "evaluation_done",
   "waiting_user", "skill_executed", "skill_done"}

StepStates == {"none", "running", "completed", "failed", "resolved_by_human"}

Verdicts == {"fail", "pass", "verified"}

Results == {"success", "failure"}

Rows == [state : States, phase : Phases, owner : Nat, lease : {"null", "live", "expired"},
         attempts : Nat, recoveries : 0..MaxRecoveries, reply : {"null", "text"},
         verification : {"unverified", "verified_completed"}]

Checkpoints == [asked : SUBSET Calls, done : SUBSET Calls, eval : Verdicts \cup {"none"},
                wait : Calls \cup {NoCall}, iter : 0..MaxIterations,
                retries : 0..MaxEvalRetries, skill : Results \cup {"none"}]

AgentPcs == {"model", "calling", "tools", "executing", "executed", "observed",
             "final", "judging", "verdict"}
SkillPcs == {"skill_start", "skill_run", "skill_ran", "skill_verify"}
Pcs == AgentPcs \cup SkillPcs \cup
  {"idle", "answering", "claiming", "suspending", "finishing", "raising"}

Memories == [pc : Pcs, task : Tasks \cup {NoTask}, token : Nat, resume : {"no", "yes"},
             asked : SUBSET Calls, done : SUBSET Calls, todo : SUBSET Calls,
             cur : StepIds \cup {NoCall}, ask : Calls \cup {NoCall},
             eval : Verdicts \cup {"none"}, iter : 0..MaxIterations,
             retries : 0..MaxEvalRetries,
             result : Results \cup {"none"}, lost : {"no", "yes"},
             outcome : {"completed", "failed", "none"}]

VARIABLES
  task,      \* the rows of table tasks; "absent" is a missing row
  cp,        \* their checkpoint column
  step,      \* table task_steps
  wk,        \* what each worker holds in memory
  effects,   \* history: how often each step has really been executed
  issued,    \* history: the call ids any model response has carried
  answerOf   \* history: for each answered call, the question the human had read

vars == <<task, cp, step, wk, effects, issued, answerOf>>

NoRow == [state |-> "absent", phase |-> "model_pending", owner |-> 0, lease |-> "null",
          attempts |-> 0, recoveries |-> 0, reply |-> "null", verification |-> "unverified"]

EmptyCheckpoint == [asked |-> {}, done |-> {}, eval |-> "none", wait |-> NoCall,
                    iter |-> 0, retries |-> 0, skill |-> "none"]

Idle == [pc |-> "idle", task |-> NoTask, token |-> 0, resume |-> "no",
         asked |-> {}, done |-> {}, todo |-> {}, cur |-> NoCall, ask |-> NoCall,
         eval |-> "none", iter |-> 0, retries |-> 0, result |-> "none",
         lost |-> "no", outcome |-> "none"]

Init ==
  /\ task = [t \in Tasks |-> NoRow]
  /\ cp = [t \in Tasks |-> EmptyCheckpoint]
  /\ step = [t \in Tasks |-> [s \in StepIds |-> "none"]]
  /\ wk = [w \in Workers |-> Idle]
  /\ effects = [t \in Tasks |-> [s \in StepIds |-> 0]]
  /\ issued = [t \in Tasks |-> {}]
  /\ answerOf = [t \in Tasks |-> [c \in Calls |-> NoCall]]

-----------------------------------------------------------------------------
(* Claiming a task. *)

\* Mutants of Claimable: the recovery limit or the started phases are forgotten.
ClaimableUnlimited(t) ==
  /\ task[t].state \in {"absent", "pending", "running"}
  /\ task[t].lease # "live" /\ task[t].phase \notin Started
ClaimableStarted(t) ==
  /\ task[t].state \in {"absent", "pending", "running"}
  /\ task[t].lease # "live" /\ task[t].recoveries < MaxRecoveries

\* A claim of t would get past every refusal of TaskStore.claim.
Claimable(t) ==
  /\ task[t].state \in {"absent", "pending", "running"}
  /\ task[t].lease # "live"
  /\ task[t].phase \notin Started
  /\ task[t].recoveries < MaxRecoveries

\* An iteration whose model call was never answered is not counted.
ResumeIter(t) ==
  IF task[t].phase = "model_pending" /\ cp[t].iter > 0 THEN cp[t].iter - 1 ELSE cp[t].iter

\* Where run_agent continues from a loaded checkpoint.  "model" is the head of
\* the loop; at the iteration limit the loop is not entered, whatever is saved.
ResumePc(t) ==
  IF ResumeIter(t) >= MaxIterations THEN "model"
  ELSE IF task[t].phase \in {"evaluation_pending", "evaluation_done"}
       \/ (task[t].phase = "model_received" /\ cp[t].asked = {})
    THEN "final"
    ELSE IF cp[t].asked \subseteq cp[t].done THEN "model" ELSE "tools"

Modes == {"turn", "skill"}   \* the argument skill of durable_invoke

\* Where durable_invoke continues.
EntryPc(t, mode) ==
  CASE task[t].phase = "skill_done"     -> "finishing"
    [] task[t].phase = "skill_executed" -> "skill_verify"
    [] task[t].phase \notin {"skill_done", "skill_executed"} /\ mode = "skill" -> "skill_start"
    [] OTHER -> ResumePc(t)

OutcomeOf(result) == IF result = "success" THEN "completed" ELSE "failed"

\* Mutant of NewToken: a recovery goes on with the token it finds in the row.
TokenOfRow(t) == IF task[t].owner = 0 THEN task[t].attempts + 1 ELSE task[t].owner

NewToken(t) == task[t].attempts + 1   \* uuid4().hex

Loaded(t, mode) ==
  [pc |-> EntryPc(t, mode), task |-> t, token |-> NewToken(t),
   resume |-> IF task[t].state = "absent" THEN "no" ELSE "yes",
   asked |-> cp[t].asked, done |-> cp[t].done, todo |-> cp[t].asked \ cp[t].done,
   cur |-> NoCall, ask |-> NoCall,
   eval |-> IF task[t].phase = "evaluation_done" THEN cp[t].eval ELSE "none",
   iter |-> ResumeIter(t), retries |-> cp[t].retries, result |-> cp[t].skill, lost |-> "no",
   outcome |-> OutcomeOf(cp[t].skill)]

\* A claim that succeeds.  It counts as a recovery when the row was left
\* running or carries the reply of an attempt that raised.
Claim(w, t, mode) ==
  /\ \/ wk[w].pc = "idle" /\ mode = "skill" /\ t \in SkillTasks
     \/ wk[w].pc = "idle" /\ mode = "turn" /\ (t \in SkillTasks => task[t].state # "absent")
     \/ wk[w].pc = "claiming" /\ mode = "turn" /\ wk[w].task = t
  /\ Claimable(t)
  /\ LET recovery == task[t].state = "running" \/ task[t].reply # "null"
     IN  task' = [task EXCEPT ![t].state = "running", ![t].owner = NewToken(t),
                              ![t].lease = "live", ![t].attempts = task[t].attempts + 1,
                              ![t].recoveries = IF recovery THEN @ + 1 ELSE @]
  /\ wk' = [wk EXCEPT ![w] = Loaded(t, mode)]
  /\ UNCHANGED <<cp, step, effects, issued, answerOf>>

\* Mutant of ClaimUncertain: only a started tool is given up.
ClaimUncertainTool(t) ==
  /\ task[t].state \notin Terminal \cup {"absent", "uncertain"}
  /\ task[t].lease # "live" /\ task[t].phase = "tool_started"
  /\ task' = [task EXCEPT ![t].state = "uncertain"]
  /\ UNCHANGED <<cp, step, wk, effects, issued, answerOf>>

\* A claim that finds a dead worker's row in a phase that may already have had
\* effects records it as uncertain before it refuses; the lease columns stay.
ClaimUncertain(t) ==
  /\ task[t].state \notin Terminal \cup {"absent", "uncertain"}
  /\ task[t].lease # "live"
  /\ task[t].phase \in Started
  /\ task' = [task EXCEPT ![t].state = "uncertain"]
  /\ UNCHANGED <<cp, step, wk, effects, issued, answerOf>>

\* The claim that follows a saved answer is refused: another worker was faster.
ClaimRefused(w) ==
  /\ wk[w].pc = "claiming"
  /\ ~Claimable(wk[w].task)
  /\ wk' = [wk EXCEPT ![w] = Idle]
  /\ UNCHANGED <<task, cp, step, effects, issued, answerOf>>

-----------------------------------------------------------------------------
(* What a worker may write.  Every checkpoint is an UPDATE guarded by the   *)
(* lease token, the state running and a lease that is still live.           *)

\* Mutant of Holds: the lease token is not compared.
HoldsAnyToken(w) ==
  /\ wk[w].task \in Tasks
  /\ task[wk[w].task].state = "running" /\ task[wk[w].task].lease = "live"

Holds(w) ==
  /\ wk[w].task \in Tasks
  /\ task[wk[w].task].owner = wk[w].token
  /\ task[wk[w].task].state = "running"
  /\ task[wk[w].task].lease = "live"

Checkpoint(w, phase, data) ==
  /\ Holds(w)
  /\ task' = [task EXCEPT ![wk[w].task].phase = phase]
  /\ cp' = [cp EXCEPT ![wk[w].task] = data]

\* Mutant of StepUpsert: a failed result is not recorded.
StepUpsertSuccess(w, s, state) ==
  step' = IF state = "failed" THEN step ELSE [step EXCEPT ![wk[w].task][s] = state]

StepUpsert(w, s, state) == step' = [step EXCEPT ![wk[w].task][s] = state]

\* The checkpoint data run_agent saves: messages and counters, and nothing of
\* an earlier evaluation, question or skill result.
Messages(w, asked, done) ==
  [EmptyCheckpoint EXCEPT !.asked = asked, !.done = done,
                          !.iter = wk[w].iter, !.retries = wk[w].retries]

Saved(w) == Messages(w, wk[w].asked, wk[w].done)

\* The invocation is left for its ending; the turn's own data is done with.
Leaving(w, pc, outcome) ==
  [Idle EXCEPT !.pc = pc, !.task = wk[w].task, !.token = wk[w].token,
               !.lost = wk[w].lost, !.outcome = outcome]

-----------------------------------------------------------------------------
(* The agent loop. *)

LoopHead(w) ==
  \/ wk[w].pc = "model"
  \/ wk[w].pc = "tools" /\ wk[w].todo = {} /\ wk[w].ask = NoCall

\* No cancellation seen: the model_pending checkpoint of the next iteration.
ModelPending(w) ==
  /\ LoopHead(w) /\ wk[w].iter < MaxIterations
  /\ wk[w].lost = "no"
  /\ Checkpoint(w, "model_pending", [Saved(w) EXCEPT !.iter = @ + 1])
  /\ wk' = [wk EXCEPT ![w].pc = "calling", ![w].iter = @ + 1,
                      ![w].resume = IF wk[w].pc = "model" THEN @ ELSE "no"]
  /\ UNCHANGED <<step, effects, issued, answerOf>>

FreshCalls(w) == Calls \ issued[wk[w].task]

\* The model answered with the calls cs (none: a final reply).
ModelReceived(w, cs) ==
  /\ wk[w].pc = "calling"
  /\ cs \subseteq FreshCalls(w)
  /\ Checkpoint(w, "model_received", Messages(w, cs, wk[w].done))
  /\ wk' = [wk EXCEPT ![w].pc = IF cs = {} THEN "final" ELSE "tools",
                      ![w].asked = cs, ![w].todo = cs]
  /\ issued' = [issued EXCEPT ![wk[w].task] = @ \cup cs]
  /\ UNCHANGED <<step, effects, answerOf>>

\* A POST_MODEL_CALL hook appends feedback: the response stays in the messages,
\* nothing is saved, and the loop starts again.  Only a resumed turn then looks
\* for unfinished calls of the last assistant message.
ModelFeedback(w, cs) ==
  /\ wk[w].pc = "calling"
  /\ cs \subseteq FreshCalls(w)
  /\ wk' = [wk EXCEPT ![w].pc = IF /\ wk[w].resume = "yes" /\ cs # {}
                                       /\ wk[w].iter < MaxIterations
                                    THEN "tools" ELSE "model",
                      ![w].asked = cs, ![w].todo = cs]
  /\ issued' = [issued EXCEPT ![wk[w].task] = @ \cup cs]
  /\ UNCHANGED <<task, cp, step, effects, answerOf>>

\* The batch of tool calls is entered below the iteration limit only.
InBatch(w, c) ==
  /\ wk[w].pc = "tools" /\ c \in wk[w].todo
  /\ wk[w].iter < MaxIterations

\* A hook blocks the call, or ask_user itself fails: a failed result is saved
\* and the tool is not run.
ToolRefused(w, c) ==
  /\ InBatch(w, c)
  /\ Checkpoint(w, "tool_done", Messages(w, wk[w].asked, wk[w].done \cup {c}))
  /\ StepUpsert(w, c, "failed")
  /\ wk' = [wk EXCEPT ![w].todo = @ \ {c}, ![w].done = @ \cup {c}]
  /\ UNCHANGED <<effects, issued, answerOf>>

\* ask_user: the first question of the turn is remembered, later tools still run.
AskUser(w, c) ==
  /\ InBatch(w, c) /\ c \in AskCalls
  /\ wk[w].lost = "no"
  /\ wk' = [wk EXCEPT ![w].todo = @ \ {c}, ![w].ask = IF @ = NoCall THEN c ELSE @]
  /\ UNCHANGED <<task, cp, step, effects, issued, answerOf>>

ToolStarted(w, c) ==
  /\ InBatch(w, c) /\ c \notin AskCalls
  /\ wk[w].lost = "no"
  /\ Checkpoint(w, "tool_started", Saved(w))
  /\ StepUpsert(w, c, "running")
  /\ wk' = [wk EXCEPT ![w].pc = "executing", ![w].cur = c]
  /\ UNCHANGED <<effects, issued, answerOf>>

\* tool_step runs the tool.  Nothing ties this to the lease: a worker that was
\* paused after tool_started runs the tool when it wakes up.
ExecuteTool(w) ==
  /\ wk[w].pc = "executing"
  /\ effects' = [effects EXCEPT ![wk[w].task][wk[w].cur] = @ + 1]
  /\ wk' = [wk EXCEPT ![w].pc = "executed"]
  /\ UNCHANGED <<task, cp, step, issued, answerOf>>

\* progress.before recognised a repeated call: an earlier read is reused or the
\* call is refused, without running the tool.
ReuseResult(w) ==
  /\ wk[w].pc = "executing"
  /\ wk' = [wk EXCEPT ![w].pc = "executed"]
  /\ UNCHANGED <<task, cp, step, effects, issued, answerOf>>

\* The result is saved before the POST_TOOL_EXECUTE hooks see it.
ToolDone(w, r) ==
  /\ wk[w].pc = "executed"
  /\ Checkpoint(w, "tool_done", Messages(w, wk[w].asked, wk[w].done \cup {wk[w].cur}))
  /\ StepUpsert(w, wk[w].cur, OutcomeOf(r))
  /\ wk' = [wk EXCEPT ![w].pc = "observed", ![w].result = r]
  /\ UNCHANGED <<effects, issued, answerOf>>

\* The hooks may turn a success into a failure, never the reverse.
ToolObserved(w, r) ==
  /\ wk[w].pc = "observed"
  /\ Checkpoint(w, "tool_done", Messages(w, wk[w].asked, wk[w].done \cup {wk[w].cur}))
  /\ StepUpsert(w, wk[w].cur, IF wk[w].result = "success" THEN OutcomeOf(r) ELSE "failed")
  /\ wk' = [wk EXCEPT ![w].pc = "tools", ![w].cur = NoCall, ![w].result = "none",
                      ![w].todo = @ \ {wk[w].cur}, ![w].done = @ \cup {wk[w].cur}]
  /\ UNCHANGED <<effects, issued, answerOf>>

\* Mutant of Suspend: the question's id is not saved.
SuspendUnnamed(w) ==
  /\ wk[w].pc = "tools" /\ wk[w].todo = {} /\ wk[w].ask # NoCall
  /\ Checkpoint(w, "waiting_user",
       [cp[wk[w].task] EXCEPT !.asked = wk[w].asked, !.done = wk[w].done])
  /\ wk' = [wk EXCEPT ![w] = Leaving(w, "suspending", "none")]
  /\ UNCHANGED <<step, effects, issued, answerOf>>

\* TaskSuspendedException: the question is saved with the rest of the stored
\* checkpoint, then the row is finished as suspended.
Suspend(w) ==
  /\ wk[w].pc = "tools" /\ wk[w].todo = {} /\ wk[w].ask # NoCall
  /\ Checkpoint(w, "waiting_user",
       [cp[wk[w].task] EXCEPT !.asked = wk[w].asked, !.done = wk[w].done, !.wait = wk[w].ask])
  /\ wk' = [wk EXCEPT ![w] = Leaving(w, "suspending", "none")]
  /\ UNCHANGED <<step, effects, issued, answerOf>>

\* The judge runs only when no saved verdict was loaded.
EvaluationPending(w) ==
  /\ UseEvaluator
  /\ wk[w].pc = "final" /\ wk[w].eval = "none"
  /\ Checkpoint(w, "evaluation_pending", Saved(w))
  /\ wk' = [wk EXCEPT ![w].pc = "judging"]
  /\ UNCHANGED <<step, effects, issued, answerOf>>

EvaluationDone(w, v) ==
  /\ UseEvaluator
  /\ \/ wk[w].pc = "judging"
     \/ wk[w].pc = "final" /\ wk[w].eval = v
  /\ Checkpoint(w, "evaluation_done", [Saved(w) EXCEPT !.eval = v])
  /\ wk' = [wk EXCEPT ![w].pc = "verdict", ![w].eval = v, ![w].resume = "no"]
  /\ UNCHANGED <<step, effects, issued, answerOf>>

\* Rejected, and the turn may try again: the verdict is dropped with the
\* model_pending checkpoint.
CriticRetry(w) ==
  /\ wk[w].pc = "verdict" /\ wk[w].eval = "fail"
  /\ wk[w].retries < MaxEvalRetries /\ wk[w].iter < MaxIterations
  /\ Checkpoint(w, "model_pending", [Saved(w) EXCEPT !.retries = @ + 1])
  /\ wk' = [wk EXCEPT ![w].pc = "model", ![w].retries = @ + 1, ![w].eval = "none"]
  /\ UNCHANGED <<step, effects, issued, answerOf>>

Finishing(w, outcome) ==
  /\ wk' = [wk EXCEPT ![w] = Leaving(w, "finishing", outcome)]
  /\ UNCHANGED <<task, cp, step, effects, issued, answerOf>>

\* The judged reply is returned, or the task is handed over to a human.
Conclude(w) ==
  /\ wk[w].pc = "verdict"
  /\ Finishing(w, IF wk[w].eval = "fail" THEN "failed" ELSE "completed")

\* The iterations are used up: at the loop head, or with tool calls left to run.
LimitReached(w) ==
  /\ LoopHead(w) \/ (wk[w].pc = "tools" /\ wk[w].todo # {})
  /\ wk[w].iter >= MaxIterations
  /\ Finishing(w, "failed")

\* run_agent returns from elsewhere: a hook returns early, the provider or the
\* budget fails, or there is no evaluator.
ReturnEarly(w, outcome) ==
  /\ \/ wk[w].pc \in {"calling", "observed"}
     \/ /\ LoopHead(w) \/ (wk[w].pc = "tools" /\ wk[w].todo # {})
        /\ wk[w].iter < MaxIterations
     \/ wk[w].pc = "final" /\ ~UseEvaluator /\ outcome = "completed"
  /\ Finishing(w, outcome)

\* A cancellation check of the loop sees that the lease is lost or that the
\* caller cancelled.
Stopped(w) ==
  /\ wk[w].lost = "yes"
  /\ \/ LoopHead(w) \/ wk[w].pc = "calling"
     \/ wk[w].pc = "tools" /\ wk[w].todo # {}
     \/ wk[w].pc = "final" /\ wk[w].resume = "yes"
  /\ Finishing(w, "completed")

-----------------------------------------------------------------------------
(* A whole skill is one step. *)

SkillStarted(w) ==
  /\ wk[w].pc = "skill_start"
  /\ Checkpoint(w, "skill_started", Saved(w))
  /\ StepUpsert(w, SkillStep, "running")
  /\ wk' = [wk EXCEPT ![w].pc = "skill_run", ![w].cur = SkillStep]
  /\ UNCHANGED <<effects, issued, answerOf>>

RunSkill(w, r) ==
  /\ wk[w].pc = "skill_run"
  /\ effects' = [effects EXCEPT ![wk[w].task][SkillStep] = @ + 1]
  /\ wk' = [wk EXCEPT ![w].pc = "skill_ran", ![w].result = r]
  /\ UNCHANGED <<task, cp, step, issued, answerOf>>

SkillExecuted(w) ==
  /\ wk[w].pc = "skill_ran"
  /\ Checkpoint(w, "skill_executed", [Saved(w) EXCEPT !.skill = wk[w].result])
  /\ StepUpsert(w, SkillStep, OutcomeOf(wk[w].result))
  /\ wk' = [wk EXCEPT ![w].pc = "skill_verify"]
  /\ UNCHANGED <<effects, issued, answerOf>>

\* verify_skill may reject a success and attaches its verdict to the result.
SkillDone(w, v) ==
  /\ wk[w].pc = "skill_verify"
  /\ LET r == IF v = "fail" THEN "failure" ELSE wk[w].result
     IN  /\ Checkpoint(w, "skill_done", [Saved(w) EXCEPT !.skill = r, !.eval = v])
         /\ StepUpsert(w, SkillStep, OutcomeOf(r))
         /\ wk' = [wk EXCEPT ![w] = Leaving(w, "finishing", OutcomeOf(r))]
  /\ UNCHANGED <<effects, issued, answerOf>>

-----------------------------------------------------------------------------
(* How an invocation ends. *)

\* Mutant of MayFinish: the UPDATE names the task only.
MayFinishAny(w) == wk[w].task \in Tasks

\* TaskStore.finish updates by token and live lease alone, whatever the state.
MayFinish(w) ==
  /\ wk[w].task \in Tasks
  /\ task[wk[w].task].owner = wk[w].token
  /\ task[wk[w].task].lease = "live"

\* Mutant of Verification: the verdict counts whatever the state.
VerificationOfVerdict(t, state) ==
  IF cp[t].eval = "verified" THEN "verified_completed" ELSE "unverified"

Verification(t, state) ==
  IF state = "completed" /\ cp[t].eval = "verified" THEN "verified_completed" ELSE "unverified"

FinishRow(w, state) ==
  /\ MayFinish(w)
  /\ task' = [task EXCEPT ![wk[w].task].state = state,
                          ![wk[w].task].reply = "text",
                          ![wk[w].task].verification = Verification(wk[w].task, state),
                          ![wk[w].task].owner = 0,
                          ![wk[w].task].lease = "null"]
  /\ wk' = [wk EXCEPT ![w] = Idle]
  /\ UNCHANGED <<cp, step, effects, issued, answerOf>>

\* The function returned.  A lost lease or a cancelled caller wins over the result.
Finish(w) ==
  /\ wk[w].pc = "finishing"
  /\ FinishRow(w, IF wk[w].lost = "yes" THEN "cancelled" ELSE wk[w].outcome)

FinishSuspended(w) ==
  /\ wk[w].pc = "suspending"
  /\ FinishRow(w, "suspended")

\* Where a model request is made that run_agent does not guard itself: by a
\* tool, by a skill, by the judge of either.
BudgetPcs == {"executing", "judging", "skill_run", "skill_verify"}

\* Anything raises: storage, capacity, a deleting owner, the tool itself.  The
\* error of an exhausted budget is told apart from every other.  An error while
\* the question is saved is not handled again: that is a Crash here.
Raise(w, outcome) ==
  /\ wk[w].pc \in IF outcome = "failed" THEN BudgetPcs
                    ELSE AgentPcs \cup SkillPcs \cup {"finishing"}
  /\ ~(wk[w].pc = "tools" /\ wk[w].todo = {} /\ wk[w].ask # NoCall)
  /\ wk' = [wk EXCEPT ![w] = Leaving(w, "raising", outcome)]
  /\ UNCHANGED <<task, cp, step, effects, issued, answerOf>>

\* A checkpoint finds the lease lost: TaskBusy.
RaiseBusy(w) ==
  /\ wk[w].pc \in (AgentPcs \cup SkillPcs) \ {"executing", "skill_run"}
  /\ ~Holds(w)
  /\ wk' = [wk EXCEPT ![w] = Leaving(w, "raising", "none")]
  /\ UNCHANGED <<task, cp, step, effects, issued, answerOf>>

\* The except branch of durable_invoke.  A started phase is never retried.
HandleError(w) ==
  /\ wk[w].pc = "raising"
  /\ FinishRow(w, CASE task[wk[w].task].phase \in Started -> "uncertain"
                    [] task[wk[w].task].phase \notin Started /\ wk[w].outcome = "failed" -> "failed"
                    [] OTHER -> "pending")

\* The row is cancelled or another worker's: nothing is written.
FinishRefused(w) ==
  /\ wk[w].pc \in {"finishing", "suspending", "raising"}
  /\ ~MayFinish(w)
  /\ wk' = [wk EXCEPT ![w] = Idle]
  /\ UNCHANGED <<task, cp, step, effects, issued, answerOf>>

\* The process dies: only what it held in memory is gone.
Crash(w) ==
  /\ wk[w].pc # "idle"
  /\ wk' = [wk EXCEPT ![w] = Idle]
  /\ UNCHANGED <<task, cp, step, effects, issued, answerOf>>

\* The heartbeat or the cancellation check finds the row gone or raises, or the
\* caller's own check_cancelled is true.  The flag is never taken back.
SetLost(w) ==
  /\ wk[w].pc \in AgentPcs \cup SkillPcs \cup {"finishing"}
  /\ wk[w].lost = "no"
  /\ wk' = [wk EXCEPT ![w].lost = "yes"]
  /\ UNCHANGED <<task, cp, step, effects, issued, answerOf>>

-----------------------------------------------------------------------------
(* Time, humans and the recovery scan. *)

LeaseExpires(t) ==
  /\ task[t].lease = "live"
  /\ task' = [task EXCEPT ![t].lease = "expired"]
  /\ UNCHANGED <<cp, step, wk, effects, issued, answerOf>>

\* durable_invoke(resume) has read the suspended row and matched the answer
\* against its question; the wait's deadline had not passed.
ReadWait(w, t) ==
  /\ wk[w].pc = "idle"
  /\ task[t].state = "suspended"
  /\ wk' = [wk EXCEPT ![w] = [Idle EXCEPT !.pc = "answering", !.task = t, !.cur = cp[t].wait]]
  /\ UNCHANGED <<task, cp, step, effects, issued, answerOf>>

\* TaskStore.answer, a transaction of its own: it answers whatever question the
\* row holds by then.
Answer(w) ==
  LET t == wk[w].task IN
  /\ wk[w].pc = "answering"
  /\ task[t].state = "suspended" /\ cp[t].wait # NoCall
  /\ task' = [task EXCEPT ![t].state = "pending", ![t].phase = "tool_done", ![t].reply = "null"]
  /\ cp' = [cp EXCEPT ![t].done = @ \cup {cp[t].wait}, ![t].wait = NoCall]
  /\ answerOf' = [answerOf EXCEPT ![t][cp[t].wait] = wk[w].cur]
  /\ wk' = [wk EXCEPT ![w].pc = "claiming", ![w].cur = NoCall]
  /\ UNCHANGED <<step, effects, issued>>

AnswerRefused(w) ==
  /\ wk[w].pc = "answering"
  /\ task[wk[w].task].state # "suspended" \/ cp[wk[w].task].wait = NoCall
  /\ wk' = [wk EXCEPT ![w] = Idle]
  /\ UNCHANGED <<task, cp, step, effects, issued, answerOf>>

\* /resolve: an admin supplies the observed result of the uncertain call.
Resolve(t, c) ==
  /\ task[t].state = "uncertain" /\ task[t].phase = "tool_started"
  /\ step[t][c] = "running"
  /\ task' = [task EXCEPT ![t].state = "pending", ![t].phase = "tool_done",
                          ![t].owner = 0, ![t].lease = "null"]
  /\ cp' = [cp EXCEPT ![t].done = @ \cup {c}]
  /\ step' = [step EXCEPT ![t][c] = "resolved_by_human"]
  /\ UNCHANGED <<wk, effects, issued, answerOf>>

\* Mutant of Cancelled: the lease columns stay.
CancelledLeased(row) == [row EXCEPT !.state = "cancelled", !.reply = "text"]

Cancelled(row) ==
  [row EXCEPT !.state = "cancelled", !.reply = "text", !.owner = 0, !.lease = "null"]

Cancel(t) ==
  /\ task[t].state \notin Terminal \cup {"absent"}
  /\ task' = [task EXCEPT ![t] = Cancelled(@)]
  /\ UNCHANGED <<cp, step, wk, effects, issued, answerOf>>

\* /clear: every unfinished task of the owner.
CancelSession ==
  /\ \E t \in Tasks : task[t].state \notin Terminal \cup {"absent"}
  /\ task' = [t \in Tasks |-> IF task[t].state \in Terminal \cup {"absent"}
                               THEN task[t] ELSE Cancelled(task[t])]
  /\ UNCHANGED <<cp, step, wk, effects, issued, answerOf>>

\* mark_uncertain: the recovery scan or an operator gives up a running row whose
\* lease has expired.  The callers have looked at the phase or at the node; the
\* UPDATE itself looks at neither.
MarkUncertain(t) ==
  /\ task[t].state = "running" /\ task[t].lease = "expired"
  /\ task' = [task EXCEPT ![t].state = "uncertain", ![t].owner = 0, ![t].lease = "null"]
  /\ UNCHANGED <<cp, step, wk, effects, issued, answerOf>>

\* A new request, of these tasks or another, may retire a question whose deadline has
\* passed (any time after the question, here); a request id that has a row may not.
RetireExpiredWait(t, incoming) ==
  /\ task[t].state = "suspended"
  /\ task[t].phase = "waiting_user" /\ task[t].lease # "live"
  /\ incoming \in Tasks => task[incoming].state = "absent"
  /\ task' = [task EXCEPT ![t] = Cancelled(@)]
  /\ UNCHANGED <<cp, step, wk, effects, issued, answerOf>>

-----------------------------------------------------------------------------
AgentStep(w) ==
  \/ ModelPending(w)
  \/ \E cs \in SUBSET Calls : ModelReceived(w, cs) \/ ModelFeedback(w, cs)
  \/ \E c \in Calls : ToolRefused(w, c) \/ AskUser(w, c) \/ ToolStarted(w, c)
  \/ ExecuteTool(w) \/ ReuseResult(w)
  \/ \E r \in Results : ToolDone(w, r) \/ ToolObserved(w, r)
  \/ Suspend(w)
  \/ EvaluationPending(w)
  \/ \E v \in Verdicts : EvaluationDone(w, v)
  \/ CriticRetry(w) \/ Conclude(w) \/ Stopped(w) \/ LimitReached(w)
  \/ \E o \in {"completed", "failed"} : ReturnEarly(w, o)

SkillAction(w) ==
  \/ SkillStarted(w) \/ SkillExecuted(w)
  \/ \E r \in Results : RunSkill(w, r)
  \/ \E v \in Verdicts : SkillDone(w, v)

EndStep(w) ==
  \/ Finish(w) \/ FinishSuspended(w) \/ FinishRefused(w)
  \/ RaiseBusy(w) \/ HandleError(w)

WorkerStep(w) == AgentStep(w) \/ SkillAction(w) \/ EndStep(w)

EntryStep(w) ==
  \/ \E t \in Tasks, mode \in Modes : Claim(w, t, mode)
  \/ \E t \in Tasks : ReadWait(w, t)
  \/ ClaimRefused(w) \/ Answer(w) \/ AnswerRefused(w)

Fault(w) == (\E o \in {"failed", "none"} : Raise(w, o)) \/ Crash(w) \/ SetLost(w)

HumanStep(t) ==
  \/ Cancel(t)
  \/ \E c \in Calls : Resolve(t, c)
  \/ \E i \in Tasks \cup {NoTask} : RetireExpiredWait(t, i)

ScanStep(t) == ClaimUncertain(t) \/ MarkUncertain(t)

Next ==
  \/ \E w \in Workers : WorkerStep(w) \/ EntryStep(w) \/ Fault(w)
  \/ \E t \in Tasks : HumanStep(t) \/ ScanStep(t) \/ LeaseExpires(t)
  \/ CancelSession

Spec == Init /\ [][Next]_vars

\* Time passes for the lease of a worker that is gone.
OrphanExpires(t) == LeaseExpires(t) /\ ~\E w \in Workers : Holds(w) /\ wk[w].task = t

\* A worker that is running goes on, an orphaned lease runs out, and the
\* recovery scan of the communication worker claims what is left; humans and
\* faults owe nothing.
Fairness ==
  /\ \A w \in Workers : /\ WF_vars(WorkerStep(w))
                        /\ WF_vars(ClaimRefused(w) \/ Answer(w) \/ AnswerRefused(w))
  /\ \A t \in Tasks : /\ WF_vars(OrphanExpires(t))
                      /\ WF_vars(ClaimUncertain(t))
                      /\ WF_vars(\E w \in Workers, mode \in Modes : Claim(w, t, mode))

FairSpec == Spec /\ Fairness

-----------------------------------------------------------------------------
(* Properties. *)

TypeOK ==
  /\ task \in [Tasks -> Rows]
  /\ cp \in [Tasks -> Checkpoints]
  /\ step \in [Tasks -> [StepIds -> StepStates]]
  /\ wk \in [Workers -> Memories]
  /\ effects \in [Tasks -> [StepIds -> Nat]]
  /\ issued \in [Tasks -> SUBSET Calls]
  /\ answerOf \in [Tasks -> [Calls -> StepIds \cup {NoCall}]]

\* No tool call and no skill is ever executed twice, whatever crashes, lease
\* expiries, recoveries, human resolutions and paused workers come in between
\* (README: a started tool is never redone blindly).
EffectAtMostOnce == \A t \in Tasks, s \in StepIds : effects[t][s] <= 1

\* The fence: only a running row has a live lease (finish looks at the lease and not
\* at the state), and two workers never both pass the lease test of the same row.
OneLeaseHolder ==
  /\ \A t \in Tasks : task[t].lease = "live" => task[t].state = "running"
  /\ \A v, w \in Workers : Holds(v) /\ Holds(w) /\ wk[v].task = wk[w].task => v = w

\* The step table and the phase column tell the same story: a step is running
\* exactly while the phase says something was started, and it is only one.
\* /resolve and the refusal of claim both rest on it.
RunningStepMatchesPhase ==
  \A t \in Tasks :
    /\ \A r, s \in StepIds : step[t][r] = "running" /\ step[t][s] = "running" => r = s
    /\ (task[t].phase \in Started) <=> (\E s \in StepIds : step[t][s] = "running")

\* A task counts as verified only with a verdict reached after its last step:
\* nothing is unfinished, started or asked beyond what was judged.
VerifiedIsCurrent ==
  \A t \in Tasks : task[t].verification = "verified_completed" =>
    /\ task[t].state = "completed"
    /\ task[t].phase \in {"evaluation_done", "skill_done"}
    /\ cp[t].eval = "verified"
    /\ \A s \in StepIds : step[t][s] # "running"

\* A finished task stays finished: its row, checkpoint and steps never change
\* again, whichever worker, human or scan acts.
TerminalIsFinal ==
  [][\A t \in Tasks : task[t].state \in Terminal =>
       /\ task'[t] = task[t] /\ cp'[t] = cp[t] /\ step'[t] = step[t]]_vars

\* A result, once recorded, is not reopened, and a human's resolution is not
\* overwritten by the worker that had been given up.
RecordedResultsStay ==
  [][\A t \in Tasks, c \in Calls :
       /\ step[t][c] = "resolved_by_human" => step'[t][c] = "resolved_by_human"
       /\ step[t][c] = "failed" => step'[t][c] = "failed"
       /\ step[t][c] = "completed" => step'[t][c] \in {"completed", "failed"}]_vars

\* An answer is stored for the question the human had read.
AnswerMatchesQuestion ==
  \A t \in Tasks, c \in Calls : answerOf[t][c] \in {NoCall, c}

\* A suspended row is one a human can answer: the question is an unanswered call
\* of the saved messages, nothing is running and nobody owns it (answer pops the
\* saved call id without a further check).
SuspendedIsAnswerable ==
  \A t \in Tasks : task[t].state = "suspended" =>
    /\ task[t].phase = "waiting_user" /\ task[t].lease # "live"
    /\ cp[t].wait \in cp[t].asked \ cp[t].done
    /\ \A s \in StepIds : step[t][s] # "running"

\* The task needs no more machine work: it is over, or it waits for a human, or
\* its recoveries are used up and nobody owns it.
Settled(t) ==
  \/ task[t].state \in Terminal \cup {"suspended", "uncertain"}
  \/ task[t].recoveries = MaxRecoveries /\ task[t].lease # "live"

\* Nothing is forgotten: whatever crashes, a task that was started reaches a
\* state in which it is settled.
EventuallySettled == \A t \in Tasks : (task[t].state \in {"pending", "running"}) ~> Settled(t)

\* A task as whoever submitted it sees it.  An uncertain task is open: /resolve may
\* take it up again.  A tool call can be settled without having been made.
Executed(t) == {s \in StepIds : effects[t][s] > 0}
Recorded(t) == {s \in StepIds : step[t][s] \in {"completed", "failed", "resolved_by_human"}}
Decision(t) == IF task[t].state \in Terminal THEN task[t].state ELSE "open"
Contract(t) == INSTANCE TaskContract WITH
  Calls <- StepIds,
  Supplied <- Calls,
  called <- Executed(t),
  risky <- Executed(t),
  known <- Recorded(t),
  outcome <- Decision(t)

\* Every task keeps the contract of a durable task: each call made once, even by a
\* worker that was given up, and settled once, while the task is open; one outcome;
\* never completed over a call that was made and whose result is not recorded
\* (\A t : Contract(t)!ContractSpec, in a form that TLC evaluates).
ContractHonoured ==
  /\ \A t \in Tasks : Contract(t)!ContractInit
  /\ [][\A t \in Tasks : [Contract(t)!ContractNext]_(Contract(t)!contractVars)]_vars

\* A task as the command queue sees it, a row that takes only the steps of TaskRow
\* (Spec => \A t : TableRow(t)!RowSpec, TaskLeaseProofs): a question is open while the
\* task is suspended, and closed by its answer.
State(t) == IF task[t].state = "absent" THEN "none" ELSE task[t].state
Question(t) == IF task[t].state = "suspended" THEN cp[t].wait ELSE NoCall
Answered(t) == {c \in Calls : answerOf[t][c] # NoCall}
Closed(t) == IF task[t].state \in Terminal THEN {} ELSE Answered(t)
TableRow(t) == INSTANCE TaskRow WITH
  Questions <- Calls,
  NoQuestion <- NoCall,
  state <- State(t),
  lease <- task[t].lease,
  started <- (task[t].phase \in Started),
  question <- Question(t),
  closed <- Closed(t)
=============================================================================
