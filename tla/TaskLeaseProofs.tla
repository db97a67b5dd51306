--------------------------- MODULE TaskLeaseProofs ---------------------------
(****************************************************************************)
(* Type correctness and safety of the durable task table, for any number of *)
(* tasks, workers and calls.  The inductive invariant SafeInv says who may  *)
(* be ahead of the database: only the one worker whose token is in a live   *)
(* lease, and how far depends on where it is in the loop.  DataInv adds     *)
(* what a question and a verdict rest on.                                   *)
(****************************************************************************)
EXTENDS TaskLease, TLAPS

InCall == {"executing", "executed", "observed"}

\* Each variable has a typed part of its own, so that a step cites only the
\* parts it reads.
TaskTyped == task \in [Tasks -> Rows]
CpTyped == cp \in [Tasks -> Checkpoints]
StepTyped == step \in [Tasks -> [StepIds -> StepStates]]
WkTyped == wk \in [Workers -> Memories]
EffectsTyped == effects \in [Tasks -> [StepIds -> Nat]]
IssuedTyped == issued \in [Tasks -> SUBSET Calls]
AnswersTyped == answerOf \in [Tasks -> [Calls -> StepIds \cup {NoCall}]]

\* A message list that a worker saves is a checkpoint.
LEMMA MessagesTyped ==
  ASSUME WkTyped, NEW w \in Workers, NEW a \in SUBSET Calls, NEW d \in SUBSET Calls
  PROVE  Messages(w, a, d) \in Checkpoints
BY ConstantsAssumption DEF WkTyped, Memories, Messages, EmptyCheckpoint, Checkpoints

\* What a worker saves is a checkpoint.
LEMMA SavedTyped ==
  ASSUME WkTyped, NEW w \in Workers
  PROVE  Saved(w) \in Checkpoints
BY MessagesTyped DEF WkTyped, Memories, Saved

\* A guarded checkpoint keeps both columns well typed.
LEMMA CheckpointTyped ==
  ASSUME TaskTyped, CpTyped, NEW w \in Workers, NEW p \in Phases, NEW d \in Checkpoints,
         Checkpoint(w, p, d)
  PROVE  TaskTyped' /\ CpTyped'
<1>1. TaskTyped' BY DEF TaskTyped, Rows, Checkpoint, Holds
<1>2. CpTyped' BY DEF CpTyped, Checkpoint, Holds
<1>q. QED BY <1>1, <1>2

\* The upsert of a step keeps the step table well typed.
LEMMA StepUpsertTyped ==
  ASSUME StepTyped, NEW w \in Workers, NEW s \in StepIds, NEW x \in StepStates,
         StepUpsert(w, s, x)
  PROVE  StepTyped'
BY DEF StepTyped, StepUpsert

\* A worker without a task has a well-typed memory.
LEMMA IdleTyped == Idle \in Memories
BY ConstantsAssumption DEF Memories, Idle, Pcs

\* So has a worker that leaves its invocation.
LEMMA LeavingTyped ==
  ASSUME WkTyped, NEW w \in Workers, NEW p \in Pcs, NEW o \in {"completed", "failed", "none"}
  PROVE  Leaving(w, p, o) \in Memories
<1>1. /\ wk[w].task \in Tasks \cup {NoTask} /\ wk[w].token \in Nat /\ wk[w].lost \in {"no", "yes"}
  BY DEF WkTyped, Memories
<1>q. QED BY <1>1, IdleTyped DEF Memories, Leaving

\* finish keeps the task table and the memories well typed.
LEMMA FinishRowTyped ==
  ASSUME TaskTyped, WkTyped, NEW w \in Workers, NEW x \in States, FinishRow(w, x)
  PROVE  TaskTyped' /\ WkTyped'
<1> DEFINE t == wk[w].task
           y == Verification(t, x)
           row == [task[t] EXCEPT !.state = x, !.reply = "text", !.verification = y,
                                  !.owner = 0, !.lease = "null"]
<1>1. TaskTyped'
  <2>1. t \in Tasks /\ task' = [task EXCEPT ![t] = row] BY DEF FinishRow, MayFinish
  <2>2. y \in {"unverified", "verified_completed"} BY DEF Verification
  <2>3. task[t] \in Rows BY <2>1 DEF TaskTyped
  <2>4. row \in Rows
    <3> HIDE DEF y, t
    <3>q. QED BY <2>2, <2>3 DEF Rows
  <2>q. QED BY <2>1, <2>4 DEF TaskTyped
<1>2. WkTyped' BY IdleTyped DEF WkTyped, FinishRow
<1>q. QED BY <1>1, <1>2

\* An invocation ends completed or failed.
LEMMA OutcomeTyped ==
  ASSUME NEW x PROVE OutcomeOf(x) \in {"completed", "failed"}
BY DEF OutcomeOf

\* A cancelled row is a row.
LEMMA CancelledTyped ==
  ASSUME NEW row \in Rows PROVE Cancelled(row) \in Rows
<1>1. "cancelled" \in States BY DEF States, Terminal
<1>q. QED BY <1>1 DEF Cancelled, Rows

\* What TypeOK alone does not say of a worker's memory: inside a tool call the
\* current call is a tool call, and an ending invocation knows how it ends.
MemoryShape ==
  \A w \in Workers :
    /\ wk[w].pc \in InCall => wk[w].cur \in Calls
    /\ wk[w].pc = "finishing" => wk[w].outcome \in {"completed", "failed"}

\* The initial state is well typed.
LEMMA TypeInit == Init => TypeOK /\ MemoryShape
<1> SUFFICES ASSUME Init PROVE TypeOK /\ MemoryShape OBVIOUS
<1>1. NoRow \in Rows
  BY ConstantsAssumption DEF NoRow, Rows, States, Phases
<1>2. EmptyCheckpoint \in Checkpoints
  BY ConstantsAssumption DEF EmptyCheckpoint, Checkpoints
<1>3. TaskTyped /\ CpTyped /\ WkTyped
  BY <1>1, <1>2, IdleTyped DEF Init, TaskTyped, CpTyped, WkTyped
<1>4. StepTyped BY DEF Init, StepTyped, StepStates
<1>5. EffectsTyped BY DEF Init, EffectsTyped
<1>6. IssuedTyped /\ AnswersTyped BY DEF Init, IssuedTyped, AnswersTyped
<1>7. MemoryShape BY DEF Init, MemoryShape, Idle, InCall
<1>q. QED BY <1>3, <1>4, <1>5, <1>6, <1>7 DEF TypeOK, TaskTyped, CpTyped, StepTyped, WkTyped, EffectsTyped, IssuedTyped, AnswersTyped

\* Every step keeps the types.
LEMMA TypeNext ==
  ASSUME TaskTyped, CpTyped, StepTyped, WkTyped, EffectsTyped, IssuedTyped, AnswersTyped, MemoryShape, Next
  PROVE  TypeOK' /\ MemoryShape'
<1>1. ASSUME NEW w \in Workers, ModelPending(w) PROVE TypeOK' /\ MemoryShape'
  <2>1. wk[w].iter + 1 \in 0..MaxIterations
    BY <1>1, ConstantsAssumption DEF ModelPending, WkTyped, Memories
  <2>2. Saved(w).iter = wk[w].iter
    BY DEF Saved, Messages, EmptyCheckpoint
  <2>3. "model_pending" \in Phases
    BY DEF Phases, Started
  <2>4. [Saved(w) EXCEPT !.iter = @ + 1] \in Checkpoints
    BY SavedTyped, <2>1, <2>2 DEF Checkpoints
  <2>5. TaskTyped' /\ CpTyped'
    BY <2>3, <2>4, <1>1, CheckpointTyped DEF ModelPending
  <2>6. "calling" \in Pcs
    BY DEF Pcs, AgentPcs, SkillPcs
  <2>7. WkTyped'
    BY <1>1, <2>1, <2>6 DEF ModelPending, WkTyped, Memories
  <2>8. MemoryShape'
    BY <1>1 DEF ModelPending, MemoryShape, InCall, WkTyped
  <2>q. QED BY <1>1, <2>5, <2>7, <2>8 DEF TypeOK, ModelPending, TaskTyped, CpTyped, StepTyped, WkTyped, EffectsTyped, IssuedTyped, AnswersTyped
<1>2. ASSUME NEW w \in Workers, NEW cs \in SUBSET Calls, ModelReceived(w, cs) PROVE TypeOK' /\ MemoryShape'
  <2>1. wk[w].asked \in SUBSET Calls /\ wk[w].done \in SUBSET Calls /\ wk[w].todo \in SUBSET Calls
    BY DEF WkTyped, Memories
  <2>2. "model_received" \in Phases
    BY DEF Phases, Started
  <2>3. Messages(w, cs, wk[w].done) \in Checkpoints
    BY <2>1, MessagesTyped
  <2>4. TaskTyped' /\ CpTyped'
    BY <2>2, <2>3, <1>2, CheckpointTyped DEF ModelReceived
  <2>5. (IF cs = {} THEN "final" ELSE "tools") \in Pcs
    BY DEF Pcs, AgentPcs
  <2>6. WkTyped'
    <3>1. wk[w] \in Memories BY DEF WkTyped
    <3>2. [wk[w] EXCEPT !.pc = IF cs = {} THEN "final" ELSE "tools", !.asked = cs, !.todo = cs] \in Memories BY <3>1, <2>5 DEF Memories
    <3>q. QED BY <3>2, <1>2 DEF ModelReceived, WkTyped
  <2>7. IssuedTyped'
    BY <1>2 DEF ModelReceived, IssuedTyped, Checkpoint, Holds
  <2>8. MemoryShape'
    <3>1. wk'[w].pc \in {"final", "tools", "model"} BY <1>2 DEF ModelReceived, WkTyped, Memories
    <3>2. \A v \in Workers \ {w} : wk'[v] = wk[v] BY <1>2 DEF ModelReceived, WkTyped
    <3>q. QED BY <3>1, <3>2 DEF MemoryShape, InCall
  <2>q. QED BY <1>2, <2>4, <2>6, <2>7, <2>8 DEF TypeOK, ModelReceived, TaskTyped, CpTyped, StepTyped, WkTyped, EffectsTyped, IssuedTyped, AnswersTyped
<1>3. ASSUME NEW w \in Workers, NEW cs \in SUBSET Calls, ModelFeedback(w, cs) PROVE TypeOK' /\ MemoryShape'
  <2>1. (IF wk[w].resume = "yes" /\ cs # {} /\ wk[w].iter < MaxIterations THEN "tools" ELSE "model") \in Pcs
    BY DEF Pcs, AgentPcs
  <2>2. WkTyped'
    <3>1. wk[w] \in Memories BY DEF WkTyped
    <3>2. [wk[w] EXCEPT !.pc = IF wk[w].resume = "yes" /\ cs # {} /\ wk[w].iter < MaxIterations THEN "tools" ELSE "model", !.asked = cs, !.todo = cs] \in Memories BY <3>1, <2>1 DEF Memories
    <3>q. QED BY <3>2, <1>3 DEF ModelFeedback, WkTyped
  <2>3. IssuedTyped'
    BY <1>3 DEF ModelFeedback, IssuedTyped
  <2>4. MemoryShape'
    <3>1. wk'[w].pc \in {"final", "tools", "model"} BY <1>3 DEF ModelFeedback, WkTyped, Memories
    <3>2. \A v \in Workers \ {w} : wk'[v] = wk[v] BY <1>3 DEF ModelFeedback, WkTyped
    <3>q. QED BY <3>1, <3>2 DEF MemoryShape, InCall
  <2>q. QED BY <1>3, <2>2, <2>3, <2>4 DEF TypeOK, ModelFeedback, TaskTyped, CpTyped, StepTyped, WkTyped, EffectsTyped, IssuedTyped, AnswersTyped
<1>4. ASSUME NEW w \in Workers, NEW c \in Calls, ToolRefused(w, c) PROVE TypeOK' /\ MemoryShape'
  <2>1. wk[w].asked \in SUBSET Calls /\ wk[w].done \in SUBSET Calls /\ wk[w].todo \in SUBSET Calls
    BY DEF WkTyped, Memories
  <2>2. "tool_done" \in Phases
    BY DEF Phases, Started
  <2>3. Messages(w, wk[w].asked, wk[w].done \cup {c}) \in Checkpoints
    BY <2>1, MessagesTyped
  <2>4. TaskTyped' /\ CpTyped'
    BY <2>2, <2>3, <1>4, CheckpointTyped DEF ToolRefused
  <2>5. wk[w].todo \ {c} \in SUBSET Calls /\ wk[w].done \cup {c} \in SUBSET Calls
    BY <2>1
  <2>6. WkTyped'
    <3>1. wk[w] \in Memories BY DEF WkTyped
    <3>2. [wk[w] EXCEPT !.todo = wk[w].todo \ {c}, !.done = wk[w].done \cup {c}] \in Memories BY <3>1, <2>5 DEF Memories
    <3>q. QED BY <3>2, <1>4 DEF ToolRefused, WkTyped
  <2>7. StepTyped'
    BY <1>4, StepUpsertTyped DEF ToolRefused, StepStates, StepIds
  <2>8. MemoryShape'
    BY <1>4 DEF ToolRefused, MemoryShape, InCall, WkTyped
  <2>q. QED BY <1>4, <2>4, <2>6, <2>7, <2>8 DEF TypeOK, ToolRefused, TaskTyped, CpTyped, StepTyped, WkTyped, EffectsTyped, IssuedTyped, AnswersTyped
<1>5. ASSUME NEW w \in Workers, NEW c \in Calls, AskUser(w, c) PROVE TypeOK' /\ MemoryShape'
  <2>1. wk[w].asked \in SUBSET Calls /\ wk[w].done \in SUBSET Calls /\ wk[w].todo \in SUBSET Calls
    BY DEF WkTyped, Memories
  <2>2. wk[w].todo \ {c} \in SUBSET Calls
    BY <2>1
  <2>3. (IF wk[w].ask = NoCall THEN c ELSE wk[w].ask) \in Calls \cup {NoCall}
    BY DEF WkTyped, Memories
  <2>4. WkTyped'
    <3>1. wk[w] \in Memories BY DEF WkTyped
    <3>2. [wk[w] EXCEPT !.todo = wk[w].todo \ {c}, !.ask = IF wk[w].ask = NoCall THEN c ELSE wk[w].ask] \in Memories BY <3>1, <2>3, <2>2 DEF Memories
    <3>q. QED BY <3>2, <1>5 DEF AskUser, WkTyped
  <2>5. MemoryShape'
    BY <1>5 DEF AskUser, MemoryShape, InCall, WkTyped
  <2>q. QED BY <1>5, <2>4, <2>5 DEF TypeOK, AskUser, TaskTyped, CpTyped, StepTyped, WkTyped, EffectsTyped, IssuedTyped, AnswersTyped
<1>6. ASSUME NEW w \in Workers, NEW c \in Calls, ToolStarted(w, c) PROVE TypeOK' /\ MemoryShape'
  <2>1. "tool_started" \in Phases
    BY DEF Phases, Started
  <2>2. Saved(w) \in Checkpoints
    BY SavedTyped
  <2>3. TaskTyped' /\ CpTyped'
    BY <2>1, <2>2, <1>6, CheckpointTyped DEF ToolStarted
  <2>4. "executing" \in Pcs
    BY DEF Pcs, AgentPcs, SkillPcs
  <2>5. c \in StepIds \cup {NoCall}
    BY DEF StepIds
  <2>6. WkTyped'
    <3>1. wk[w] \in Memories BY DEF WkTyped
    <3>2. [wk[w] EXCEPT !.pc = "executing", !.cur = c] \in Memories BY <3>1, <2>5, <2>4 DEF Memories
    <3>q. QED BY <3>2, <1>6 DEF ToolStarted, WkTyped
  <2>7. StepTyped'
    BY <1>6, StepUpsertTyped DEF ToolStarted, StepStates, StepIds
  <2>8. MemoryShape'
    BY <1>6 DEF ToolStarted, MemoryShape, InCall, WkTyped
  <2>q. QED BY <1>6, <2>3, <2>6, <2>7, <2>8 DEF TypeOK, ToolStarted, TaskTyped, CpTyped, StepTyped, WkTyped, EffectsTyped, IssuedTyped, AnswersTyped
<1>7. ASSUME NEW w \in Workers, ExecuteTool(w) PROVE TypeOK' /\ MemoryShape'
  <2>1. "executed" \in Pcs
    BY DEF Pcs, AgentPcs, SkillPcs
  <2>2. WkTyped'
    BY <1>7, <2>1 DEF ExecuteTool, WkTyped, Memories
  <2>3. EffectsTyped'
    <3>1. CASE wk[w].task \in Tasks /\ wk[w].cur \in StepIds
      <4>1. effects[wk[w].task][wk[w].cur] + 1 \in Nat BY <3>1 DEF EffectsTyped
      <4>q. QED BY <4>1, <3>1, <1>7 DEF ExecuteTool, EffectsTyped
    <3>2. CASE ~(wk[w].task \in Tasks /\ wk[w].cur \in StepIds)
      BY <3>2, <1>7 DEF ExecuteTool, EffectsTyped
    <3>q. QED BY <3>1, <3>2
  <2>4. MemoryShape'
    BY <1>7 DEF ExecuteTool, MemoryShape, InCall, WkTyped
  <2>q. QED BY <1>7, <2>2, <2>3, <2>4 DEF TypeOK, ExecuteTool, TaskTyped, CpTyped, StepTyped, WkTyped, EffectsTyped, IssuedTyped, AnswersTyped
<1>8. ASSUME NEW w \in Workers, ReuseResult(w) PROVE TypeOK' /\ MemoryShape'
  <2>1. "executed" \in Pcs
    BY DEF Pcs, AgentPcs, SkillPcs
  <2>2. WkTyped'
    BY <1>8, <2>1 DEF ReuseResult, WkTyped, Memories
  <2>3. MemoryShape'
    BY <1>8 DEF ReuseResult, MemoryShape, InCall, WkTyped
  <2>q. QED BY <1>8, <2>2, <2>3 DEF TypeOK, ReuseResult, TaskTyped, CpTyped, StepTyped, WkTyped, EffectsTyped, IssuedTyped, AnswersTyped
<1>9. ASSUME NEW w \in Workers, NEW r \in Results, ToolDone(w, r) PROVE TypeOK' /\ MemoryShape'
  <2>1. wk[w].asked \in SUBSET Calls /\ wk[w].done \in SUBSET Calls /\ wk[w].todo \in SUBSET Calls
    BY DEF WkTyped, Memories
  <2>2. wk[w].cur \in Calls
    <3>1. wk[w].pc = "executed" BY <1>9 DEF ToolDone
    <3>q. QED BY <3>1 DEF MemoryShape, InCall
  <2>3. "tool_done" \in Phases
    BY DEF Phases, Started
  <2>4. Messages(w, wk[w].asked, wk[w].done \cup {wk[w].cur}) \in Checkpoints
    BY <2>1, <2>2, MessagesTyped
  <2>5. TaskTyped' /\ CpTyped'
    BY <2>3, <2>4, <1>9, CheckpointTyped DEF ToolDone
  <2>6. "observed" \in Pcs
    BY DEF Pcs, AgentPcs, SkillPcs
  <2>7. wk[w].todo \ {wk[w].cur} \in SUBSET Calls /\ wk[w].done \cup {wk[w].cur} \in SUBSET Calls
    BY <2>1, <2>2
  <2>8. WkTyped'
    <3>1. wk[w] \in Memories BY DEF WkTyped
    <3>2. [wk[w] EXCEPT !.pc = "observed", !.result = r] \in Memories BY <3>1, <2>6 DEF Memories
    <3>q. QED BY <3>2, <1>9 DEF ToolDone, WkTyped
  <2>9. OutcomeOf(r) \in StepStates
    BY OutcomeTyped DEF StepStates
  <2>10. StepTyped'
    BY <1>9, <2>2, <2>9, StepUpsertTyped DEF ToolDone, StepIds
  <2>11. MemoryShape'
    BY <1>9 DEF ToolDone, MemoryShape, InCall, WkTyped
  <2>q. QED BY <1>9, <2>5, <2>8, <2>10, <2>11 DEF TypeOK, ToolDone, TaskTyped, CpTyped, StepTyped, WkTyped, EffectsTyped, IssuedTyped, AnswersTyped
<1>10. ASSUME NEW w \in Workers, NEW r \in Results, ToolObserved(w, r) PROVE TypeOK' /\ MemoryShape'
  <2>1. wk[w].asked \in SUBSET Calls /\ wk[w].done \in SUBSET Calls /\ wk[w].todo \in SUBSET Calls
    BY DEF WkTyped, Memories
  <2>2. wk[w].cur \in Calls
    <3>1. wk[w].pc = "observed" BY <1>10 DEF ToolObserved
    <3>q. QED BY <3>1 DEF MemoryShape, InCall
  <2>3. "tool_done" \in Phases
    BY DEF Phases, Started
  <2>4. Messages(w, wk[w].asked, wk[w].done \cup {wk[w].cur}) \in Checkpoints
    BY <2>1, <2>2, MessagesTyped
  <2>5. TaskTyped' /\ CpTyped'
    BY <2>3, <2>4, <1>10, CheckpointTyped DEF ToolObserved
  <2>6. "tools" \in Pcs
    BY DEF Pcs, AgentPcs, SkillPcs
  <2>7. wk[w].todo \ {wk[w].cur} \in SUBSET Calls /\ wk[w].done \cup {wk[w].cur} \in SUBSET Calls
    BY <2>1, <2>2
  <2>8. WkTyped'
    <3>1. wk[w] \in Memories BY DEF WkTyped
    <3>2. [wk[w] EXCEPT !.pc = "tools", !.cur = NoCall, !.result = "none", !.todo = wk[w].todo \ {wk[w].cur}, !.done = wk[w].done \cup {wk[w].cur}] \in Memories BY <3>1, <2>7, <2>6 DEF Memories
    <3>q. QED BY <3>2, <1>10 DEF ToolObserved, WkTyped
  <2>9. OutcomeOf(r) \in StepStates /\ "failed" \in StepStates
    BY OutcomeTyped DEF StepStates
  <2>10. StepTyped'
    BY <1>10, <2>2, <2>9, StepUpsertTyped DEF ToolObserved, StepIds
  <2>11. MemoryShape'
    BY <1>10 DEF ToolObserved, MemoryShape, InCall, WkTyped
  <2>q. QED BY <1>10, <2>5, <2>8, <2>10, <2>11 DEF TypeOK, ToolObserved, TaskTyped, CpTyped, StepTyped, WkTyped, EffectsTyped, IssuedTyped, AnswersTyped
<1>11. ASSUME NEW w \in Workers, Suspend(w) PROVE TypeOK' /\ MemoryShape'
  <2>1. wk[w].asked \in SUBSET Calls /\ wk[w].done \in SUBSET Calls /\ wk[w].todo \in SUBSET Calls
    BY DEF WkTyped, Memories
  <2>2. wk[w].ask \in Calls
    BY <1>11 DEF Suspend, WkTyped, Memories
  <2>3. wk[w].task \in Tasks
    BY <1>11 DEF Suspend, Checkpoint, Holds
  <2>4. cp[wk[w].task] \in Checkpoints
    BY <2>3 DEF CpTyped
  <2>5. "waiting_user" \in Phases
    BY DEF Phases, Started
  <2>6. [cp[wk[w].task] EXCEPT !.asked = wk[w].asked, !.done = wk[w].done, !.wait = wk[w].ask] \in Checkpoints
    BY <2>1, <2>2, <2>4 DEF Checkpoints
  <2>7. TaskTyped' /\ CpTyped'
    BY <2>5, <2>6, <1>11, CheckpointTyped DEF Suspend
  <2>8. "suspending" \in Pcs
    BY DEF Pcs, AgentPcs, SkillPcs
  <2>9. WkTyped'
    BY <2>8, <1>11, LeavingTyped, OutcomeTyped DEF Suspend, Finishing, WkTyped
  <2>10. MemoryShape'
    BY <1>11 DEF Suspend, MemoryShape, InCall, WkTyped, Leaving, Idle
  <2>q. QED BY <1>11, <2>7, <2>9, <2>10 DEF TypeOK, Suspend, TaskTyped, CpTyped, StepTyped, WkTyped, EffectsTyped, IssuedTyped, AnswersTyped
<1>12. ASSUME NEW w \in Workers, EvaluationPending(w) PROVE TypeOK' /\ MemoryShape'
  <2>1. "evaluation_pending" \in Phases
    BY DEF Phases, Started
  <2>2. Saved(w) \in Checkpoints
    BY SavedTyped
  <2>3. TaskTyped' /\ CpTyped'
    BY <2>1, <2>2, <1>12, CheckpointTyped DEF EvaluationPending
  <2>4. "judging" \in Pcs
    BY DEF Pcs, AgentPcs, SkillPcs
  <2>5. WkTyped'
    BY <1>12, <2>4 DEF EvaluationPending, WkTyped, Memories
  <2>6. MemoryShape'
    BY <1>12 DEF EvaluationPending, MemoryShape, InCall, WkTyped
  <2>q. QED BY <1>12, <2>3, <2>5, <2>6 DEF TypeOK, EvaluationPending, TaskTyped, CpTyped, StepTyped, WkTyped, EffectsTyped, IssuedTyped, AnswersTyped
<1>13. ASSUME NEW w \in Workers, NEW v \in Verdicts, EvaluationDone(w, v) PROVE TypeOK' /\ MemoryShape'
  <2>1. "evaluation_done" \in Phases
    BY DEF Phases, Started
  <2>2. [Saved(w) EXCEPT !.eval = v] \in Checkpoints
    BY SavedTyped DEF Checkpoints
  <2>3. TaskTyped' /\ CpTyped'
    BY <2>1, <2>2, <1>13, CheckpointTyped DEF EvaluationDone
  <2>4. "verdict" \in Pcs
    BY DEF Pcs, AgentPcs, SkillPcs
  <2>5. WkTyped'
    <3>1. wk[w] \in Memories BY DEF WkTyped
    <3>2. [wk[w] EXCEPT !.pc = "verdict", !.eval = v, !.resume = "no"] \in Memories BY <3>1, <2>4 DEF Memories
    <3>q. QED BY <3>2, <1>13 DEF EvaluationDone, WkTyped
  <2>6. MemoryShape'
    BY <1>13 DEF EvaluationDone, MemoryShape, InCall, WkTyped
  <2>q. QED BY <1>13, <2>3, <2>5, <2>6 DEF TypeOK, EvaluationDone, TaskTyped, CpTyped, StepTyped, WkTyped, EffectsTyped, IssuedTyped, AnswersTyped
<1>14. ASSUME NEW w \in Workers, CriticRetry(w) PROVE TypeOK' /\ MemoryShape'
  <2>1. wk[w].retries + 1 \in 0..MaxEvalRetries
    BY <1>14, ConstantsAssumption DEF CriticRetry, WkTyped, Memories
  <2>2. Saved(w).retries = wk[w].retries
    BY DEF Saved, Messages, EmptyCheckpoint
  <2>3. "model_pending" \in Phases
    BY DEF Phases, Started
  <2>4. [Saved(w) EXCEPT !.retries = @ + 1] \in Checkpoints
    BY SavedTyped, <2>1, <2>2 DEF Checkpoints
  <2>5. TaskTyped' /\ CpTyped'
    BY <2>3, <2>4, <1>14, CheckpointTyped DEF CriticRetry
  <2>6. "model" \in Pcs
    BY DEF Pcs, AgentPcs, SkillPcs
  <2>7. WkTyped'
    BY <1>14, <2>1, <2>6 DEF CriticRetry, WkTyped, Memories
  <2>8. MemoryShape'
    BY <1>14 DEF CriticRetry, MemoryShape, InCall, WkTyped
  <2>q. QED BY <1>14, <2>5, <2>7, <2>8 DEF TypeOK, CriticRetry, TaskTyped, CpTyped, StepTyped, WkTyped, EffectsTyped, IssuedTyped, AnswersTyped
<1>15. ASSUME NEW w \in Workers, Conclude(w) PROVE TypeOK' /\ MemoryShape'
  <2>1. "finishing" \in Pcs
    BY DEF Pcs, AgentPcs, SkillPcs
  <2>2. WkTyped'
    BY <2>1, <1>15, LeavingTyped, OutcomeTyped DEF Conclude, Finishing, WkTyped
  <2>3. MemoryShape'
    BY <1>15 DEF Conclude, MemoryShape, InCall, WkTyped, Finishing, Leaving, Idle
  <2>q. QED BY <1>15, <2>2, <2>3 DEF TypeOK, Conclude, Finishing, TaskTyped, CpTyped, StepTyped, WkTyped, EffectsTyped, IssuedTyped, AnswersTyped
<1>16. ASSUME NEW w \in Workers, Stopped(w) PROVE TypeOK' /\ MemoryShape'
  <2>1. "finishing" \in Pcs
    BY DEF Pcs, AgentPcs, SkillPcs
  <2>2. WkTyped'
    BY <2>1, <1>16, LeavingTyped, OutcomeTyped DEF Stopped, Finishing, WkTyped
  <2>3. MemoryShape'
    BY <1>16 DEF Stopped, MemoryShape, InCall, WkTyped, Finishing, Leaving, Idle
  <2>q. QED BY <1>16, <2>2, <2>3 DEF TypeOK, Stopped, Finishing, TaskTyped, CpTyped, StepTyped, WkTyped, EffectsTyped, IssuedTyped, AnswersTyped
<1>17. ASSUME NEW w \in Workers, LimitReached(w) PROVE TypeOK' /\ MemoryShape'
  <2>1. "finishing" \in Pcs
    BY DEF Pcs, AgentPcs, SkillPcs
  <2>2. WkTyped'
    BY <2>1, <1>17, LeavingTyped, OutcomeTyped DEF LimitReached, Finishing, WkTyped
  <2>3. MemoryShape'
    BY <1>17 DEF LimitReached, MemoryShape, InCall, WkTyped, Finishing, Leaving, Idle
  <2>q. QED BY <1>17, <2>2, <2>3 DEF TypeOK, LimitReached, Finishing, TaskTyped, CpTyped, StepTyped, WkTyped, EffectsTyped, IssuedTyped, AnswersTyped
<1>18. ASSUME NEW w \in Workers, NEW o \in {"completed", "failed"}, ReturnEarly(w, o) PROVE TypeOK' /\ MemoryShape'
  <2>1. "finishing" \in Pcs
    BY DEF Pcs, AgentPcs, SkillPcs
  <2>2. WkTyped'
    BY <2>1, <1>18, LeavingTyped, OutcomeTyped DEF ReturnEarly, Finishing, WkTyped
  <2>3. MemoryShape'
    BY <1>18 DEF ReturnEarly, MemoryShape, InCall, WkTyped, Finishing, Leaving, Idle
  <2>q. QED BY <1>18, <2>2, <2>3 DEF TypeOK, ReturnEarly, Finishing, TaskTyped, CpTyped, StepTyped, WkTyped, EffectsTyped, IssuedTyped, AnswersTyped
<1>19. ASSUME NEW w \in Workers, SkillStarted(w) PROVE TypeOK' /\ MemoryShape'
  <2>1. "skill_started" \in Phases
    BY DEF Phases, Started
  <2>2. Saved(w) \in Checkpoints
    BY SavedTyped
  <2>3. TaskTyped' /\ CpTyped'
    BY <2>1, <2>2, <1>19, CheckpointTyped DEF SkillStarted
  <2>4. "skill_run" \in Pcs
    BY DEF Pcs, AgentPcs, SkillPcs
  <2>5. SkillStep \in StepIds \cup {NoCall}
    BY DEF StepIds
  <2>6. WkTyped'
    <3>1. wk[w] \in Memories BY DEF WkTyped
    <3>2. [wk[w] EXCEPT !.pc = "skill_run", !.cur = SkillStep] \in Memories BY <3>1, <2>5, <2>4 DEF Memories
    <3>q. QED BY <3>2, <1>19 DEF SkillStarted, WkTyped
  <2>7. StepTyped'
    BY <1>19, StepUpsertTyped DEF SkillStarted, StepStates, StepIds
  <2>8. MemoryShape'
    BY <1>19 DEF SkillStarted, MemoryShape, InCall, WkTyped
  <2>q. QED BY <1>19, <2>3, <2>6, <2>7, <2>8 DEF TypeOK, SkillStarted, TaskTyped, CpTyped, StepTyped, WkTyped, EffectsTyped, IssuedTyped, AnswersTyped
<1>20. ASSUME NEW w \in Workers, NEW r \in Results, RunSkill(w, r) PROVE TypeOK' /\ MemoryShape'
  <2>1. "skill_ran" \in Pcs
    BY DEF Pcs, AgentPcs, SkillPcs
  <2>2. WkTyped'
    <3>1. wk[w] \in Memories BY DEF WkTyped
    <3>2. [wk[w] EXCEPT !.pc = "skill_ran", !.result = r] \in Memories BY <3>1, <2>1 DEF Memories
    <3>q. QED BY <3>2, <1>20 DEF RunSkill, WkTyped
  <2>3. EffectsTyped'
    <3>1. CASE wk[w].task \in Tasks /\ SkillStep \in StepIds
      <4>1. effects[wk[w].task][SkillStep] + 1 \in Nat BY <3>1 DEF EffectsTyped
      <4>q. QED BY <4>1, <3>1, <1>20 DEF RunSkill, EffectsTyped
    <3>2. CASE ~(wk[w].task \in Tasks /\ SkillStep \in StepIds)
      BY <3>2, <1>20 DEF RunSkill, EffectsTyped
    <3>q. QED BY <3>1, <3>2
  <2>4. MemoryShape'
    BY <1>20 DEF RunSkill, MemoryShape, InCall, WkTyped
  <2>q. QED BY <1>20, <2>2, <2>3, <2>4 DEF TypeOK, RunSkill, TaskTyped, CpTyped, StepTyped, WkTyped, EffectsTyped, IssuedTyped, AnswersTyped
<1>21. ASSUME NEW w \in Workers, SkillExecuted(w) PROVE TypeOK' /\ MemoryShape'
  <2>1. wk[w].result \in Results \cup {"none"}
    BY DEF WkTyped, Memories
  <2>2. "skill_executed" \in Phases
    BY DEF Phases, Started
  <2>3. [Saved(w) EXCEPT !.skill = wk[w].result] \in Checkpoints
    BY SavedTyped, <2>1 DEF Checkpoints
  <2>4. TaskTyped' /\ CpTyped'
    BY <2>2, <2>3, <1>21, CheckpointTyped DEF SkillExecuted
  <2>5. "skill_verify" \in Pcs
    BY DEF Pcs, AgentPcs, SkillPcs
  <2>6. WkTyped'
    BY <1>21, <2>5 DEF SkillExecuted, WkTyped, Memories
  <2>7. OutcomeOf(wk[w].result) \in StepStates
    BY OutcomeTyped DEF StepStates
  <2>8. StepTyped'
    BY <1>21, <2>7, StepUpsertTyped DEF SkillExecuted, StepIds
  <2>9. MemoryShape'
    BY <1>21 DEF SkillExecuted, MemoryShape, InCall, WkTyped
  <2>q. QED BY <1>21, <2>4, <2>6, <2>8, <2>9 DEF TypeOK, SkillExecuted, TaskTyped, CpTyped, StepTyped, WkTyped, EffectsTyped, IssuedTyped, AnswersTyped
<1>22. ASSUME NEW w \in Workers, NEW v \in Verdicts, SkillDone(w, v) PROVE TypeOK' /\ MemoryShape'
  <2> DEFINE r == IF v = "fail" THEN "failure" ELSE wk[w].result
  <2>1. r \in Results \cup {"none"} BY DEF WkTyped, Memories, Results
  <2>2. "skill_done" \in Phases BY DEF Phases, Started
  <2>3. [Saved(w) EXCEPT !.skill = r, !.eval = v] \in Checkpoints
    <3> HIDE DEF r
    <3>q. QED BY SavedTyped, <2>1 DEF Checkpoints
  <2>4. TaskTyped' /\ CpTyped' BY <2>2, <2>3, <1>22, CheckpointTyped DEF SkillDone
  <2>5. OutcomeOf(r) \in StepStates BY OutcomeTyped DEF StepStates
  <2>6. StepTyped' BY <1>22, <2>5, StepUpsertTyped DEF SkillDone, StepIds
  <2>7. "finishing" \in Pcs BY DEF Pcs
  <2>8. Leaving(w, "finishing", OutcomeOf(r)) \in Memories BY <2>7, LeavingTyped, OutcomeTyped
  <2>9. WkTyped' BY <1>22, <2>8 DEF SkillDone, WkTyped
  <2>10. MemoryShape'
    BY <1>22 DEF SkillDone, MemoryShape, InCall, WkTyped, Leaving, Idle, OutcomeOf
  <2>q. QED BY <1>22, <2>4, <2>6, <2>9, <2>10 DEF TypeOK, SkillDone, TaskTyped, CpTyped, StepTyped, WkTyped, EffectsTyped, IssuedTyped, AnswersTyped
<1>23. ASSUME NEW w \in Workers, Finish(w) PROVE TypeOK' /\ MemoryShape'
  <2>1. wk[w].outcome \in {"completed", "failed"}
    BY <1>23 DEF Finish, MemoryShape
  <2>2. (IF wk[w].lost = "yes" THEN "cancelled" ELSE wk[w].outcome) \in States
    BY <2>1 DEF States, Terminal
  <2>3. TaskTyped' /\ WkTyped'
    BY <2>2, <1>23, FinishRowTyped DEF Finish
  <2>4. MemoryShape'
    BY <1>23 DEF Finish, MemoryShape, InCall, WkTyped, FinishRow, Idle
  <2>q. QED BY <1>23, <2>3, <2>4 DEF TypeOK, Finish, FinishRow, TaskTyped, CpTyped, StepTyped, WkTyped, EffectsTyped, IssuedTyped, AnswersTyped
<1>24. ASSUME NEW w \in Workers, FinishSuspended(w) PROVE TypeOK' /\ MemoryShape'
  <2>1. "suspended" \in States
    BY DEF States
  <2>2. TaskTyped' /\ WkTyped'
    BY <2>1, <1>24, FinishRowTyped DEF FinishSuspended
  <2>3. MemoryShape'
    BY <1>24 DEF FinishSuspended, MemoryShape, InCall, WkTyped, FinishRow, Idle
  <2>q. QED BY <1>24, <2>2, <2>3 DEF TypeOK, FinishSuspended, FinishRow, TaskTyped, CpTyped, StepTyped, WkTyped, EffectsTyped, IssuedTyped, AnswersTyped
<1>25. ASSUME NEW w \in Workers, FinishRefused(w) PROVE TypeOK' /\ MemoryShape'
  <2>1. WkTyped'
    BY <1>25, IdleTyped DEF FinishRefused, WkTyped
  <2>2. MemoryShape'
    BY <1>25 DEF FinishRefused, MemoryShape, InCall, WkTyped, Idle
  <2>q. QED BY <1>25, <2>1, <2>2 DEF TypeOK, FinishRefused, TaskTyped, CpTyped, StepTyped, WkTyped, EffectsTyped, IssuedTyped, AnswersTyped
<1>26. ASSUME NEW w \in Workers, RaiseBusy(w) PROVE TypeOK' /\ MemoryShape'
  <2>1. "raising" \in Pcs
    BY DEF Pcs, AgentPcs, SkillPcs
  <2>2. WkTyped'
    BY <2>1, <1>26, LeavingTyped, OutcomeTyped DEF RaiseBusy, Finishing, WkTyped
  <2>3. MemoryShape'
    BY <1>26 DEF RaiseBusy, MemoryShape, InCall, WkTyped, Leaving, Idle
  <2>q. QED BY <1>26, <2>2, <2>3 DEF TypeOK, RaiseBusy, TaskTyped, CpTyped, StepTyped, WkTyped, EffectsTyped, IssuedTyped, AnswersTyped
<1>27. ASSUME NEW w \in Workers, HandleError(w) PROVE TypeOK' /\ MemoryShape'
  <2> DEFINE x == CASE task[wk[w].task].phase \in Started -> "uncertain"
                    [] task[wk[w].task].phase \notin Started /\ wk[w].outcome = "failed" -> "failed"
                    [] OTHER -> "pending"
  <2>1. x \in States BY DEF States, Terminal
  <2>2. FinishRow(w, x) BY <1>27 DEF HandleError
  <2>3. TaskTyped' /\ WkTyped'
    <3> HIDE DEF x
    <3>q. QED BY <2>1, <2>2, FinishRowTyped
  <2>4. MemoryShape'
    BY <1>27 DEF HandleError, MemoryShape, InCall, WkTyped, FinishRow, Idle
  <2>q. QED BY <1>27, <2>3, <2>4 DEF TypeOK, HandleError, FinishRow, TaskTyped, CpTyped, StepTyped, WkTyped, EffectsTyped, IssuedTyped, AnswersTyped
<1>28. ASSUME NEW w \in Workers, NEW t \in Tasks, NEW mode \in Modes, Claim(w, t, mode) PROVE TypeOK' /\ MemoryShape'
  <2>1. TaskTyped'
    <3>1. task[t].attempts + 1 \in Nat /\ task[t].recoveries \in 0..MaxRecoveries
      BY DEF TaskTyped, Rows
    <3>2. task[t].recoveries + 1 \in 0..MaxRecoveries
      BY <3>1, <1>28, ConstantsAssumption DEF Claim, NewToken, Claimable
    <3>3. "running" \in States BY DEF States
    <3>q. QED BY <3>1, <3>2, <3>3, <1>28 DEF Claim, NewToken, TaskTyped, Rows
  <2>2. Loaded(t, mode) \in Memories
    <3>1. cp[t] \in Checkpoints /\ task[t] \in Rows BY DEF CpTyped, TaskTyped
    <3>2. /\ cp[t].asked \in SUBSET Calls /\ cp[t].done \in SUBSET Calls
          /\ cp[t].eval \in Verdicts \cup {"none"} /\ cp[t].iter \in 0..MaxIterations
          /\ cp[t].retries \in 0..MaxEvalRetries /\ cp[t].skill \in Results \cup {"none"}
          /\ task[t].attempts \in Nat
      BY <3>1 DEF Checkpoints, Rows
    <3>3. ResumePc(t) \in Pcs BY DEF ResumePc, Pcs, AgentPcs
    <3>4. EntryPc(t, mode) \in Pcs BY <3>3 DEF EntryPc, Pcs, SkillPcs
    <3>5. ResumeIter(t) \in 0..MaxIterations BY <3>2, ConstantsAssumption DEF ResumeIter
    <3>6. task[t].attempts + 1 \in Nat BY <3>2
    <3>7. OutcomeOf(cp[t].skill) \in {"completed", "failed", "none"} BY OutcomeTyped
    <3>8. (IF task[t].phase = "evaluation_done" THEN cp[t].eval ELSE "none") \in Verdicts \cup {"none"}
      BY <3>2
    <3>9. (IF task[t].state = "absent" THEN "no" ELSE "yes") \in {"no", "yes"} OBVIOUS
    <3>10. cp[t].asked \ cp[t].done \in SUBSET Calls BY <3>2
    <3>q. QED BY <3>2, <3>4, <3>5, <3>6, <3>7, <3>8, <3>9, <3>10 DEF Loaded, NewToken, Memories
  <2>3. WkTyped' BY <1>28, <2>2 DEF Claim, NewToken, WkTyped
  <2>4. MemoryShape'
    BY <1>28 DEF Claim, NewToken, MemoryShape, InCall, WkTyped, Loaded, NewToken, OutcomeOf, EntryPc, ResumePc
  <2>q. QED BY <1>28, <2>1, <2>3, <2>4 DEF TypeOK, Claim, TaskTyped, CpTyped, StepTyped, WkTyped, EffectsTyped, IssuedTyped, AnswersTyped
<1>29. ASSUME NEW w \in Workers, NEW t \in Tasks, ReadWait(w, t) PROVE TypeOK' /\ MemoryShape'
  <2>1. "answering" \in Pcs
    BY DEF Pcs, AgentPcs, SkillPcs
  <2>2. cp[t].wait \in StepIds \cup {NoCall}
    BY DEF CpTyped, Checkpoints, StepIds
  <2>3. [Idle EXCEPT !.pc = "answering", !.task = t, !.cur = cp[t].wait] \in Memories
    BY <2>1, <2>2, IdleTyped DEF Memories
  <2>4. WkTyped'
    BY <2>3, <1>29 DEF ReadWait, WkTyped
  <2>5. MemoryShape'
    BY <1>29 DEF ReadWait, MemoryShape, InCall, WkTyped, Idle
  <2>q. QED BY <1>29, <2>4, <2>5 DEF TypeOK, ReadWait, TaskTyped, CpTyped, StepTyped, WkTyped, EffectsTyped, IssuedTyped, AnswersTyped
<1>30. ASSUME NEW w \in Workers, ClaimRefused(w) PROVE TypeOK' /\ MemoryShape'
  <2>1. WkTyped'
    BY <1>30, IdleTyped DEF ClaimRefused, WkTyped
  <2>2. MemoryShape'
    BY <1>30 DEF ClaimRefused, MemoryShape, InCall, WkTyped, Idle
  <2>q. QED BY <1>30, <2>1, <2>2 DEF TypeOK, ClaimRefused, TaskTyped, CpTyped, StepTyped, WkTyped, EffectsTyped, IssuedTyped, AnswersTyped
<1>31. ASSUME NEW w \in Workers, Answer(w) PROVE TypeOK' /\ MemoryShape'
  <2>1. "pending" \in States /\ "tool_done" \in Phases
    BY DEF States, Phases
  <2>2. TaskTyped'
    <3>1. CASE wk[w].task \in Tasks
      <4>1. task[wk[w].task] \in Rows BY <3>1 DEF TaskTyped
      <4>2. [task[wk[w].task] EXCEPT !.state = "pending", !.phase = "tool_done", !.reply = "null"] \in Rows
        BY <4>1, <2>1 DEF Rows
      <4>q. QED BY <4>2, <3>1, <1>31 DEF Answer, TaskTyped
    <3>2. CASE wk[w].task \notin Tasks BY <3>2, <1>31 DEF Answer, TaskTyped
    <3>q. QED BY <3>1, <3>2
  <2>3. CpTyped'
    <3> DEFINE t == wk[w].task
    <3>1. CASE t \in Tasks
      <4>1. cp[t] \in Checkpoints BY <3>1 DEF CpTyped
      <4>2. cp[t].done \cup {cp[t].wait} \in SUBSET Calls BY <4>1, <1>31 DEF Answer, Checkpoints
      <4>3. [cp[t] EXCEPT !.done = cp[t].done \cup {cp[t].wait}, !.wait = NoCall] \in Checkpoints
        <5> HIDE DEF t
        <5>q. QED BY <4>1, <4>2 DEF Checkpoints
      <4>q. QED BY <4>3, <3>1, <1>31 DEF Answer, CpTyped
    <3>2. CASE t \notin Tasks BY <3>2, <1>31 DEF Answer, CpTyped
    <3>q. QED BY <3>1, <3>2
  <2>4. wk[w].cur \in StepIds \cup {NoCall}
    BY DEF WkTyped, Memories
  <2>5. AnswersTyped'
    BY <2>4, <1>31 DEF Answer, AnswersTyped
  <2>6. "claiming" \in Pcs
    BY DEF Pcs, AgentPcs, SkillPcs
  <2>7. WkTyped'
    <3>1. wk[w] \in Memories BY DEF WkTyped
    <3>2. [wk[w] EXCEPT !.pc = "claiming", !.cur = NoCall] \in Memories BY <3>1, <2>6 DEF Memories
    <3>q. QED BY <3>2, <1>31 DEF Answer, WkTyped
  <2>8. MemoryShape'
    BY <1>31 DEF Answer, MemoryShape, InCall, WkTyped
  <2>q. QED BY <1>31, <2>2, <2>3, <2>5, <2>7, <2>8 DEF TypeOK, Answer, TaskTyped, CpTyped, StepTyped, WkTyped, EffectsTyped, IssuedTyped, AnswersTyped
<1>32. ASSUME NEW w \in Workers, AnswerRefused(w) PROVE TypeOK' /\ MemoryShape'
  <2>1. WkTyped'
    BY <1>32, IdleTyped DEF AnswerRefused, WkTyped
  <2>2. MemoryShape'
    BY <1>32 DEF AnswerRefused, MemoryShape, InCall, WkTyped, Idle
  <2>q. QED BY <1>32, <2>1, <2>2 DEF TypeOK, AnswerRefused, TaskTyped, CpTyped, StepTyped, WkTyped, EffectsTyped, IssuedTyped, AnswersTyped
<1>33. ASSUME NEW w \in Workers, NEW e \in {"failed", "none"}, Raise(w, e) PROVE TypeOK' /\ MemoryShape'
  <2>1. "raising" \in Pcs
    BY DEF Pcs, AgentPcs, SkillPcs
  <2>2. WkTyped'
    BY <2>1, <1>33, LeavingTyped, OutcomeTyped DEF Raise, Finishing, WkTyped
  <2>3. MemoryShape'
    BY <1>33 DEF Raise, MemoryShape, InCall, WkTyped, Leaving, Idle
  <2>q. QED BY <1>33, <2>2, <2>3 DEF TypeOK, Raise, TaskTyped, CpTyped, StepTyped, WkTyped, EffectsTyped, IssuedTyped, AnswersTyped
<1>34. ASSUME NEW w \in Workers, Crash(w) PROVE TypeOK' /\ MemoryShape'
  <2>1. WkTyped'
    BY <1>34, IdleTyped DEF Crash, WkTyped
  <2>2. MemoryShape'
    BY <1>34 DEF Crash, MemoryShape, InCall, WkTyped, Idle
  <2>q. QED BY <1>34, <2>1, <2>2 DEF TypeOK, Crash, TaskTyped, CpTyped, StepTyped, WkTyped, EffectsTyped, IssuedTyped, AnswersTyped
<1>35. ASSUME NEW w \in Workers, SetLost(w) PROVE TypeOK' /\ MemoryShape'
  <2>1. WkTyped'
    BY <1>35 DEF SetLost, WkTyped, Memories
  <2>2. MemoryShape'
    BY <1>35 DEF SetLost, MemoryShape, InCall, WkTyped
  <2>q. QED BY <1>35, <2>1, <2>2 DEF TypeOK, SetLost, TaskTyped, CpTyped, StepTyped, WkTyped, EffectsTyped, IssuedTyped, AnswersTyped
<1>36. ASSUME NEW t \in Tasks, Cancel(t) PROVE TypeOK' /\ MemoryShape'
  <2>1. \A u \in Tasks : Cancelled(task[u]) \in Rows
    BY CancelledTyped DEF TaskTyped
  <2>2. TaskTyped'
    BY <2>1, <1>36 DEF Cancel, TaskTyped
  <2>3. MemoryShape'
    BY <1>36 DEF Cancel, MemoryShape, InCall, WkTyped
  <2>q. QED BY <1>36, <2>2, <2>3 DEF TypeOK, Cancel, TaskTyped, CpTyped, StepTyped, WkTyped, EffectsTyped, IssuedTyped, AnswersTyped
<1>37. ASSUME NEW t \in Tasks, NEW c \in Calls, Resolve(t, c) PROVE TypeOK' /\ MemoryShape'
  <2>1. "pending" \in States /\ "tool_done" \in Phases
    BY DEF States, Phases
  <2>2. TaskTyped'
    BY <2>1, <1>37 DEF Resolve, TaskTyped, Rows
  <2>3. cp[t].done \cup {c} \in SUBSET Calls
    BY DEF CpTyped, Checkpoints
  <2>4. CpTyped'
    BY <2>3, <1>37 DEF Resolve, CpTyped, Checkpoints
  <2>5. "resolved_by_human" \in StepStates
    BY DEF StepStates
  <2>6. StepTyped'
    BY <2>5, <1>37 DEF Resolve, StepTyped
  <2>7. MemoryShape'
    BY <1>37 DEF Resolve, MemoryShape, InCall, WkTyped
  <2>q. QED BY <1>37, <2>2, <2>4, <2>6, <2>7 DEF TypeOK, Resolve, TaskTyped, CpTyped, StepTyped, WkTyped, EffectsTyped, IssuedTyped, AnswersTyped
<1>38. ASSUME NEW t \in Tasks, NEW i \in Tasks \cup {NoTask}, RetireExpiredWait(t, i) PROVE TypeOK' /\ MemoryShape'
  <2>1. \A u \in Tasks : Cancelled(task[u]) \in Rows
    BY CancelledTyped DEF TaskTyped
  <2>2. TaskTyped'
    BY <2>1, <1>38 DEF RetireExpiredWait, TaskTyped
  <2>3. MemoryShape'
    BY <1>38 DEF RetireExpiredWait, MemoryShape, InCall, WkTyped
  <2>q. QED BY <1>38, <2>2, <2>3 DEF TypeOK, RetireExpiredWait, TaskTyped, CpTyped, StepTyped, WkTyped, EffectsTyped, IssuedTyped, AnswersTyped
<1>39. ASSUME NEW t \in Tasks, ClaimUncertain(t) PROVE TypeOK' /\ MemoryShape'
  <2>1. "uncertain" \in States
    BY DEF States
  <2>2. TaskTyped'
    BY <2>1, <1>39 DEF ClaimUncertain, TaskTyped, Rows
  <2>3. MemoryShape'
    BY <1>39 DEF ClaimUncertain, MemoryShape, InCall, WkTyped
  <2>q. QED BY <1>39, <2>2, <2>3 DEF TypeOK, ClaimUncertain, TaskTyped, CpTyped, StepTyped, WkTyped, EffectsTyped, IssuedTyped, AnswersTyped
<1>40. ASSUME NEW t \in Tasks, MarkUncertain(t) PROVE TypeOK' /\ MemoryShape'
  <2>1. "uncertain" \in States
    BY DEF States
  <2>2. TaskTyped'
    BY <2>1, <1>40 DEF MarkUncertain, TaskTyped, Rows
  <2>3. MemoryShape'
    BY <1>40 DEF MarkUncertain, MemoryShape, InCall, WkTyped
  <2>q. QED BY <1>40, <2>2, <2>3 DEF TypeOK, MarkUncertain, TaskTyped, CpTyped, StepTyped, WkTyped, EffectsTyped, IssuedTyped, AnswersTyped
<1>41. ASSUME NEW t \in Tasks, LeaseExpires(t) PROVE TypeOK' /\ MemoryShape'
  <2>1. TaskTyped'
    BY <1>41 DEF LeaseExpires, TaskTyped, Rows
  <2>2. MemoryShape'
    BY <1>41 DEF LeaseExpires, MemoryShape, InCall, WkTyped
  <2>q. QED BY <1>41, <2>1, <2>2 DEF TypeOK, LeaseExpires, TaskTyped, CpTyped, StepTyped, WkTyped, EffectsTyped, IssuedTyped, AnswersTyped
<1>42. ASSUME CancelSession PROVE TypeOK' /\ MemoryShape'
  <2>1. \A u \in Tasks : Cancelled(task[u]) \in Rows
    BY CancelledTyped DEF TaskTyped
  <2>2. TaskTyped'
    BY <2>1, <1>42 DEF CancelSession, TaskTyped
  <2>3. MemoryShape'
    BY <1>42 DEF CancelSession, MemoryShape, InCall, WkTyped
  <2>q. QED BY <1>42, <2>2, <2>3 DEF TypeOK, CancelSession, TaskTyped, CpTyped, StepTyped, WkTyped, EffectsTyped, IssuedTyped, AnswersTyped
<1>q. QED BY <1>1, <1>2, <1>3, <1>4, <1>5, <1>6, <1>7, <1>8, <1>9, <1>10, <1>11, <1>12, <1>13, <1>14, <1>15, <1>16, <1>17, <1>18, <1>19, <1>20, <1>21, <1>22, <1>23, <1>24, <1>25, <1>26, <1>27, <1>28, <1>29, <1>30, <1>31, <1>32, <1>33, <1>34, <1>35, <1>36, <1>37, <1>38, <1>39, <1>40, <1>41, <1>42 DEF Next, WorkerStep, AgentStep, SkillAction, EndStep, EntryStep, Fault, HumanStep, ScanStep

\* Every column, counter and register of the model stays within its declared
\* range: phases, lease states and verdicts written by one handler are ones the
\* readers of the row know, and recoveries, iterations and retries keep their
\* limits (TaskStore.claim, run_agent).
THEOREM TypeCorrect == Spec => []TypeOK
<1> DEFINE Inv == TypeOK /\ MemoryShape
<1>1. Init => Inv BY TypeInit
<1>2. Inv /\ [Next]_vars => Inv'
  <2>1. ASSUME Inv, Next PROVE Inv'
    <3>1. TaskTyped /\ CpTyped /\ StepTyped /\ WkTyped /\ EffectsTyped /\ IssuedTyped /\ AnswersTyped
      BY <2>1 DEF TypeOK, TaskTyped, CpTyped, StepTyped, WkTyped, EffectsTyped, IssuedTyped, AnswersTyped
    <3>q. QED BY <2>1, <3>1, TypeNext
  <2>2. ASSUME Inv, UNCHANGED vars PROVE Inv'
    BY <2>2 DEF vars, TypeOK, MemoryShape
  <2>q. QED BY <2>1, <2>2
<1>3. Inv => TypeOK OBVIOUS
<1>q. QED BY <1>1, <1>2, <1>3, PTL DEF Spec

-----------------------------------------------------------------------------

ActivePcs == AgentPcs \cup SkillPcs \cup {"suspending", "finishing", "raising"}

SkillPhases == {"skill_started", "skill_executed", "skill_done"}

AboutToRun(w) == wk[w].pc \in {"executing", "skill_run"}

\* What the holder of a live lease knows of its row: every recorded step is in
\* its messages or is its current call, and what it still has to do is untouched.
Knows(w) ==
  LET t == wk[w].task IN
  /\ wk[w].pc \in {"executing", "executed"} => step[t][wk[w].cur] = "running"
  /\ wk[w].pc \in (AgentPcs \cup {"skill_start", "finishing"}) \ {"executing", "executed"} => task[t].phase \notin Started
  /\ wk[w].pc \in AgentPcs \cup SkillPcs =>
       \A c \in Calls : step[t][c] # "none" =>
         c \in wk[w].done \/ (wk[w].pc \in InCall /\ c = wk[w].cur)
  /\ wk[w].pc \in AgentPcs \cup {"skill_start"} =>
       /\ task[t].phase \notin SkillPhases
       /\ \A c \in Calls : c \in wk[w].todo => step[t][c] = "none" \/ (wk[w].pc \in InCall /\ c = wk[w].cur)
  /\ wk[w].pc \in {"skill_run", "skill_ran"} => task[t].phase = "skill_started"
  /\ wk[w].pc = "skill_ran" => effects[t][SkillStep] > 0
  /\ wk[w].pc = "skill_verify" => task[t].phase = "skill_executed"
  /\ wk[w].pc = "suspending" => task[t].phase = "waiting_user"

\* A running invocation has a token that a claim of its task gave out; a step
\* about to be executed, by a holder or not, is recorded and was never executed.
WorkerOK(w) ==
  LET t == wk[w].task IN
  /\ wk[w].pc \in ActivePcs => t \in Tasks /\ 1 <= wk[w].token /\ wk[w].token <= task[t].attempts
  /\ wk[w].pc \notin ActivePcs => wk[w].token = 0
  /\ wk[w].pc \in {"answering", "claiming"} => t \in Tasks
  /\ Holds(w) => Knows(w)
  /\ AboutToRun(w) => /\ wk[w].cur \in StepIds
                      /\ wk[w].pc = "skill_run" => wk[w].cur = SkillStep
                      /\ step[t][wk[w].cur] # "none"
                      /\ effects[t][wk[w].cur] = 0

\* The step table against the phase, the saved messages and the history.
StepsOK(t) ==
  /\ \A r, s \in StepIds : step[t][r] = "running" /\ step[t][s] = "running" => r = s
  /\ task[t].phase = "tool_started" <=> \E c \in Calls : step[t][c] = "running"
  /\ task[t].phase = "skill_started" <=> step[t][SkillStep] = "running"
  /\ step[t][SkillStep] # "none" => task[t].phase \in SkillPhases
  /\ task[t].phase \in {"skill_executed", "skill_done"} => step[t][SkillStep] \in {"completed", "failed"}
  /\ \A c \in Calls : step[t][c] \notin {"none", "running"} => c \in cp[t].done
  /\ \A c \in Calls : step[t][c] # "none" => c \in issued[t]
  /\ \A s \in StepIds : step[t][s] = "none" => effects[t][s] = 0
  /\ \A s \in StepIds : effects[t][s] <= 1

\* Only a running row has a live lease, and it names its owner.
LeaseOK(t) ==
  /\ task[t].owner <= task[t].attempts
  /\ task[t].lease = "live" => task[t].state = "running" /\ task[t].owner > 0
  /\ task[t].state = "suspended" => task[t].phase = "waiting_user"

\* No two invocations of a task share a token, and no two are about to execute
\* the same step.
PairOK(v, w) ==
  /\ wk[v].pc \in ActivePcs /\ wk[w].pc \in ActivePcs /\ wk[v].task = wk[w].task
       /\ wk[v].token = wk[w].token => v = w
  /\ AboutToRun(v) /\ AboutToRun(w) /\ wk[v].task = wk[w].task /\ wk[v].cur = wk[w].cur => v = w

\* What the model has never issued is in no message list.
WorkerIssued(w) ==
  /\ wk[w].asked \subseteq Calls /\ wk[w].todo \subseteq wk[w].asked
  /\ wk[w].task \in Tasks => wk[w].asked \subseteq issued[wk[w].task]
  /\ wk[w].pc \in InCall => wk[w].cur \in wk[w].asked

IssuedOK ==
  /\ \A t \in Tasks : cp[t].asked \subseteq issued[t]
  /\ \A w \in Workers : WorkerIssued(w)

SafeInv ==
  /\ \A w \in Workers : WorkerOK(w)
  /\ \A t \in Tasks : StepsOK(t) /\ LeaseOK(t)
  /\ \A v, w \in Workers : PairOK(v, w)

-----------------------------------------------------------------------------
(* What kinds of step there are.  t is the row a worker's step is about.     *)

\* Numeric columns are numbers, now and after the step.
Numbers ==
  /\ \A t \in Tasks : task[t].attempts \in Nat /\ task[t].owner \in Nat
  /\ \A w \in Workers : wk[w].token \in Nat

\* The counters of a row and of a worker are natural numbers.
LEMMA NumbersTyped == TypeOK => Numbers
<1> SUFFICES ASSUME TypeOK PROVE Numbers OBVIOUS
<1>1. \A t \in Tasks : task[t].attempts \in Nat /\ task[t].owner \in Nat BY DEF TypeOK, Rows
<1>2. \A w \in Workers : wk[w].token \in Nat BY DEF TypeOK, Memories
<1>q. QED BY <1>1, <1>2 DEF Numbers

\* The steps of one row may be opened, never forgotten.
StepsKept(t) == \A s \in StepIds : step[t][s] # "none" => step'[t][s] # "none"

\* What was executed stays executed.
EffectsKept(t) == \A s \in StepIds : effects[t][s] > 0 => effects'[t][s] > 0

Others(w) == \A v \in Workers : v # w => wk'[v] = wk[v]

\* A worker that does not move keeps its part of the invariant when its row
\* gives it no new right and its step is not executed by somebody else.
LEMMA Bystander ==
  ASSUME NEW v \in Workers, WorkerOK(v), wk'[v] = wk[v], Numbers, Numbers',
         wk[v].task \in Tasks =>
           /\ task[wk[v].task].attempts <= task'[wk[v].task].attempts
           /\ Holds(v)' => /\ Holds(v)
                           /\ task'[wk[v].task].phase = task[wk[v].task].phase
                           /\ step'[wk[v].task] = step[wk[v].task]
           /\ StepsKept(wk[v].task)
           /\ AboutToRun(v) => effects'[wk[v].task][wk[v].cur] = effects[wk[v].task][wk[v].cur]
           /\ EffectsKept(wk[v].task)
  PROVE  WorkerOK(v)'
<1> DEFINE t == wk[v].task
<1>1. Holds(v)' => Knows(v)'
  <2> SUFFICES ASSUME Holds(v)' PROVE Knows(v)' OBVIOUS
  <2>1. t \in Tasks BY DEF Holds
  <2>2. Knows(v) /\ task'[t].phase = task[t].phase /\ step'[t] = step[t] BY <2>1 DEF WorkerOK
  <2>3. EffectsKept(t) BY <2>1
  <2>4. effects[t][SkillStep] > 0 => effects'[t][SkillStep] > 0 BY <2>3 DEF EffectsKept, StepIds
  <2>q. QED BY <2>2, <2>4 DEF Knows
<1>2. AboutToRun(v) => v \in Workers /\ t \in Tasks BY DEF AboutToRun, WorkerOK, ActivePcs, AgentPcs, SkillPcs
<1>3. AboutToRun(v)' => /\ wk'[v].cur \in StepIds
                        /\ wk'[v].pc = "skill_run" => wk'[v].cur = SkillStep
                        /\ step'[wk'[v].task][wk'[v].cur] # "none"
                        /\ effects'[wk'[v].task][wk'[v].cur] = 0
  <2>1. AboutToRun(v)' <=> AboutToRun(v) BY DEF AboutToRun
  <2>q. QED BY <1>2, <2>1 DEF WorkerOK, StepsKept
<1>4. wk'[v].pc \in ActivePcs => wk'[v].task \in Tasks /\ 1 <= wk'[v].token /\ wk'[v].token <= task'[wk'[v].task].attempts
  BY DEF WorkerOK, Numbers
<1>q. QED BY <1>1, <1>3, <1>4 DEF WorkerOK

\* The worker ends its invocation or is not in one.
Drops(w) ==
  /\ wk'[w].pc \notin ActivePcs /\ wk'[w].token = 0
  /\ wk'[w].pc \in {"answering", "claiming"} => wk'[w].task \in Tasks

\* Nobody gains a right on the row: it is as it was, or it is nobody's.
Frees(t) ==
  /\ task'[t].attempts = task[t].attempts
  /\ \/ task'[t] = task[t] /\ step'[t] = step[t]
     \/ task'[t].lease # "live" \/ task'[t].state # "running"

\* A worker that drops its task has nothing left to agree on.
LEMMA DropsOK == ASSUME NEW w \in Workers, Drops(w) PROVE WorkerOK(w)'
<1>1. Knows(w)' BY DEF Drops, Knows, ActivePcs, AgentPcs, SkillPcs
<1>2. ~AboutToRun(w)' BY DEF Drops, AboutToRun, ActivePcs, AgentPcs, SkillPcs
<1>q. QED BY <1>1, <1>2 DEF Drops, WorkerOK

\* Rows change hands or end, workers stay or drop out.
LEMMA TableStep ==
  ASSUME SafeInv, Numbers, Numbers', effects' = effects,
         \A v \in Workers : wk'[v] = wk[v] \/ Drops(v),
         \A t \in Tasks : Frees(t) /\ StepsKept(t) /\ StepsOK(t)' /\ LeaseOK(t)'
  PROVE  SafeInv'
<1>1. ASSUME NEW v \in Workers PROVE WorkerOK(v)'
  <2>1. CASE Drops(v) BY <2>1, DropsOK
  <2>2. CASE wk'[v] = wk[v]
    <3>1. ASSUME wk[v].task \in Tasks, Holds(v)'
          PROVE  /\ Holds(v) /\ task'[wk[v].task].phase = task[wk[v].task].phase
                 /\ step'[wk[v].task] = step[wk[v].task]
      <4>1. task'[wk[v].task].lease = "live" /\ task'[wk[v].task].state = "running"
        BY <2>2, <3>1 DEF Holds
      <4>2. task'[wk[v].task] = task[wk[v].task] /\ step'[wk[v].task] = step[wk[v].task]
        BY <3>1, <4>1 DEF Frees
      <4>q. QED BY <2>2, <3>1, <4>2 DEF Holds
    <3>2. WorkerOK(v) BY DEF SafeInv
    <3>3. ASSUME wk[v].task \in Tasks
          PROVE  task[wk[v].task].attempts <= task'[wk[v].task].attempts
      BY <3>3 DEF Frees, Numbers
    <3>4. wk[v].task \in Tasks => EffectsKept(wk[v].task) BY DEF EffectsKept
    <3>q. QED BY <2>2, <3>1, <3>2, <3>3, <3>4, Bystander
  <2>q. QED BY <2>1, <2>2
<1>2. ASSUME NEW v \in Workers, NEW w \in Workers PROVE PairOK(v, w)'
  <2>1. PairOK(v, w) BY DEF SafeInv
  <2>2. CASE wk'[v] = wk[v] /\ wk'[w] = wk[w] BY <2>1, <2>2 DEF PairOK, AboutToRun
  <2>3. CASE Drops(v) \/ Drops(w)
    BY <2>3 DEF Drops, PairOK, AboutToRun, ActivePcs, AgentPcs, SkillPcs
  <2>q. QED BY <2>2, <2>3
<1>q. QED BY <1>1, <1>2 DEF SafeInv

\* The worker goes on with the same token.
Continues(w) ==
  /\ wk[w].pc \in ActivePcs /\ wk'[w].pc \in ActivePcs
  /\ wk'[w].task = wk[w].task /\ wk'[w].token = wk[w].token

\* Only the worker's memory changes.
LEMMA MemoryStep ==
  ASSUME SafeInv, Numbers, Numbers', NEW w \in Workers,
         UNCHANGED <<task, cp, step, effects>>, \A t \in Tasks : issued[t] \subseteq issued'[t],
         Others(w), Continues(w), Holds(w) => Knows(w)',
         AboutToRun(w)' => AboutToRun(w) /\ wk'[w].cur = wk[w].cur /\ wk'[w].pc = wk[w].pc
  PROVE  SafeInv'
<1>1. ASSUME NEW v \in Workers PROVE WorkerOK(v)'
  <2>1. WorkerOK(v) BY DEF SafeInv
  <2>2. CASE v # w
    <3>1. wk'[v] = wk[v] BY <2>2 DEF Others
    <3>2. Holds(v)' => Holds(v) BY <3>1 DEF Holds
    <3>q. QED BY <2>1, <3>1, <3>2, Bystander DEF Numbers, StepsKept, EffectsKept
  <2>3. CASE v = w
    <3>1. Holds(w)' => Knows(w)' BY DEF Holds, Continues
    <3>q. QED BY <2>1, <2>3, <3>1 DEF WorkerOK, Continues, AboutToRun
  <2>q. QED BY <2>2, <2>3
<1>2. ASSUME NEW u \in Workers, NEW v \in Workers PROVE PairOK(u, v)'
  <2>1. PairOK(u, v) BY DEF SafeInv
  <2>q. QED BY <2>1 DEF PairOK, Others, Continues, AboutToRun
<1>3. ASSUME NEW t \in Tasks PROVE StepsOK(t)' /\ LeaseOK(t)'
  <2>1. StepsOK(t) /\ LeaseOK(t) /\ issued[t] \subseteq issued'[t] BY DEF SafeInv
  <2>q. QED BY <2>1 DEF StepsOK, LeaseOK
<1>q. QED BY <1>1, <1>2, <1>3 DEF SafeInv

\* The holder saves a checkpoint of its row, perhaps with one step.
Saves(w) ==
  LET t == wk[w].task IN
  /\ Holds(w)
  /\ task'[t].state = task[t].state /\ task'[t].owner = task[t].owner
  /\ task'[t].lease = task[t].lease /\ task'[t].attempts = task[t].attempts
  /\ \A u \in Tasks : u # t => task'[u] = task[u] /\ cp'[u] = cp[u] /\ step'[u] = step[u]
  /\ effects' = effects
  /\ \A u \in Tasks : issued[u] \subseteq issued'[u]

\* Of two workers only one can hold the token of a row.
LEMMA OnlyHolder ==
  ASSUME SafeInv, NEW v \in Workers, NEW w \in Workers, Holds(v), Holds(w), wk[v].task = wk[w].task
  PROVE  v = w
<1>1. WorkerOK(v) /\ WorkerOK(w) /\ PairOK(v, w) /\ LeaseOK(wk[w].task) BY DEF SafeInv, Holds
<1>2. wk[v].token = wk[w].token /\ wk[v].token > 0 BY <1>1 DEF Holds, LeaseOK
<1>3. wk[v].pc \in ActivePcs /\ wk[w].pc \in ActivePcs BY <1>1, <1>2 DEF WorkerOK
<1>q. QED BY <1>1, <1>2, <1>3 DEF PairOK

\* A fenced save (checkpoint) of the holder keeps the invariant.
LEMMA CheckpointStep ==
  ASSUME SafeInv, Numbers, Numbers', NEW w \in Workers, NEW t \in Tasks, t = wk[w].task,
         Saves(w), Others(w), Continues(w), StepsKept(t), StepsOK(t)', Knows(w)',
         AboutToRun(w)' => /\ wk'[w].cur \in StepIds
                           /\ wk'[w].pc = "skill_run" => wk'[w].cur = SkillStep
                           /\ step[t][wk'[w].cur] = "none"
                           /\ step'[t][wk'[w].cur] # "none"
  PROVE  SafeInv'
<1>1. ASSUME NEW v \in Workers PROVE WorkerOK(v)'
  <2>1. WorkerOK(v) BY DEF SafeInv
  <2>2. CASE v # w
    <3>1. wk'[v] = wk[v] BY <2>2 DEF Others
    <3>2. ASSUME wk[v].task \in Tasks, Holds(v)'
          PROVE  /\ Holds(v) /\ task'[wk[v].task].phase = task[wk[v].task].phase
                 /\ step'[wk[v].task] = step[wk[v].task]
      <4>1. CASE wk[v].task = t
        <5>1. Holds(v) BY <3>1, <3>2, <4>1 DEF Holds, Saves
        <5>q. QED BY <2>2, <4>1, <5>1, OnlyHolder DEF Saves
      <4>2. CASE wk[v].task # t
        <5>1. task'[wk[v].task] = task[wk[v].task] /\ step'[wk[v].task] = step[wk[v].task]
          BY <3>2, <4>2 DEF Saves
        <5>q. QED BY <3>1, <3>2, <5>1 DEF Holds
      <4>q. QED BY <4>1, <4>2
    <3>3. ASSUME wk[v].task \in Tasks
          PROVE  /\ task[wk[v].task].attempts <= task'[wk[v].task].attempts
                 /\ StepsKept(wk[v].task)
      BY <3>3 DEF Saves, StepsKept, Numbers
    <3>4. wk[v].task \in Tasks => EffectsKept(wk[v].task) BY DEF EffectsKept, Saves
    <3>q. QED BY <2>1, <3>1, <3>2, <3>3, <3>4, Bystander DEF Saves
  <2>3. CASE v = w
    <3>1. StepsOK(t) BY DEF SafeInv
    <3>2. AboutToRun(w)' => effects'[t][wk'[w].cur] = 0 BY <3>1 DEF StepsOK, Saves
    <3>3. wk'[w].task \in Tasks /\ 1 <= wk'[w].token /\ wk'[w].token <= task'[wk'[w].task].attempts
      BY <2>1, <2>3 DEF WorkerOK, Continues, Saves
    <3>q. QED BY <2>3, <3>2, <3>3 DEF WorkerOK, Continues, ActivePcs, AgentPcs, SkillPcs
  <2>q. QED BY <2>2, <2>3
<1>2. ASSUME NEW u \in Workers, NEW v \in Workers PROVE PairOK(u, v)'
  <2>1. PairOK(u, v) /\ WorkerOK(u) /\ WorkerOK(v) BY DEF SafeInv
  <2>2. \A x \in Workers : x # w /\ AboutToRun(x)' /\ AboutToRun(w)' /\ wk'[x].task = t => wk'[x].cur # wk'[w].cur
    <3> SUFFICES ASSUME NEW x \in Workers, x # w, AboutToRun(x)', AboutToRun(w)', wk'[x].task = t
                 PROVE  wk'[x].cur # wk'[w].cur
      OBVIOUS
    <3>1. WorkerOK(x) BY DEF SafeInv
    <3>2. wk'[x] = wk[x] BY DEF Others
    <3>q. QED BY <3>1, <3>2 DEF WorkerOK, AboutToRun
  <2>3. (wk[u].pc \in ActivePcs /\ wk[v].pc \in ActivePcs /\ wk[u].task = wk[v].task
           /\ wk[u].token = wk[v].token => u = v)'
    BY <2>1 DEF PairOK, Others, Continues
  <2>4. (AboutToRun(u) /\ AboutToRun(v) /\ wk[u].task = wk[v].task /\ wk[u].cur = wk[v].cur => u = v)'
    <3>1. CASE u # w /\ v # w BY <2>1, <3>1 DEF PairOK, Others, AboutToRun
    <3>2. CASE u = w \/ v = w BY <2>2, <3>2 DEF Continues
    <3>q. QED BY <3>1, <3>2
  <2>q. QED BY <2>3, <2>4 DEF PairOK
<1>3. ASSUME NEW u \in Tasks PROVE StepsOK(u)' /\ LeaseOK(u)'
  <2>1. StepsOK(u) /\ LeaseOK(u) /\ issued[u] \subseteq issued'[u] BY DEF SafeInv, Saves
  <2>2. CASE u = t BY <2>1, <2>2 DEF LeaseOK, Saves, Holds
  <2>3. CASE u # t
    <3>1. task'[u] = task[u] /\ cp'[u] = cp[u] /\ step'[u] = step[u] /\ effects'[u] = effects[u]
      BY <2>3 DEF Saves
    <3>q. QED BY <2>1, <3>1 DEF StepsOK, LeaseOK
  <2>q. QED BY <2>2, <2>3
<1>q. QED BY <1>1, <1>2, <1>3 DEF SafeInv

-----------------------------------------------------------------------------
(* What the handlers write, column by column. *)

\* A fenced save writes phase and checkpoint of its own row only.
LEMMA CheckpointRow ==
  ASSUME TaskTyped, CpTyped, NEW w \in Workers, NEW t \in Tasks, t = wk[w].task,
         NEW p, NEW d, Checkpoint(w, p, d)
  PROVE  /\ Holds(w) /\ task'[t].phase = p /\ cp'[t] = d
         /\ task'[t].state = task[t].state /\ task'[t].owner = task[t].owner
         /\ task'[t].lease = task[t].lease /\ task'[t].attempts = task[t].attempts
         /\ \A u \in Tasks : u # t => task'[u] = task[u] /\ cp'[u] = cp[u]
<1>1. task' = [task EXCEPT ![t] = [task[t] EXCEPT !.phase = p]] BY DEF Checkpoint
<1>2. task'[t] = [task[t] EXCEPT !.phase = p] BY <1>1 DEF TaskTyped
<1>3. task[t] \in Rows BY DEF TaskTyped
<1>4. task'[t].phase = p BY <1>2, <1>3 DEF Rows
<1>5. /\ task'[t].state = task[t].state /\ task'[t].owner = task[t].owner
      /\ task'[t].lease = task[t].lease /\ task'[t].attempts = task[t].attempts
  BY <1>2, <1>3 DEF Rows
<1>6. cp'[t] = d BY DEF Checkpoint, CpTyped
<1>7. \A u \in Tasks : u # t => task'[u] = task[u] /\ cp'[u] = cp[u]
  BY <1>1 DEF Checkpoint, TaskTyped, CpTyped
<1>q. QED BY <1>4, <1>5, <1>6, <1>7 DEF Checkpoint

\* The upsert of a step writes one row of task_steps.
LEMMA UpsertRow ==
  ASSUME StepTyped, NEW w \in Workers, NEW t \in Tasks, t = wk[w].task,
         NEW s \in StepIds, NEW x, StepUpsert(w, s, x)
  PROVE  /\ step'[t][s] = x
         /\ \A r \in StepIds : r # s => step'[t][r] = step[t][r]
         /\ \A u \in Tasks : u # t => step'[u] = step[u]
<1>1. step' = [step EXCEPT ![t] = [step[t] EXCEPT ![s] = x]] BY DEF StepUpsert
<1>q. QED BY <1>1 DEF StepTyped

\* What run_agent saves contains every call it has a result for.
LEMMA SavedDone ==
  ASSUME NEW w \in Workers, NEW a, NEW d, NEW x, NEW y
  PROVE  /\ Messages(w, a, d).done = d
         /\ Saved(w).done = wk[w].done
         /\ [Saved(w) EXCEPT !.iter = x].done = wk[w].done
         /\ [Saved(w) EXCEPT !.retries = x].done = wk[w].done
         /\ [Saved(w) EXCEPT !.eval = x].done = wk[w].done
         /\ [Saved(w) EXCEPT !.skill = x].done = wk[w].done
         /\ [Saved(w) EXCEPT !.skill = x, !.eval = y].done = wk[w].done
BY DEF Saved, Messages, EmptyCheckpoint

\* The worker drops what it has in memory and nothing else happens.
LEMMA DropStep ==
  ASSUME SafeInv, Numbers, Numbers', WkTyped, NEW w \in Workers,
         wk' = [wk EXCEPT ![w] = Idle], UNCHANGED <<task, cp, step, effects, issued>>
  PROVE  SafeInv'
<1>1. \A v \in Workers : wk'[v] = wk[v] \/ Drops(v)
  <2>1. wk'[w] = Idle /\ \A v \in Workers : v # w => wk'[v] = wk[v] BY DEF WkTyped
  <2>2. wk'[w].pc = "idle" /\ wk'[w].token = 0 BY <2>1 DEF Idle
  <2>3. Drops(w) BY <2>2 DEF Drops, ActivePcs, AgentPcs, SkillPcs
  <2>q. QED BY <2>1, <2>3
<1>2. ASSUME NEW t \in Tasks PROVE Frees(t) /\ StepsKept(t) /\ StepsOK(t)' /\ LeaseOK(t)'
  BY DEF SafeInv, Frees, StepsKept, StepsOK, LeaseOK
<1>q. QED BY <1>1, <1>2, TableStep

\* A worker that leaves its turn keeps its token and its task until it has finished.
LEMMA LeavingFields ==
  ASSUME NEW w \in Workers, NEW p, NEW o
  PROVE  /\ Leaving(w, p, o).pc = p
         /\ Leaving(w, p, o).task = wk[w].task
         /\ Leaving(w, p, o).token = wk[w].token
<1>1. Leaving(w, p, o).pc = p BY DEF Leaving, Idle
<1>2. Leaving(w, p, o).task = wk[w].task BY DEF Leaving, Idle
<1>3. Leaving(w, p, o).token = wk[w].token BY DEF Leaving, Idle
<1>q. QED BY <1>1, <1>2, <1>3

\* The worker turns to its ending, having saved nothing more.
LEMMA LeaveStep ==
  ASSUME SafeInv, Numbers, Numbers', WkTyped, NEW w \in Workers,
         NEW p \in {"finishing", "raising"}, NEW o, wk[w].pc \in ActivePcs,
         p = "finishing" /\ Holds(w) => task[wk[w].task].phase \notin Started,
         wk' = [wk EXCEPT ![w] = Leaving(w, p, o)], UNCHANGED <<task, cp, step, effects, issued>>
  PROVE  SafeInv'
<1>1. wk'[w] = Leaving(w, p, o) /\ Others(w) BY DEF WkTyped, Others
<1>2. wk'[w].pc = p /\ wk'[w].task = wk[w].task /\ wk'[w].token = wk[w].token
  BY <1>1, LeavingFields
<1>3. Continues(w) BY <1>2 DEF Continues, ActivePcs
<1>4. Holds(w) => Knows(w)' BY <1>2 DEF Knows, AgentPcs, SkillPcs
<1>5. ~AboutToRun(w)' BY <1>2 DEF AboutToRun
<1>q. QED BY <1>1, <1>3, <1>4, <1>5, MemoryStep

\* A checkpoint without a step: what is recorded is in the messages already.
LEMMA PlainSave ==
  ASSUME SafeInv, Numbers, Numbers', NEW w \in Workers, NEW t \in Tasks, t = wk[w].task,
         Saves(w), Others(w), Continues(w), step' = step,
         task'[t].phase \notin Started \cup SkillPhases,
         wk[w].pc \in AgentPcs \ InCall,
         wk'[w].pc \in AgentPcs \ InCall \/ (wk'[w].pc = "suspending" /\ task'[t].phase = "waiting_user"),
         \A c \in Calls : c \in wk[w].done => c \in cp'[t].done,
         wk'[w].pc \in AgentPcs => wk'[w].done = wk[w].done,
         wk'[w].pc \in AgentPcs => \A c \in Calls : c \in wk'[w].todo => c \in wk[w].todo \/ c \notin issued[t]
  PROVE  SafeInv'
<1>1. WorkerOK(w) /\ StepsOK(t) BY DEF SafeInv
<1>2. Knows(w) BY <1>1 DEF WorkerOK, Saves
<1>3. task[t].phase \notin Started \cup SkillPhases BY <1>2 DEF Knows, InCall
<1>4. \A c \in Calls : step[t][c] # "none" => c \in wk[w].done BY <1>2 DEF Knows, InCall
<1>5. \A c \in Calls : c \in wk[w].todo => step[t][c] = "none" BY <1>2 DEF Knows, InCall
<1>6. effects' = effects /\ issued[t] \subseteq issued'[t] BY DEF Saves
<1>7. StepsOK(t)'
  <2>1. \A s \in StepIds : step[t][s] # "running" BY <1>1, <1>3 DEF StepsOK, Started, StepIds
  <2>2. step[t][SkillStep] = "none" BY <1>1, <1>3 DEF StepsOK
  <2>q. QED BY <1>1, <1>4, <1>6, <2>1, <2>2 DEF StepsOK, Started, SkillPhases, StepIds
<1>8. Knows(w)'
  <2>1. wk'[w].task = t BY DEF Continues
  <2>2. CASE wk'[w].pc = "suspending" BY <2>1, <2>2 DEF Knows, AgentPcs, SkillPcs
  <2>3. CASE wk'[w].pc \in AgentPcs \ InCall
    <3>1. \A c \in Calls : c \in wk'[w].todo => step[t][c] = "none" BY <1>1, <1>5, <2>3 DEF StepsOK
    <3>q. QED BY <1>4, <2>1, <2>3, <3>1 DEF Knows, AgentPcs, SkillPcs, InCall
  <2>q. QED BY <2>2, <2>3
<1>9. ~AboutToRun(w)' BY DEF AboutToRun, AgentPcs, InCall
<1>10. StepsKept(t) BY DEF StepsKept
<1>q. QED BY <1>7, <1>8, <1>9, <1>10, CheckpointStep

\* A row is given up: nobody owns it afterwards, its phase and steps stay.
GivenUp(u) ==
  /\ task'[u].lease # "live"
  /\ task'[u].phase = task[u].phase /\ task'[u].attempts = task[u].attempts
  /\ task'[u].owner = task[u].owner \/ task'[u].owner = 0
  /\ task'[u].state = "suspended" => task[u].phase = "waiting_user"

\* Statements by which rows stay or are given up, and workers stay or drop, keep the invariant.
LEMMA RowStep ==
  ASSUME SafeInv, Numbers, Numbers', UNCHANGED <<cp, step, effects, issued>>,
         \A v \in Workers : wk'[v] = wk[v] \/ Drops(v),
         \A u \in Tasks : task'[u] = task[u] \/ GivenUp(u)
  PROVE  SafeInv'
<1>1. ASSUME NEW u \in Tasks PROVE Frees(u) /\ StepsKept(u) /\ StepsOK(u)' /\ LeaseOK(u)'
  <2>1. StepsOK(u) /\ LeaseOK(u) BY DEF SafeInv
  <2>2. Frees(u) BY DEF Frees, GivenUp
  <2>3. StepsKept(u) BY DEF StepsKept
  <2>4. task'[u].phase = task[u].phase BY DEF GivenUp
  <2>5. StepsOK(u)' BY <2>1, <2>4 DEF StepsOK
  <2>6. LeaseOK(u)' BY <2>1 DEF LeaseOK, GivenUp, Numbers
  <2>q. QED BY <2>2, <2>3, <2>5, <2>6
<1>q. QED BY <1>1, TableStep

\* The end of an invocation.
LEMMA FinishStep ==
  ASSUME SafeInv, Numbers, Numbers', TaskTyped, WkTyped, NEW w \in Workers, NEW x \in States,
         FinishRow(w, x), x = "suspended" => wk[w].pc = "suspending"
  PROVE  SafeInv'
<1> DEFINE t == wk[w].task
<1>1. t \in Tasks /\ Holds(w)
  BY DEF FinishRow, MayFinish, Holds, SafeInv, LeaseOK
<1>2. task[t] \in Rows BY <1>1 DEF TaskTyped
<1>3. task' = [task EXCEPT ![t] = [task[t] EXCEPT !.state = x, !.reply = "text",
                 !.verification = Verification(t, x), !.owner = 0, !.lease = "null"]]
  BY DEF FinishRow
<1>4. task'[t] = [task[t] EXCEPT !.state = x, !.reply = "text",
                 !.verification = Verification(t, x), !.owner = 0, !.lease = "null"]
  BY <1>1, <1>3 DEF TaskTyped
<1>5. task'[t].state = x /\ task'[t].owner = 0 /\ task'[t].lease = "null"
  BY <1>2, <1>4 DEF Rows
<1>6. task'[t].phase = task[t].phase /\ task'[t].attempts = task[t].attempts
  BY <1>2, <1>4 DEF Rows
<1>7. x = "suspended" => task[t].phase = "waiting_user"
  <2>1. WorkerOK(w) BY DEF SafeInv
  <2>q. QED BY <1>1, <2>1 DEF WorkerOK, Knows
<1>8. GivenUp(t) BY <1>5, <1>6, <1>7 DEF GivenUp
<1>9. \A u \in Tasks : u # t => task'[u] = task[u] BY <1>3 DEF TaskTyped
<1>10. \A v \in Workers : wk'[v] = wk[v] \/ Drops(v)
  <2>1. wk'[w] = Idle /\ \A v \in Workers : v # w => wk'[v] = wk[v] BY DEF FinishRow, WkTyped
  <2>2. wk'[w].pc = "idle" /\ wk'[w].token = 0 BY <2>1 DEF Idle
  <2>3. Drops(w) BY <2>2 DEF Drops, ActivePcs, AgentPcs, SkillPcs
  <2>q. QED BY <2>1, <2>3
<1>11. UNCHANGED <<cp, step, effects, issued>> BY DEF FinishRow
<1>q. QED BY <1>8, <1>9, <1>10, <1>11, RowStep

\* Something is executed: by one worker, which then is no longer about to.
LEMMA EffectStep ==
  ASSUME SafeInv, Numbers, Numbers', EffectsTyped, NEW w \in Workers, NEW t \in Tasks, t = wk[w].task,
         AboutToRun(w), UNCHANGED <<task, cp, step, issued>>,
         effects' = [effects EXCEPT ![t][wk[w].cur] = @ + 1],
         Others(w), Continues(w), ~AboutToRun(w)', Holds(w) => Knows(w)'
  PROVE  SafeInv'
<1> DEFINE s == wk[w].cur
<1>1. WorkerOK(w) BY DEF SafeInv
<1>2. s \in StepIds /\ step[t][s] # "none" /\ effects[t][s] = 0 BY <1>1 DEF WorkerOK
<1>3. /\ effects'[t][s] = 1
      /\ \A r \in StepIds : r # s => effects'[t][r] = effects[t][r]
      /\ \A u \in Tasks : u # t => effects'[u] = effects[u]
  <2> HIDE DEF s
  <2>1. effects' = [effects EXCEPT ![t] = [effects[t] EXCEPT ![s] = effects[t][s] + 1]] BY DEF s
  <2>2. effects[t] \in [StepIds -> Nat] BY DEF EffectsTyped
  <2>3. effects'[t] = [effects[t] EXCEPT ![s] = effects[t][s] + 1] BY <2>1 DEF EffectsTyped
  <2>4. effects'[t][s] = 0 + 1 BY <1>2, <2>2, <2>3
  <2>5. \A r \in StepIds : r # s => effects'[t][r] = effects[t][r] BY <1>2, <2>2, <2>3
  <2>6. \A u \in Tasks : u # t => effects'[u] = effects[u] BY <2>1 DEF EffectsTyped
  <2>q. QED BY <2>4, <2>5, <2>6
<1>4. ASSUME NEW v \in Workers PROVE WorkerOK(v)'
  <2>1. WorkerOK(v) /\ PairOK(v, w) BY DEF SafeInv
  <2>2. CASE v # w
    <3>1. wk'[v] = wk[v] BY <2>2 DEF Others
    <3>2. Holds(v)' => Holds(v) BY <3>1 DEF Holds
    <3>3. AboutToRun(v) => wk[v].task \in Tasks /\ wk[v].cur \in StepIds
      BY <2>1 DEF WorkerOK, AboutToRun, ActivePcs, AgentPcs, SkillPcs
    <3>4. AboutToRun(v) => effects'[wk[v].task][wk[v].cur] = effects[wk[v].task][wk[v].cur]
      BY <1>3, <2>1, <2>2, <3>3 DEF PairOK
    <3>5. wk[v].task \in Tasks => EffectsKept(wk[v].task)
      <4> SUFFICES ASSUME wk[v].task \in Tasks, NEW r \in StepIds, effects[wk[v].task][r] > 0
                   PROVE  effects'[wk[v].task][r] > 0
        BY DEF EffectsKept
      <4>q. QED BY <1>2, <1>3
    <3>q. QED BY <2>1, <3>1, <3>2, <3>4, <3>5, Bystander DEF Numbers, StepsKept
  <2>3. CASE v = w
    <3>1. Holds(w)' => Knows(w)' BY DEF Holds, Continues
    <3>q. QED BY <2>1, <2>3, <3>1 DEF WorkerOK, Continues, ActivePcs, AgentPcs, SkillPcs
  <2>q. QED BY <2>2, <2>3
<1>5. ASSUME NEW u \in Workers, NEW v \in Workers PROVE PairOK(u, v)'
  <2>1. PairOK(u, v) BY DEF SafeInv
  <2>q. QED BY <2>1 DEF PairOK, Others, Continues, AboutToRun
<1>6. ASSUME NEW u \in Tasks PROVE StepsOK(u)' /\ LeaseOK(u)'
  <2>1. StepsOK(u) /\ LeaseOK(u) BY DEF SafeInv
  <2>2. LeaseOK(u)' BY <2>1 DEF LeaseOK
  <2>3. \A r \in StepIds : (step[u][r] = "none" => effects'[u][r] = 0) /\ effects'[u][r] <= 1
    <3>1. CASE u = t BY <1>2, <1>3, <2>1, <3>1 DEF StepsOK
    <3>2. CASE u # t BY <1>3, <2>1, <3>2 DEF StepsOK
    <3>q. QED BY <3>1, <3>2
  <2>4. StepsOK(u)' BY <2>1, <2>3 DEF StepsOK
  <2>q. QED BY <2>2, <2>4
<1>q. QED BY <1>4, <1>5, <1>6 DEF SafeInv

-----------------------------------------------------------------------------
(* The invariant is inductive: one lemma per action that is not a table step. *)

\* The save before a model call keeps the invariant.
LEMMA ModelPendingSafe ==
  ASSUME SafeInv, MemoryShape, Numbers, Numbers',
         TaskTyped, CpTyped, StepTyped, WkTyped, EffectsTyped, IssuedTyped,
         NEW w \in Workers, NEW t \in Tasks, t = wk[w].task, ModelPending(w)
  PROVE  SafeInv'
<1>1. Checkpoint(w, "model_pending", [Saved(w) EXCEPT !.iter = @ + 1]) BY DEF ModelPending
<1>m. wk[w] \in Memories BY DEF WkTyped
<1>2. wk'[w] = [wk[w] EXCEPT !.pc = "calling", !.iter = wk[w].iter + 1, !.resume = IF wk[w].pc = "model" THEN wk[w].resume ELSE "no"] /\ Others(w)
  BY DEF ModelPending, WkTyped, Others
<1>3. wk'[w].pc = "calling" BY <1>m, <1>2 DEF Memories
<1>4. wk'[w].task = wk[w].task /\ wk'[w].token = wk[w].token /\ wk'[w].done = wk[w].done /\ wk'[w].todo = wk[w].todo
  BY <1>m, <1>2 DEF Memories
<1>5. Saves(w) BY <1>1, CheckpointRow DEF ModelPending, Saves
<1>6. wk[w].pc \in {"model", "tools"} BY DEF ModelPending, LoopHead
<1>7. Continues(w) BY <1>3, <1>4, <1>6 DEF Continues, ActivePcs, AgentPcs
<1>8. task'[t].phase = "model_pending" /\ cp'[t] = [Saved(w) EXCEPT !.iter = @ + 1] BY <1>1, CheckpointRow
<1>9. [Saved(w) EXCEPT !.iter = @ + 1].done = wk[w].done BY DEF Saved, Messages, EmptyCheckpoint
<1>10. cp'[t].done = wk[w].done BY <1>8, <1>9
<1>11. \A c \in Calls : c \in wk'[w].todo => c \in wk[w].todo \/ c \notin issued[t]
  BY <1>3, <1>4
<1>12. step' = step BY DEF ModelPending
<1>q. QED BY <1>3, <1>4, <1>2, <1>5, <1>6, <1>7, <1>8, <1>10, <1>11, <1>12, PlainSave DEF AgentPcs, InCall,
    Started, SkillPhases

\* The save of a response keeps the invariant: its calls are fresh.
LEMMA ModelReceivedSafe ==
  ASSUME SafeInv, MemoryShape, Numbers, Numbers',
         TaskTyped, CpTyped, StepTyped, WkTyped, EffectsTyped, IssuedTyped,
         NEW w \in Workers, NEW t \in Tasks, t = wk[w].task, NEW cs \in SUBSET Calls, ModelReceived(w, cs)
  PROVE  SafeInv'
<1>1. Checkpoint(w, "model_received", Messages(w, cs, wk[w].done)) BY DEF ModelReceived
<1>m. wk[w] \in Memories BY DEF WkTyped
<1>2. wk'[w] = [wk[w] EXCEPT !.pc = IF cs = {} THEN "final" ELSE "tools", !.asked = cs, !.todo = cs] /\ Others(w)
  BY DEF ModelReceived, WkTyped, Others
<1>3. wk'[w].pc = IF cs = {} THEN "final" ELSE "tools" BY <1>m, <1>2 DEF Memories
<1>4. wk'[w].todo = cs BY <1>m, <1>2 DEF Memories
<1>5. wk'[w].task = wk[w].task /\ wk'[w].token = wk[w].token /\ wk'[w].done = wk[w].done
  BY <1>m, <1>2 DEF Memories
<1>6. \A u \in Tasks : issued[u] \subseteq issued'[u] BY DEF ModelReceived, IssuedTyped
<1>7. step' = step /\ effects' = effects BY DEF ModelReceived
<1>8. Saves(w) BY <1>1, <1>6, <1>7, CheckpointRow DEF Saves
<1>9. wk[w].pc \in {"calling"} BY DEF ModelReceived
<1>10. Continues(w) BY <1>3, <1>4, <1>5, <1>9 DEF Continues, ActivePcs, AgentPcs
<1>11. task'[t].phase = "model_received" /\ cp'[t] = Messages(w, cs, wk[w].done) BY <1>1, CheckpointRow
<1>12. Messages(w, cs, wk[w].done).done = wk[w].done BY DEF Saved, Messages, EmptyCheckpoint
<1>13. cp'[t].done = wk[w].done BY <1>11, <1>12
<1>14. \A c \in Calls : c \in wk'[w].todo => c \in wk[w].todo \/ c \notin issued[t]
  BY <1>3, <1>4, <1>5 DEF ModelReceived, FreshCalls
<1>15. step' = step BY DEF ModelReceived
<1>q. QED BY <1>3, <1>4, <1>5, <1>2, <1>8, <1>9, <1>10, <1>11, <1>13, <1>14, <1>15, PlainSave DEF AgentPcs,
    InCall, Started, SkillPhases

\* The save before an evaluation keeps the invariant.
LEMMA EvaluationPendingSafe ==
  ASSUME SafeInv, MemoryShape, Numbers, Numbers',
         TaskTyped, CpTyped, StepTyped, WkTyped, EffectsTyped, IssuedTyped,
         NEW w \in Workers, NEW t \in Tasks, t = wk[w].task, EvaluationPending(w)
  PROVE  SafeInv'
<1>1. Checkpoint(w, "evaluation_pending", Saved(w)) BY DEF EvaluationPending
<1>m. wk[w] \in Memories BY DEF WkTyped
<1>2. wk'[w] = [wk[w] EXCEPT !.pc = "judging"] /\ Others(w)
  BY DEF EvaluationPending, WkTyped, Others
<1>3. wk'[w].pc = "judging" BY <1>m, <1>2 DEF Memories
<1>4. wk'[w].task = wk[w].task /\ wk'[w].token = wk[w].token /\ wk'[w].done = wk[w].done /\ wk'[w].todo = wk[w].todo
  BY <1>m, <1>2 DEF Memories
<1>5. Saves(w) BY <1>1, CheckpointRow DEF EvaluationPending, Saves
<1>6. wk[w].pc \in {"final"} BY DEF EvaluationPending
<1>7. Continues(w) BY <1>3, <1>4, <1>6 DEF Continues, ActivePcs, AgentPcs
<1>8. task'[t].phase = "evaluation_pending" /\ cp'[t] = Saved(w) BY <1>1, CheckpointRow
<1>9. Saved(w).done = wk[w].done BY DEF Saved, Messages, EmptyCheckpoint
<1>10. cp'[t].done = wk[w].done BY <1>8, <1>9
<1>11. \A c \in Calls : c \in wk'[w].todo => c \in wk[w].todo \/ c \notin issued[t]
  BY <1>3, <1>4
<1>12. step' = step BY DEF EvaluationPending
<1>q. QED BY <1>3, <1>4, <1>2, <1>5, <1>6, <1>7, <1>8, <1>10, <1>11, <1>12, PlainSave DEF AgentPcs, InCall,
    Started, SkillPhases

\* The save of a verdict keeps the invariant.
LEMMA EvaluationDoneSafe ==
  ASSUME SafeInv, MemoryShape, Numbers, Numbers',
         TaskTyped, CpTyped, StepTyped, WkTyped, EffectsTyped, IssuedTyped,
         NEW w \in Workers, NEW t \in Tasks, t = wk[w].task, NEW v \in Verdicts, EvaluationDone(w, v)
  PROVE  SafeInv'
<1>1. Checkpoint(w, "evaluation_done", [Saved(w) EXCEPT !.eval = v]) BY DEF EvaluationDone
<1>m. wk[w] \in Memories BY DEF WkTyped
<1>2. wk'[w] = [wk[w] EXCEPT !.pc = "verdict", !.eval = v, !.resume = "no"] /\ Others(w)
  BY DEF EvaluationDone, WkTyped, Others
<1>3. wk'[w].pc = "verdict" BY <1>m, <1>2 DEF Memories
<1>4. wk'[w].task = wk[w].task /\ wk'[w].token = wk[w].token /\ wk'[w].done = wk[w].done /\ wk'[w].todo = wk[w].todo
  BY <1>m, <1>2 DEF Memories
<1>5. Saves(w) BY <1>1, CheckpointRow DEF EvaluationDone, Saves
<1>6. wk[w].pc \in {"judging", "final"} BY DEF EvaluationDone
<1>7. Continues(w) BY <1>3, <1>4, <1>6 DEF Continues, ActivePcs, AgentPcs
<1>8. task'[t].phase = "evaluation_done" /\ cp'[t] = [Saved(w) EXCEPT !.eval = v] BY <1>1, CheckpointRow
<1>9. [Saved(w) EXCEPT !.eval = v].done = wk[w].done BY DEF Saved, Messages, EmptyCheckpoint
<1>10. cp'[t].done = wk[w].done BY <1>8, <1>9
<1>11. \A c \in Calls : c \in wk'[w].todo => c \in wk[w].todo \/ c \notin issued[t]
  BY <1>3, <1>4
<1>12. step' = step BY DEF EvaluationDone
<1>q. QED BY <1>3, <1>4, <1>2, <1>5, <1>6, <1>7, <1>8, <1>10, <1>11, <1>12, PlainSave DEF AgentPcs, InCall,
    Started, SkillPhases

\* Going on after a rejected answer keeps the invariant.
LEMMA CriticRetrySafe ==
  ASSUME SafeInv, MemoryShape, Numbers, Numbers',
         TaskTyped, CpTyped, StepTyped, WkTyped, EffectsTyped, IssuedTyped,
         NEW w \in Workers, NEW t \in Tasks, t = wk[w].task, CriticRetry(w)
  PROVE  SafeInv'
<1>1. Checkpoint(w, "model_pending", [Saved(w) EXCEPT !.retries = @ + 1]) BY DEF CriticRetry
<1>m. wk[w] \in Memories BY DEF WkTyped
<1>2. wk'[w] = [wk[w] EXCEPT !.pc = "model", !.retries = wk[w].retries + 1, !.eval = "none"] /\ Others(w)
  BY DEF CriticRetry, WkTyped, Others
<1>3. wk'[w].pc = "model" BY <1>m, <1>2 DEF Memories
<1>4. wk'[w].task = wk[w].task /\ wk'[w].token = wk[w].token /\ wk'[w].done = wk[w].done /\ wk'[w].todo = wk[w].todo
  BY <1>m, <1>2 DEF Memories
<1>5. Saves(w) BY <1>1, CheckpointRow DEF CriticRetry, Saves
<1>6. wk[w].pc \in {"verdict"} BY DEF CriticRetry
<1>7. Continues(w) BY <1>3, <1>4, <1>6 DEF Continues, ActivePcs, AgentPcs
<1>8. task'[t].phase = "model_pending" /\ cp'[t] = [Saved(w) EXCEPT !.retries = @ + 1] BY <1>1, CheckpointRow
<1>9. [Saved(w) EXCEPT !.retries = @ + 1].done = wk[w].done BY DEF Saved, Messages, EmptyCheckpoint
<1>10. cp'[t].done = wk[w].done BY <1>8, <1>9
<1>11. \A c \in Calls : c \in wk'[w].todo => c \in wk[w].todo \/ c \notin issued[t]
  BY <1>3, <1>4
<1>12. step' = step BY DEF CriticRetry
<1>q. QED BY <1>3, <1>4, <1>2, <1>5, <1>6, <1>7, <1>8, <1>10, <1>11, <1>12, PlainSave DEF AgentPcs, InCall,
    Started, SkillPhases


\* The tool's result is saved: the step is closed and its call is in the messages.
LEMMA ToolResult ==
  ASSUME SafeInv, Numbers, Numbers', NEW w \in Workers, NEW t \in Tasks, t = wk[w].task, NEW c \in Calls,
         Saves(w), Others(w), Continues(w), wk[w].pc \in AgentPcs,
         wk[w].pc \in {"executing", "executed", "observed"} => c = wk[w].cur,
         wk[w].pc # "executing",
         c \in issued[t], task'[t].phase = "tool_done", cp'[t].done = wk[w].done \cup {c},
         step'[t][c] \in {"completed", "failed"},
         \A s \in StepIds : s # c => step'[t][s] = step[t][s],
         \/ /\ wk'[w].pc = "observed" /\ wk'[w].cur = c
            /\ wk'[w].done = wk[w].done /\ wk'[w].todo = wk[w].todo
         \/ /\ wk'[w].pc = "tools"
            /\ wk'[w].done = wk[w].done \cup {c} /\ wk'[w].todo = wk[w].todo \ {c}
  PROVE  SafeInv'
<1>1. StepsOK(t) /\ Knows(w) BY DEF SafeInv, WorkerOK, Saves
<1>2. effects' = effects /\ issued[t] \subseteq issued'[t] BY DEF Saves
<1>3. task[t].phase \notin SkillPhases BY <1>1 DEF Knows
<1>4. \A s \in StepIds : step[t][s] = "running" => s = c
  <2>1. CASE wk[w].pc = "executed" BY <1>1, <2>1 DEF Knows, StepsOK, StepIds
  <2>2. CASE wk[w].pc # "executed"
    <3>1. task[t].phase \notin Started BY <1>1, <2>2 DEF Knows
    <3>q. QED BY <1>1, <3>1 DEF StepsOK, Started, StepIds
  <2>q. QED BY <2>1, <2>2
<1>5. \A d \in Calls : step[t][d] # "none" => d \in wk[w].done \/ d = c
  BY <1>1 DEF Knows, InCall
<1>6. \A d \in Calls : d \in wk[w].todo => step[t][d] = "none" \/ d = c
  BY <1>1 DEF Knows, InCall
<1>7. \A s \in StepIds : step'[t][s] # "running" BY <1>4 DEF StepIds
<1>8. step'[t][SkillStep] = "none"
  BY <1>1, <1>3, ConstantsAssumption DEF StepsOK, StepIds
<1>9. StepsOK(t)'
  <2>1. \A d \in Calls : step'[t][d] # "none" => d \in cp'[t].done /\ d \in issued'[t]
    BY <1>1, <1>2, <1>5 DEF StepsOK, StepIds
  <2>2. \A s \in StepIds : (step'[t][s] = "none" => effects'[t][s] = 0) /\ effects'[t][s] <= 1
    BY <1>1, <1>2 DEF StepsOK
  <2>q. QED BY <1>7, <1>8, <2>1, <2>2 DEF StepsOK, SkillPhases, StepIds
<1>10. Knows(w)'
  <2>1. wk'[w].task = t BY DEF Continues
  <2>2. \A d \in Calls : step'[t][d] # "none" => d \in wk'[w].done \/ (wk'[w].pc \in InCall /\ d = wk'[w].cur)
    BY <1>5 DEF InCall, StepIds
  <2>3. \A d \in Calls : d \in wk'[w].todo => step'[t][d] = "none" \/ (wk'[w].pc \in InCall /\ d = wk'[w].cur)
    BY <1>6 DEF InCall, StepIds
  <2>q. QED BY <2>1, <2>2, <2>3 DEF Knows, Started, SkillPhases
<1>11. StepsKept(t) BY DEF StepsKept
<1>12. ~AboutToRun(w)' BY DEF AboutToRun
<1>q. QED BY <1>9, <1>10, <1>11, <1>12, CheckpointStep

\* A response replaced by a hook's feedback keeps the invariant.
LEMMA ModelFeedbackSafe ==
  ASSUME SafeInv, IssuedOK, MemoryShape, Numbers, Numbers',
         TaskTyped, CpTyped, StepTyped, WkTyped, EffectsTyped, IssuedTyped,
         NEW w \in Workers, NEW t \in Tasks, t = wk[w].task, NEW cs \in SUBSET Calls, ModelFeedback(w, cs)
  PROVE  SafeInv'
<1>m. wk[w] \in Memories BY DEF WkTyped
<1>w. wk'[w] = [wk[w] EXCEPT !.pc = IF wk[w].resume = "yes" /\ cs # {} /\ wk[w].iter < MaxIterations THEN "tools" ELSE "model", !.asked = cs, !.todo = cs] BY DEF ModelFeedback, WkTyped
<1>o. Others(w) BY DEF ModelFeedback, WkTyped, Others
<1>e. wk'[w].task = wk[w].task /\ wk'[w].token = wk[w].token /\ wk'[w].cur = wk[w].cur /\ wk'[w].done = wk[w].done
  BY <1>m, <1>w DEF Memories
<1>pc. wk'[w].pc = IF wk[w].resume = "yes" /\ cs # {} /\ wk[w].iter < MaxIterations THEN "tools" ELSE "model" BY <1>m, <1>w DEF Memories
<1>todo. wk'[w].todo = cs BY <1>m, <1>w DEF Memories
<1>f. UNCHANGED <<task, cp, step, effects>> BY DEF ModelFeedback
<1>i. \A u \in Tasks : issued[u] \subseteq issued'[u] BY DEF ModelFeedback, IssuedTyped
<1>p. wk[w].pc \in {"calling"} BY DEF ModelFeedback
<1>c. Continues(w) BY <1>p, <1>e, <1>pc, <1>todo DEF Continues, ActivePcs, AgentPcs, SkillPcs
<1>k. Holds(w) => Knows(w) BY DEF SafeInv, WorkerOK
<1>x. wk'[w].pc \in {"tools", "model"} BY <1>pc
<1>1. StepsOK(t) BY DEF SafeInv
<1>2. \A c \in cs : step[t][c] = "none" BY <1>1 DEF StepsOK, ModelFeedback, FreshCalls
<1>n. Holds(w) => Knows(w)'
  BY <1>k, <1>p, <1>x, <1>e, <1>todo, <1>2, <1>f DEF Knows, AgentPcs, SkillPcs, InCall
<1>a. ~AboutToRun(w)' BY <1>x DEF AboutToRun
<1>q. QED BY <1>o, <1>f, <1>i, <1>c, <1>n, <1>a, MemoryStep

\* A question to the human keeps the invariant: no step is started for it.
LEMMA AskUserSafe ==
  ASSUME SafeInv, IssuedOK, MemoryShape, Numbers, Numbers',
         TaskTyped, CpTyped, StepTyped, WkTyped, EffectsTyped, IssuedTyped,
         NEW w \in Workers, NEW t \in Tasks, t = wk[w].task, NEW c \in Calls, AskUser(w, c)
  PROVE  SafeInv'
<1>m. wk[w] \in Memories BY DEF WkTyped
<1>w. wk'[w] = [wk[w] EXCEPT !.todo = wk[w].todo \ {c}, !.ask = IF wk[w].ask = NoCall THEN c ELSE wk[w].ask] BY DEF AskUser, WkTyped
<1>o. Others(w) BY DEF AskUser, WkTyped, Others
<1>e. /\ wk'[w].pc = wk[w].pc /\ wk'[w].task = wk[w].task /\ wk'[w].token = wk[w].token
      /\ wk'[w].cur = wk[w].cur /\ wk'[w].done = wk[w].done
  BY <1>m, <1>w DEF Memories
<1>todo. wk'[w].todo = wk[w].todo \ {c} BY <1>m, <1>w DEF Memories
<1>f. UNCHANGED <<task, cp, step, effects>> BY DEF AskUser
<1>i. \A u \in Tasks : issued[u] \subseteq issued'[u] BY DEF AskUser
<1>p. wk[w].pc \in {"tools"} BY DEF AskUser, InBatch
<1>c. Continues(w) BY <1>p, <1>e, <1>todo DEF Continues, ActivePcs, AgentPcs, SkillPcs
<1>k. Holds(w) => Knows(w) BY DEF SafeInv, WorkerOK
<1>n. Holds(w) => Knows(w)'
  BY <1>k, <1>p, <1>e, <1>todo, <1>f DEF Knows, AgentPcs, SkillPcs, InCall
<1>a. ~AboutToRun(w)' BY <1>p, <1>e, <1>todo DEF AboutToRun
<1>q. QED BY <1>o, <1>f, <1>i, <1>c, <1>n, <1>a, MemoryStep

\* Reusing the stored result of a completed step keeps the invariant: nothing is executed.
LEMMA ReuseResultSafe ==
  ASSUME SafeInv, IssuedOK, MemoryShape, Numbers, Numbers',
         TaskTyped, CpTyped, StepTyped, WkTyped, EffectsTyped, IssuedTyped,
         NEW w \in Workers, NEW t \in Tasks, t = wk[w].task, ReuseResult(w)
  PROVE  SafeInv'
<1>m. wk[w] \in Memories BY DEF WkTyped
<1>w. wk'[w] = [wk[w] EXCEPT !.pc = "executed"] BY DEF ReuseResult, WkTyped
<1>o. Others(w) BY DEF ReuseResult, WkTyped, Others
<1>e. /\ wk'[w].task = wk[w].task /\ wk'[w].token = wk[w].token /\ wk'[w].cur = wk[w].cur
      /\ wk'[w].done = wk[w].done /\ wk'[w].todo = wk[w].todo
  BY <1>m, <1>w DEF Memories
<1>pc. wk'[w].pc = "executed" BY <1>m, <1>w DEF Memories
<1>f. UNCHANGED <<task, cp, step, effects>> BY DEF ReuseResult
<1>i. \A u \in Tasks : issued[u] \subseteq issued'[u] BY DEF ReuseResult
<1>p. wk[w].pc \in {"executing"} BY DEF ReuseResult
<1>c. Continues(w) BY <1>p, <1>e, <1>pc DEF Continues, ActivePcs, AgentPcs, SkillPcs
<1>k. Holds(w) => Knows(w) BY DEF SafeInv, WorkerOK
<1>n. Holds(w) => Knows(w)'
  BY <1>k, <1>p, <1>e, <1>pc, <1>f DEF Knows, AgentPcs, SkillPcs, InCall
<1>a. ~AboutToRun(w)' BY <1>e, <1>pc DEF AboutToRun
<1>q. QED BY <1>o, <1>f, <1>i, <1>c, <1>n, <1>a, MemoryStep

\* A heartbeat that failed changes a worker's memory only.
LEMMA SetLostSafe ==
  ASSUME SafeInv, IssuedOK, MemoryShape, Numbers, Numbers',
         TaskTyped, CpTyped, StepTyped, WkTyped, EffectsTyped, IssuedTyped,
         NEW w \in Workers, NEW t \in Tasks, t = wk[w].task, SetLost(w)
  PROVE  SafeInv'
<1>m. wk[w] \in Memories BY DEF WkTyped
<1>w. wk'[w] = [wk[w] EXCEPT !.lost = "yes"] BY DEF SetLost, WkTyped
<1>o. Others(w) BY DEF SetLost, WkTyped, Others
<1>e. /\ wk'[w].pc = wk[w].pc /\ wk'[w].task = wk[w].task /\ wk'[w].token = wk[w].token
      /\ wk'[w].cur = wk[w].cur /\ wk'[w].done = wk[w].done /\ wk'[w].todo = wk[w].todo
  BY <1>m, <1>w DEF Memories
<1>f. UNCHANGED <<task, cp, step, effects>> BY DEF SetLost
<1>i. \A u \in Tasks : issued[u] \subseteq issued'[u] BY DEF SetLost
<1>p. wk[w].pc \in AgentPcs \cup SkillPcs \cup {"finishing"} BY DEF SetLost
<1>c. Continues(w) BY <1>p, <1>e DEF Continues, ActivePcs, AgentPcs, SkillPcs
<1>k. Holds(w) => Knows(w) BY DEF SafeInv, WorkerOK
<1>n. Holds(w) => Knows(w)'
  BY <1>k, <1>e, <1>f DEF Knows
<1>a. AboutToRun(w)' => AboutToRun(w) /\ wk'[w].cur = wk[w].cur /\ wk'[w].pc = wk[w].pc BY <1>e DEF AboutToRun
<1>q. QED BY <1>o, <1>f, <1>i, <1>c, <1>n, <1>a, MemoryStep

\* A call refused by a policy or a hook keeps the invariant.
LEMMA ToolRefusedSafe ==
  ASSUME SafeInv, IssuedOK, MemoryShape, Numbers, Numbers',
         TaskTyped, CpTyped, StepTyped, WkTyped, EffectsTyped, IssuedTyped,
         NEW w \in Workers, NEW t \in Tasks, t = wk[w].task, NEW c \in Calls, ToolRefused(w, c)
  PROVE  SafeInv'
<1>1. Checkpoint(w, "tool_done", Messages(w, wk[w].asked, wk[w].done \cup {c})) BY DEF ToolRefused
<1>2. StepUpsert(w, c, "failed") BY DEF ToolRefused
<1>4. c \in Calls /\ c \in issued[t] BY DEF ToolRefused, InBatch, IssuedOK, WorkerIssued
<1>m. wk[w] \in Memories BY DEF WkTyped
<1>w. wk'[w] = [wk[w] EXCEPT !.todo = wk[w].todo \ {c}, !.done = wk[w].done \cup {c}] BY DEF ToolRefused, WkTyped
<1>o. Others(w) BY DEF ToolRefused, WkTyped, Others
<1>e. wk'[w].pc = wk[w].pc /\ wk'[w].task = wk[w].task /\ wk'[w].token = wk[w].token /\ wk'[w].cur = wk[w].cur
  BY <1>m, <1>w DEF Memories
<1>done. wk'[w].done = wk[w].done \cup {c} BY <1>m, <1>w DEF Memories
<1>todo. wk'[w].todo = wk[w].todo \ {c} BY <1>m, <1>w DEF Memories
<1>p. wk[w].pc = "tools" BY DEF ToolRefused, InBatch
<1>c. Continues(w) BY <1>p, <1>e, <1>done, <1>todo DEF Continues, ActivePcs, AgentPcs
<1>x. ("failed") \in {"completed", "failed"} BY OutcomeTyped
<1>5. c \in StepIds BY <1>4 DEF StepIds
<1>6. /\ step'[t][c] = ("failed") /\ \A s \in StepIds : s # c => step'[t][s] = step[t][s]
      /\ \A u \in Tasks : u # t => step'[u] = step[u]
  BY <1>2, <1>5, UpsertRow
<1>7. Saves(w) BY <1>1, <1>6, CheckpointRow DEF ToolRefused, Saves
<1>8. task'[t].phase = "tool_done" /\ cp'[t] = Messages(w, wk[w].asked, wk[w].done \cup {c}) BY <1>1, CheckpointRow
<1>9. Messages(w, wk[w].asked, wk[w].done \cup {c}).done = wk[w].done \cup {c} BY DEF Messages, EmptyCheckpoint
<1>10. cp'[t].done = wk[w].done \cup {c} BY <1>8, <1>9
<1>11. step'[t][c] \in {"completed", "failed"} BY <1>6, <1>x
<1>q. QED BY <1>p, <1>c, <1>o, <1>4, <1>6, <1>7, <1>8, <1>10, <1>11, <1>e, <1>done, <1>todo, ToolResult DEF AgentPcs

\* The save of a result keeps the invariant: the step it completes is the worker's own.
LEMMA ToolDoneSafe ==
  ASSUME SafeInv, IssuedOK, MemoryShape, Numbers, Numbers',
         TaskTyped, CpTyped, StepTyped, WkTyped, EffectsTyped, IssuedTyped,
         NEW w \in Workers, NEW t \in Tasks, t = wk[w].task, NEW r \in Results, ToolDone(w, r)
  PROVE  SafeInv'
<1>1. Checkpoint(w, "tool_done", Messages(w, wk[w].asked, wk[w].done \cup {wk[w].cur})) BY DEF ToolDone
<1>2. StepUpsert(w, wk[w].cur, OutcomeOf(r)) BY DEF ToolDone
<1>4. wk[w].cur \in Calls /\ wk[w].cur \in issued[t] BY DEF ToolDone, IssuedOK, WorkerIssued, InCall
<1>m. wk[w] \in Memories BY DEF WkTyped
<1>w. wk'[w] = [wk[w] EXCEPT !.pc = "observed", !.result = r] BY DEF ToolDone, WkTyped
<1>o. Others(w) BY DEF ToolDone, WkTyped, Others
<1>e. /\ wk'[w].task = wk[w].task /\ wk'[w].token = wk[w].token /\ wk'[w].cur = wk[w].cur
      /\ wk'[w].done = wk[w].done /\ wk'[w].todo = wk[w].todo
  BY <1>m, <1>w DEF Memories
<1>pc. wk'[w].pc = "observed" BY <1>m, <1>w DEF Memories
<1>p. wk[w].pc = "executed" BY DEF ToolDone
<1>c. Continues(w) BY <1>p, <1>e, <1>pc DEF Continues, ActivePcs, AgentPcs
<1>x. (OutcomeOf(r)) \in {"completed", "failed"} BY OutcomeTyped
<1>5. wk[w].cur \in StepIds BY <1>4 DEF StepIds
<1>6. /\ step'[t][wk[w].cur] = (OutcomeOf(r)) /\ \A s \in StepIds : s # wk[w].cur => step'[t][s] = step[t][s]
      /\ \A u \in Tasks : u # t => step'[u] = step[u]
  BY <1>2, <1>5, UpsertRow
<1>7. Saves(w) BY <1>1, <1>6, CheckpointRow DEF ToolDone, Saves
<1>8. task'[t].phase = "tool_done" /\ cp'[t] = Messages(w, wk[w].asked, wk[w].done \cup {wk[w].cur}) BY <1>1,
    CheckpointRow
<1>9. Messages(w, wk[w].asked, wk[w].done \cup {wk[w].cur}).done = wk[w].done \cup {wk[w].cur} BY DEF Messages,
    EmptyCheckpoint
<1>10. cp'[t].done = wk[w].done \cup {wk[w].cur} BY <1>8, <1>9
<1>11. step'[t][wk[w].cur] \in {"completed", "failed"} BY <1>6, <1>x
<1>q. QED BY <1>p, <1>c, <1>o, <1>4, <1>6, <1>7, <1>8, <1>10, <1>11, <1>e, <1>pc, ToolResult DEF AgentPcs

\* A turn that has looked at its result goes on with the next call.
LEMMA ToolObservedSafe ==
  ASSUME SafeInv, IssuedOK, MemoryShape, Numbers, Numbers',
         TaskTyped, CpTyped, StepTyped, WkTyped, EffectsTyped, IssuedTyped,
         NEW w \in Workers, NEW t \in Tasks, t = wk[w].task, NEW r \in Results, ToolObserved(w, r)
  PROVE  SafeInv'
<1>1. Checkpoint(w, "tool_done", Messages(w, wk[w].asked, wk[w].done \cup {wk[w].cur})) BY DEF ToolObserved
<1>2. StepUpsert(w, wk[w].cur, IF wk[w].result = "success" THEN OutcomeOf(r) ELSE "failed") BY DEF ToolObserved
<1>4. wk[w].cur \in Calls /\ wk[w].cur \in issued[t] BY DEF ToolObserved, IssuedOK, WorkerIssued, InCall
<1>m. wk[w] \in Memories BY DEF WkTyped
<1>w. wk'[w] = [wk[w] EXCEPT !.pc = "tools", !.cur = NoCall, !.result = "none", !.todo = wk[w].todo \ {wk[w].cur}, !.done = wk[w].done \cup {wk[w].cur}] BY DEF ToolObserved, WkTyped
<1>o. Others(w) BY DEF ToolObserved, WkTyped, Others
<1>e. wk'[w].task = wk[w].task /\ wk'[w].token = wk[w].token
  BY <1>m, <1>w DEF Memories
<1>pc. wk'[w].pc = "tools" BY <1>m, <1>w DEF Memories
<1>cur. wk'[w].cur = NoCall BY <1>m, <1>w DEF Memories
<1>done. wk'[w].done = wk[w].done \cup {wk[w].cur} BY <1>m, <1>w DEF Memories
<1>todo. wk'[w].todo = wk[w].todo \ {wk[w].cur} BY <1>m, <1>w DEF Memories
<1>p. wk[w].pc = "observed" BY DEF ToolObserved
<1>c. Continues(w) BY <1>p, <1>e, <1>pc, <1>cur, <1>done, <1>todo DEF Continues, ActivePcs, AgentPcs
<1>x. (IF wk[w].result = "success" THEN OutcomeOf(r) ELSE "failed") \in {"completed", "failed"} BY OutcomeTyped
<1>5. wk[w].cur \in StepIds BY <1>4 DEF StepIds
<1>6. /\ step'[t][wk[w].cur] = (IF wk[w].result = "success" THEN OutcomeOf(r) ELSE "failed") /\ \A s \in StepIds : s # wk[w].cur => step'[t][s] = step[t][s]
      /\ \A u \in Tasks : u # t => step'[u] = step[u]
  BY <1>2, <1>5, UpsertRow
<1>7. Saves(w) BY <1>1, <1>6, CheckpointRow DEF ToolObserved, Saves
<1>8. task'[t].phase = "tool_done" /\ cp'[t] = Messages(w, wk[w].asked, wk[w].done \cup {wk[w].cur}) BY <1>1,
    CheckpointRow
<1>9. Messages(w, wk[w].asked, wk[w].done \cup {wk[w].cur}).done = wk[w].done \cup {wk[w].cur} BY DEF Messages,
    EmptyCheckpoint
<1>10. cp'[t].done = wk[w].done \cup {wk[w].cur} BY <1>8, <1>9
<1>11. step'[t][wk[w].cur] \in {"completed", "failed"} BY <1>6, <1>x
<1>q. QED BY <1>p, <1>c, <1>o, <1>4, <1>6, <1>7, <1>8, <1>10, <1>11, <1>e, <1>pc, <1>cur, <1>done, <1>todo,
    ToolResult DEF AgentPcs

\* The start of a tool keeps the invariant: nobody else is about to run the step.
LEMMA ToolStartedSafe ==
  ASSUME SafeInv, IssuedOK, MemoryShape, Numbers, Numbers',
         TaskTyped, CpTyped, StepTyped, WkTyped, EffectsTyped, IssuedTyped,
         NEW w \in Workers, NEW t \in Tasks, t = wk[w].task, NEW c \in Calls, ToolStarted(w, c)
  PROVE  SafeInv'
<1>1. Checkpoint(w, "tool_started", Saved(w)) BY DEF ToolStarted
<1>2. StepUpsert(w, c, "running") BY DEF ToolStarted
<1>3. c \in StepIds BY DEF StepIds
<1>m. wk[w] \in Memories BY DEF WkTyped
<1>w. wk'[w] = [wk[w] EXCEPT !.pc = "executing", !.cur = c] BY DEF ToolStarted, WkTyped
<1>o. Others(w) BY DEF ToolStarted, WkTyped, Others
<1>e. wk'[w].task = wk[w].task /\ wk'[w].token = wk[w].token /\ wk'[w].done = wk[w].done /\ wk'[w].todo = wk[w].todo
  BY <1>m, <1>w DEF Memories
<1>pc. wk'[w].pc = "executing" BY <1>m, <1>w DEF Memories
<1>cur. wk'[w].cur = c BY <1>m, <1>w DEF Memories
<1>p. wk[w].pc = "tools" BY DEF ToolStarted, InBatch
<1>c. Continues(w) BY <1>p, <1>e, <1>pc, <1>cur DEF Continues, ActivePcs, AgentPcs, SkillPcs
<1>4. Holds(w) BY <1>1 DEF Checkpoint
<1>5. StepsOK(t) /\ Knows(w) BY <1>4 DEF SafeInv, WorkerOK
<1>6. /\ step'[t][c] = "running" /\ \A r \in StepIds : r # c => step'[t][r] = step[t][r]
      /\ \A u \in Tasks : u # t => step'[u] = step[u]
  BY <1>2, <1>3, UpsertRow
<1>7. Saves(w) BY <1>1, <1>6, CheckpointRow DEF ToolStarted, Saves
<1>8. task'[t].phase = "tool_started" /\ cp'[t].done = wk[w].done BY <1>1, CheckpointRow, SavedDone
<1>9. task[t].phase \notin Started \cup SkillPhases BY <1>5, <1>p DEF Knows, AgentPcs
<1>10. \A r \in StepIds : step[t][r] # "running" BY <1>5, <1>9 DEF StepsOK, Started, StepIds
<1>11. step[t][SkillStep] = "none" BY <1>5, <1>9 DEF StepsOK
<1>12. \A d \in Calls : step[t][d] # "none" => d \in wk[w].done BY <1>5, <1>p DEF Knows, AgentPcs, SkillPcs, InCall
<1>i. c \in issued[t] BY DEF ToolStarted, InBatch, IssuedOK, WorkerIssued
<1>n. step[t][c] = "none" BY <1>5, <1>p DEF Knows, AgentPcs, InCall, ToolStarted, InBatch
<1>q2. Knows(w)'
  <2>1. \A d \in Calls : d \in wk[w].todo => step[t][d] = "none" BY <1>5, <1>p DEF Knows, AgentPcs, InCall
  <2>2. \A d \in Calls : d \in wk'[w].todo => step'[t][d] = "none" \/ d = c BY <1>6, <1>e, <2>1 DEF StepIds
  <2>3. \A d \in Calls : step'[t][d] # "none" => d \in wk'[w].done \/ d = c BY <1>6, <1>e, <1>12 DEF StepIds
  <2>q. QED BY <1>6, <1>8, <1>e, <1>pc, <1>cur, <2>2, <2>3 DEF Knows, AgentPcs, SkillPcs, InCall, SkillPhases
<1>q1. StepsOK(t)'
  <2>1. \A d \in Calls : step'[t][d] \notin {"none", "running"} => d \in cp'[t].done
    BY <1>6, <1>8, <1>12 DEF StepIds
  <2>2. \A r \in StepIds : (step'[t][r] = "none" => effects'[t][r] = 0) /\ effects'[t][r] <= 1
    BY <1>5, <1>6 DEF StepsOK, ToolStarted
  <2>3. \A d \in Calls : step'[t][d] # "none" => d \in issued'[t] BY <1>5, <1>6, <1>i DEF StepsOK, StepIds,
      ToolStarted
  <2>4. \A r \in StepIds : step'[t][r] = "running" <=> r = c BY <1>6, <1>10
  <2>5. step'[t][SkillStep] # "none" => task'[t].phase \in SkillPhases
    BY <1>6, <1>8, <1>11, ConstantsAssumption DEF StepIds, SkillPhases
  <2>q. QED BY <1>3, <1>8, <2>1, <2>2, <2>3, <2>4, <2>5, ConstantsAssumption DEF StepsOK, StepIds
<1>q3. StepsKept(t) BY <1>6 DEF StepsKept
<1>q4. AboutToRun(w)' => /\ wk'[w].cur \in StepIds /\ (wk'[w].pc = "skill_run" => wk'[w].cur = SkillStep)
                        /\ step[t][wk'[w].cur] = "none" /\ step'[t][wk'[w].cur] # "none"
  BY <1>3, <1>6, <1>n, <1>e, <1>pc, <1>cur
<1>q. QED BY <1>q1, <1>q2, <1>q3, <1>q4, <1>7, <1>c, <1>o, CheckpointStep

\* The start of a skill keeps the invariant: nobody else is about to run it.
LEMMA SkillStartedSafe ==
  ASSUME SafeInv, IssuedOK, MemoryShape, Numbers, Numbers',
         TaskTyped, CpTyped, StepTyped, WkTyped, EffectsTyped, IssuedTyped,
         NEW w \in Workers, NEW t \in Tasks, t = wk[w].task, SkillStarted(w)
  PROVE  SafeInv'
<1>1. Checkpoint(w, "skill_started", Saved(w)) BY DEF SkillStarted
<1>2. StepUpsert(w, SkillStep, "running") BY DEF SkillStarted
<1>3. SkillStep \in StepIds BY DEF StepIds
<1>m. wk[w] \in Memories BY DEF WkTyped
<1>w. wk'[w] = [wk[w] EXCEPT !.pc = "skill_run", !.cur = SkillStep] BY DEF SkillStarted, WkTyped
<1>o. Others(w) BY DEF SkillStarted, WkTyped, Others
<1>e. wk'[w].task = wk[w].task /\ wk'[w].token = wk[w].token /\ wk'[w].done = wk[w].done /\ wk'[w].todo = wk[w].todo
  BY <1>m, <1>w DEF Memories
<1>pc. wk'[w].pc = "skill_run" BY <1>m, <1>w DEF Memories
<1>cur. wk'[w].cur = SkillStep BY <1>m, <1>w DEF Memories
<1>p. wk[w].pc = "skill_start" BY DEF SkillStarted
<1>c. Continues(w) BY <1>p, <1>e, <1>pc, <1>cur DEF Continues, ActivePcs, AgentPcs, SkillPcs
<1>4. Holds(w) BY <1>1 DEF Checkpoint
<1>5. StepsOK(t) /\ Knows(w) BY <1>4 DEF SafeInv, WorkerOK
<1>6. /\ step'[t][SkillStep] = "running" /\ \A r \in StepIds : r # SkillStep => step'[t][r] = step[t][r]
      /\ \A u \in Tasks : u # t => step'[u] = step[u]
  BY <1>2, <1>3, UpsertRow
<1>7. Saves(w) BY <1>1, <1>6, CheckpointRow DEF SkillStarted, Saves
<1>8. task'[t].phase = "skill_started" /\ cp'[t].done = wk[w].done BY <1>1, CheckpointRow, SavedDone
<1>9. task[t].phase \notin Started \cup SkillPhases BY <1>5, <1>p DEF Knows, AgentPcs
<1>10. \A r \in StepIds : step[t][r] # "running" BY <1>5, <1>9 DEF StepsOK, Started, StepIds
<1>11. step[t][SkillStep] = "none" BY <1>5, <1>9 DEF StepsOK
<1>12. \A d \in Calls : step[t][d] # "none" => d \in wk[w].done BY <1>5, <1>p DEF Knows, AgentPcs, SkillPcs, InCall
<1>i. SkillStep \notin Calls BY ConstantsAssumption
<1>n. step[t][SkillStep] = "none" BY <1>11
<1>q2. Knows(w)'
  <2>3. \A d \in Calls : step'[t][d] # "none" => d \in wk'[w].done BY <1>6, <1>e, <1>12, <1>i DEF StepIds
  <2>q. QED BY <1>6, <1>8, <1>e, <1>pc, <1>cur, <2>3 DEF Knows, AgentPcs, SkillPcs, InCall, SkillPhases
<1>q1. StepsOK(t)'
  <2>1. \A d \in Calls : step'[t][d] \notin {"none", "running"} => d \in cp'[t].done
    BY <1>6, <1>8, <1>12 DEF StepIds
  <2>2. \A r \in StepIds : (step'[t][r] = "none" => effects'[t][r] = 0) /\ effects'[t][r] <= 1
    BY <1>5, <1>6 DEF StepsOK, SkillStarted
  <2>3. \A d \in Calls : step'[t][d] # "none" => d \in issued'[t] BY <1>5, <1>6, <1>i DEF StepsOK, StepIds,
      SkillStarted
  <2>4. \A r \in StepIds : step'[t][r] = "running" <=> r = SkillStep BY <1>6, <1>10
  <2>5. step'[t][SkillStep] # "none" => task'[t].phase \in SkillPhases
    BY <1>6, <1>8, <1>11, ConstantsAssumption DEF StepIds, SkillPhases
  <2>q. QED BY <1>3, <1>8, <2>1, <2>2, <2>3, <2>4, <2>5, ConstantsAssumption DEF StepsOK, StepIds
<1>q3. StepsKept(t) BY <1>6 DEF StepsKept
<1>q4. AboutToRun(w)' => /\ wk'[w].cur \in StepIds /\ (wk'[w].pc = "skill_run" => wk'[w].cur = SkillStep)
                        /\ step[t][wk'[w].cur] = "none" /\ step'[t][wk'[w].cur] # "none"
  BY <1>3, <1>6, <1>n, <1>e, <1>pc, <1>cur
<1>q. QED BY <1>q1, <1>q2, <1>q3, <1>q4, <1>7, <1>c, <1>o, CheckpointStep

\* The execution of a tool keeps the invariant: its step has been started and not executed.
LEMMA ExecuteToolSafe ==
  ASSUME SafeInv, IssuedOK, MemoryShape, Numbers, Numbers',
         TaskTyped, CpTyped, StepTyped, WkTyped, EffectsTyped, IssuedTyped,
         NEW w \in Workers, NEW t \in Tasks, t = wk[w].task, ExecuteTool(w)
  PROVE  SafeInv'
<1>m. wk[w] \in Memories BY DEF WkTyped
<1>w. wk'[w] = [wk[w] EXCEPT !.pc = "executed"] BY DEF ExecuteTool, WkTyped
<1>o. Others(w) BY DEF ExecuteTool, WkTyped, Others
<1>e. /\ wk'[w].task = wk[w].task /\ wk'[w].token = wk[w].token /\ wk'[w].cur = wk[w].cur
      /\ wk'[w].done = wk[w].done /\ wk'[w].todo = wk[w].todo
  BY <1>m, <1>w DEF Memories
<1>pc. wk'[w].pc = "executed" BY <1>m, <1>w DEF Memories
<1>p. wk[w].pc = "executing" BY DEF ExecuteTool
<1>c. Continues(w) BY <1>p, <1>e, <1>pc DEF Continues, ActivePcs, AgentPcs, SkillPcs
<1>f. UNCHANGED <<task, cp, step, issued>> BY DEF ExecuteTool
<1>a. AboutToRun(w) /\ ~AboutToRun(w)' BY <1>p, <1>e, <1>pc DEF AboutToRun
<1>k. Holds(w) => Knows(w) BY DEF SafeInv, WorkerOK
<1>n. Holds(w) => Knows(w)' BY <1>k, <1>p, <1>e, <1>pc, <1>f DEF Knows, AgentPcs, SkillPcs, InCall
<1>x. effects' = [effects EXCEPT ![t][wk[w].cur] = @ + 1] BY DEF ExecuteTool
<1>q. QED BY <1>o, <1>f, <1>c, <1>n, <1>a, <1>x, EffectStep

\* The execution of a skill keeps the invariant.
LEMMA RunSkillSafe ==
  ASSUME SafeInv, IssuedOK, MemoryShape, Numbers, Numbers',
         TaskTyped, CpTyped, StepTyped, WkTyped, EffectsTyped, IssuedTyped,
         NEW w \in Workers, NEW t \in Tasks, t = wk[w].task, NEW r \in Results, RunSkill(w, r)
  PROVE  SafeInv'
<1>m. wk[w] \in Memories BY DEF WkTyped
<1>w. wk'[w] = [wk[w] EXCEPT !.pc = "skill_ran", !.result = r] BY DEF RunSkill, WkTyped
<1>o. Others(w) BY DEF RunSkill, WkTyped, Others
<1>e. /\ wk'[w].task = wk[w].task /\ wk'[w].token = wk[w].token /\ wk'[w].cur = wk[w].cur
      /\ wk'[w].done = wk[w].done /\ wk'[w].todo = wk[w].todo
  BY <1>m, <1>w DEF Memories
<1>pc. wk'[w].pc = "skill_ran" BY <1>m, <1>w DEF Memories
<1>p. wk[w].pc = "skill_run" BY DEF RunSkill
<1>c. Continues(w) BY <1>p, <1>e, <1>pc DEF Continues, ActivePcs, AgentPcs, SkillPcs
<1>f. UNCHANGED <<task, cp, step, issued>> BY DEF RunSkill
<1>a. AboutToRun(w) /\ ~AboutToRun(w)' BY <1>p, <1>e, <1>pc DEF AboutToRun
<1>k. Holds(w) => Knows(w) BY DEF SafeInv, WorkerOK
<1>s. wk[w].cur = SkillStep BY <1>p, <1>a DEF SafeInv, WorkerOK
<1>x. effects' = [effects EXCEPT ![t][wk[w].cur] = @ + 1] BY <1>s DEF RunSkill
<1>r. effects'[t][SkillStep] > 0
  <2>1. effects' = [effects EXCEPT ![t] = [effects[t] EXCEPT ![SkillStep] = effects[t][SkillStep] + 1]] BY <1>s, <1>x
  <2>2. effects[t] \in [StepIds -> Nat] /\ SkillStep \in StepIds BY DEF EffectsTyped, StepIds
  <2>3. effects'[t] = [effects[t] EXCEPT ![SkillStep] = effects[t][SkillStep] + 1] BY <2>1 DEF EffectsTyped
  <2>4. effects'[t][SkillStep] = effects[t][SkillStep] + 1 BY <2>2, <2>3
  <2>q. QED BY <2>2, <2>4
<1>n. Holds(w) => Knows(w)' BY <1>k, <1>p, <1>e, <1>pc, <1>f, <1>r DEF Knows, AgentPcs, SkillPcs, InCall
<1>q. QED BY <1>o, <1>f, <1>c, <1>n, <1>a, <1>x, EffectStep

\* The skill's result is saved: its step is closed.
LEMMA SkillResult ==
  ASSUME SafeInv, Numbers, Numbers', NEW w \in Workers, NEW t \in Tasks, t = wk[w].task,
         Saves(w), Others(w), Continues(w), wk[w].pc \in {"skill_ran", "skill_verify"},
         cp'[t].done = wk[w].done, step'[t][SkillStep] \in {"completed", "failed"},
         \A s \in StepIds : s # SkillStep => step'[t][s] = step[t][s],
         \/ task'[t].phase = "skill_executed" /\ wk'[w].pc = "skill_verify" /\ wk'[w].done = wk[w].done
         \/ task'[t].phase = "skill_done" /\ wk'[w].pc = "finishing"
  PROVE  SafeInv'
<1>1. StepsOK(t) /\ Knows(w) BY DEF SafeInv, WorkerOK, Saves
<1>2. effects' = effects /\ issued[t] \subseteq issued'[t] BY DEF Saves
<1>3. task[t].phase \in {"skill_started", "skill_executed"} BY <1>1 DEF Knows
<1>4. \A d \in Calls : step'[t][d] = step[t][d] BY ConstantsAssumption DEF StepIds
<1>5. \A d \in Calls : step[t][d] # "running" BY <1>1, <1>3 DEF StepsOK
<1>6. \A d \in Calls : step[t][d] # "none" => d \in wk[w].done BY <1>1 DEF Knows, SkillPcs, InCall
<1>7. StepsOK(t)'
  <2>1. \A s \in StepIds : step'[t][s] # "running" BY <1>4, <1>5 DEF StepIds
  <2>2. \A d \in Calls : step'[t][d] # "none" => d \in cp'[t].done /\ d \in issued'[t]
    BY <1>1, <1>2, <1>4, <1>6 DEF StepsOK
  <2>3. \A s \in StepIds : (step'[t][s] = "none" => effects'[t][s] = 0) /\ effects'[t][s] <= 1
    BY <1>1, <1>2 DEF StepsOK
  <2>q. QED BY <2>1, <2>2, <2>3 DEF StepsOK, SkillPhases, StepIds
<1>8. Knows(w)'
  <2>1. wk'[w].task = t BY DEF Continues
  <2>q. QED BY <1>4, <1>6, <2>1 DEF Knows, AgentPcs, SkillPcs, Started
<1>9. StepsKept(t) BY DEF StepsKept
<1>10. ~AboutToRun(w)' BY DEF AboutToRun
<1>q. QED BY <1>7, <1>8, <1>9, <1>10, CheckpointStep

\* A skill that has returned keeps the invariant until its result is saved.
LEMMA SkillExecutedSafe ==
  ASSUME SafeInv, IssuedOK, MemoryShape, Numbers, Numbers',
         TaskTyped, CpTyped, StepTyped, WkTyped, EffectsTyped, IssuedTyped,
         NEW w \in Workers, NEW t \in Tasks, t = wk[w].task, SkillExecuted(w)
  PROVE  SafeInv'
<1>1. Checkpoint(w, "skill_executed", [Saved(w) EXCEPT !.skill = wk[w].result]) BY DEF SkillExecuted
<1>2. StepUpsert(w, SkillStep, OutcomeOf(wk[w].result)) BY DEF SkillExecuted
<1>m. wk[w] \in Memories BY DEF WkTyped
<1>w. wk'[w] = [wk[w] EXCEPT !.pc = "skill_verify"] BY DEF SkillExecuted, WkTyped
<1>o. Others(w) BY DEF SkillExecuted, WkTyped, Others
<1>e. /\ wk'[w].task = wk[w].task /\ wk'[w].token = wk[w].token /\ wk'[w].cur = wk[w].cur
      /\ wk'[w].done = wk[w].done /\ wk'[w].todo = wk[w].todo
  BY <1>m, <1>w DEF Memories
<1>pc. wk'[w].pc = "skill_verify" BY <1>m, <1>w DEF Memories
<1>p. wk[w].pc = "skill_ran" BY DEF SkillExecuted
<1>c. Continues(w) BY <1>p, <1>e, <1>pc DEF Continues, ActivePcs, SkillPcs
<1>3. SkillStep \in StepIds BY DEF StepIds
<1>4. /\ step'[t][SkillStep] = OutcomeOf(wk[w].result) /\ \A s \in StepIds : s # SkillStep => step'[t][s] = step[t][s]
      /\ \A u \in Tasks : u # t => step'[u] = step[u]
  BY <1>2, <1>3, UpsertRow
<1>5. Saves(w) BY <1>1, <1>4, CheckpointRow DEF SkillExecuted, Saves
<1>6. task'[t].phase = "skill_executed" /\ cp'[t] = [Saved(w) EXCEPT !.skill = wk[w].result] BY <1>1, CheckpointRow
<1>7. [Saved(w) EXCEPT !.skill = wk[w].result].done = wk[w].done BY DEF Saved, Messages, EmptyCheckpoint
<1>8. cp'[t].done = wk[w].done BY <1>6, <1>7
<1>9. step'[t][SkillStep] \in {"completed", "failed"} BY <1>4, OutcomeTyped
<1>q. QED BY <1>p, <1>c, <1>o, <1>4, <1>5, <1>6, <1>8, <1>9, <1>e, <1>pc, SkillResult

\* The save of a skill's result keeps the invariant.
LEMMA SkillDoneSafe ==
  ASSUME SafeInv, IssuedOK, MemoryShape, Numbers, Numbers',
         TaskTyped, CpTyped, StepTyped, WkTyped, EffectsTyped, IssuedTyped,
         NEW w \in Workers, NEW t \in Tasks, t = wk[w].task, NEW v \in Verdicts, SkillDone(w, v)
  PROVE  SafeInv'
<1> DEFINE r == IF v = "fail" THEN "failure" ELSE wk[w].result
<1>1. Checkpoint(w, "skill_done", [Saved(w) EXCEPT !.skill = r, !.eval = v]) BY DEF SkillDone
<1>2. StepUpsert(w, SkillStep, OutcomeOf(r)) BY DEF SkillDone
<1>w. wk'[w] = Leaving(w, "finishing", OutcomeOf(r)) BY DEF SkillDone, WkTyped
<1>o. Others(w) BY DEF SkillDone, WkTyped, Others
<1>p. wk[w].pc = "skill_verify" BY DEF SkillDone
<1>f. UNCHANGED <<effects, issued>> BY DEF SkillDone
<1> HIDE DEF r
<1>e. wk'[w].pc = "finishing" /\ wk'[w].task = wk[w].task /\ wk'[w].token = wk[w].token
  BY <1>w, LeavingFields
<1>c. Continues(w) BY <1>p, <1>e DEF Continues, ActivePcs, SkillPcs
<1>3. SkillStep \in StepIds BY DEF StepIds
<1>4. /\ step'[t][SkillStep] = OutcomeOf(r) /\ \A s \in StepIds : s # SkillStep => step'[t][s] = step[t][s]
      /\ \A u \in Tasks : u # t => step'[u] = step[u]
  BY <1>2, <1>3, UpsertRow
<1>5. Saves(w) BY <1>1, <1>4, <1>f, CheckpointRow DEF Saves
<1>6. task'[t].phase = "skill_done" /\ cp'[t] = [Saved(w) EXCEPT !.skill = r, !.eval = v] BY <1>1, CheckpointRow
<1>7. [Saved(w) EXCEPT !.skill = r, !.eval = v].done = wk[w].done BY DEF Saved, Messages, EmptyCheckpoint
<1>8. cp'[t].done = wk[w].done BY <1>6, <1>7
<1>9. step'[t][SkillStep] \in {"completed", "failed"} BY <1>4, OutcomeTyped
<1>q. QED BY <1>p, <1>c, <1>o, <1>4, <1>5, <1>6, <1>8, <1>9, <1>e, SkillResult

\* A task that is suspended for a question keeps the invariant.
LEMMA SuspendSafe ==
  ASSUME SafeInv, IssuedOK, MemoryShape, Numbers, Numbers',
         TaskTyped, CpTyped, StepTyped, WkTyped, EffectsTyped, IssuedTyped,
         NEW w \in Workers, NEW t \in Tasks, t = wk[w].task, Suspend(w)
  PROVE  SafeInv'
<1>1. Checkpoint(w, "waiting_user", [cp[t] EXCEPT !.asked = wk[w].asked, !.done = wk[w].done, !.wait = wk[w].ask]) BY DEF Suspend
<1>w. wk'[w] = Leaving(w, "suspending", "none") BY DEF Suspend, WkTyped
<1>o. Others(w) BY DEF Suspend, WkTyped, Others
<1>p. wk[w].pc = "tools" BY DEF Suspend
<1>e. wk'[w].pc = "suspending" /\ wk'[w].task = wk[w].task /\ wk'[w].token = wk[w].token
  BY <1>w, LeavingFields
<1>c. Continues(w) BY <1>p, <1>e DEF Continues, ActivePcs, AgentPcs
<1>2. step' = step BY DEF Suspend
<1>3. Saves(w) BY <1>1, <1>2, CheckpointRow DEF Suspend, Saves
<1>4. task'[t].phase = "waiting_user" /\ cp'[t] = [cp[t] EXCEPT !.asked = wk[w].asked, !.done = wk[w].done, !.wait = wk[w].ask] BY <1>1, CheckpointRow
<1>5. cp[t] \in Checkpoints BY DEF CpTyped
<1>6. [cp[t] EXCEPT !.asked = wk[w].asked, !.done = wk[w].done, !.wait = wk[w].ask].done = wk[w].done BY <1>5 DEF Checkpoints
<1>7. cp'[t].done = wk[w].done BY <1>4, <1>6
<1>q. QED BY <1>p, <1>c, <1>o, <1>2, <1>3, <1>4, <1>7, <1>e, PlainSave DEF AgentPcs, InCall, Started, SkillPhases

\* Where a claimed invocation starts, and what its row then says.
LEMMA EntryOf ==
  ASSUME NEW t \in Tasks, NEW mode \in Modes
  PROVE  \/ EntryPc(t, mode) = "finishing"
         \/ EntryPc(t, mode) = "skill_verify" /\ task[t].phase = "skill_executed"
         \/ /\ EntryPc(t, mode) \in {"skill_start", "model", "final", "tools"}
            /\ task[t].phase \notin {"skill_done", "skill_executed"}
<1>1. ResumePc(t) \in {"model", "final", "tools"} BY DEF ResumePc
<1>q. QED BY <1>1 DEF EntryPc, Modes

\* The claim: the new token is above every token given out before, so the old
\* owner's writes are fenced off, and the new owner starts from the checkpoint.
LEMMA ClaimSafe ==
  ASSUME SafeInv, IssuedOK, MemoryShape, Numbers, Numbers',
         TaskTyped, CpTyped, StepTyped, WkTyped, EffectsTyped, IssuedTyped,
         NEW w \in Workers, NEW t \in Tasks, NEW mode \in Modes, Claim(w, t, mode)
  PROVE  SafeInv'
<1> DEFINE n == task[t].attempts + 1
           rec == IF task[t].state = "running" \/ task[t].reply # "null"
                    THEN task[t].recoveries + 1 ELSE task[t].recoveries
<1>1. task' = [task EXCEPT ![t] = [task[t] EXCEPT !.state = "running", !.owner = n, !.lease = "live",
                                                  !.attempts = n, !.recoveries = rec]]
  BY DEF Claim, NewToken
<1>2. task[t] \in Rows /\ task[t].attempts \in Nat BY DEF TaskTyped, Rows
<1>3. task'[t] = [task[t] EXCEPT !.state = "running", !.owner = n, !.lease = "live",
                                 !.attempts = n, !.recoveries = rec]
  BY <1>1 DEF TaskTyped
<1>4. /\ task'[t].owner = n /\ task'[t].attempts = n
      /\ task'[t].state = "running" /\ task'[t].lease = "live"
      /\ task'[t].phase = task[t].phase
  <2> HIDE DEF n, rec
  <2>q. QED BY <1>2, <1>3 DEF Rows
<1>5. \A u \in Tasks : u # t => task'[u] = task[u] BY <1>1 DEF TaskTyped
<1>6. UNCHANGED <<cp, step, effects, issued>> BY DEF Claim
<1>7. wk'[w] = Loaded(t, mode) /\ Others(w) BY DEF Claim, WkTyped, Others
<1>8. /\ wk'[w].pc = EntryPc(t, mode) /\ wk'[w].task = t /\ wk'[w].token = n
      /\ wk'[w].done = cp[t].done /\ wk'[w].todo = cp[t].asked \ cp[t].done
  BY <1>7 DEF Loaded, NewToken
<1>9. task[t].phase \notin Started BY DEF Claim, Claimable
<1> HIDE DEF n, rec
<1>10. n \in Nat /\ 1 <= n /\ task[t].attempts < n /\ task[t].attempts <= n BY <1>2 DEF n
<1>11. ASSUME NEW v \in Workers, v # w, wk[v].task = t PROVE wk'[v].token # n
  <2>1. wk'[v] = wk[v] /\ WorkerOK(v) BY <1>7, <1>11 DEF Others, SafeInv
  <2>2. wk[v].token = 0 \/ wk[v].token <= task[t].attempts BY <1>11, <2>1 DEF WorkerOK
  <2>3. wk[v].token \in Nat BY DEF Numbers
  <2>q. QED BY <1>2, <1>10, <2>1, <2>2, <2>3
<1>12. wk'[w].pc \in ActivePcs /\ ~AboutToRun(w)'
  BY <1>8, EntryOf DEF ActivePcs, AgentPcs, SkillPcs, AboutToRun
<1>13. ASSUME NEW v \in Workers PROVE WorkerOK(v)'
  <2>1. WorkerOK(v) BY DEF SafeInv
  <2>2. CASE v # w
    <3>1. wk'[v] = wk[v] BY <1>7, <2>2 DEF Others
    <3>2. ASSUME wk[v].task \in Tasks, Holds(v)'
          PROVE  /\ Holds(v) /\ task'[wk[v].task].phase = task[wk[v].task].phase
      <4>1. wk[v].task # t BY <1>4, <1>11, <2>2, <3>1, <3>2 DEF Holds
      <4>2. task'[wk[v].task] = task[wk[v].task] BY <1>5, <3>2, <4>1
      <4>q. QED BY <3>1, <3>2, <4>2 DEF Holds
    <3>3. ASSUME wk[v].task \in Tasks
          PROVE  task[wk[v].task].attempts <= task'[wk[v].task].attempts
      <4>1. CASE wk[v].task = t BY <1>4, <1>10, <4>1
      <4>2. CASE wk[v].task # t BY <1>5, <3>3, <4>2 DEF Numbers
      <4>q. QED BY <4>1, <4>2
    <3>q. QED BY <1>6, <2>1, <3>1, <3>2, <3>3, Bystander DEF StepsKept, EffectsKept
  <2>3. CASE v = w
    <3>1. StepsOK(t) BY DEF SafeInv
    <3>2. \A c \in Calls : step[t][c] # "none" => c \in cp[t].done
      BY <1>9, <3>1 DEF StepsOK, Started
    <3>3. Knows(w)'
      <4>1. \A c \in Calls : step'[t][c] # "none" => c \in wk'[w].done BY <1>6, <1>8, <3>2
      <4>2. \A c \in Calls : c \in wk'[w].todo => step'[t][c] = "none" BY <1>6, <1>8, <3>2
      <4>3. task'[t].phase \notin Started BY <1>4, <1>9
      <4>4. \/ wk'[w].pc = "finishing"
            \/ wk'[w].pc = "skill_verify" /\ task'[t].phase = "skill_executed"
            \/ /\ wk'[w].pc \in {"skill_start", "model", "final", "tools"}
               /\ task'[t].phase \notin {"skill_done", "skill_executed"}
        BY <1>4, <1>8, EntryOf
      <4>q. QED BY <1>8, <4>1, <4>2, <4>3, <4>4 DEF Knows, AgentPcs, SkillPcs, SkillPhases, Started
    <3>q. QED BY <1>4, <1>8, <1>10, <1>12, <2>3, <3>3 DEF WorkerOK
  <2>q. QED BY <2>2, <2>3
<1>14. ASSUME NEW u \in Workers, NEW v \in Workers PROVE PairOK(u, v)'
  <2>1. PairOK(u, v) BY DEF SafeInv
  <2>2. CASE u # w /\ v # w BY <1>7, <2>1, <2>2 DEF PairOK, Others, AboutToRun
  <2>3. CASE u = w /\ v # w
    BY <1>7, <1>8, <1>11, <1>12, <2>3 DEF PairOK, Others
  <2>4. CASE u # w /\ v = w
    BY <1>7, <1>8, <1>11, <1>12, <2>4 DEF PairOK, Others
  <2>5. CASE u = w /\ v = w BY <2>5 DEF PairOK
  <2>q. QED BY <2>2, <2>3, <2>4, <2>5
<1>15. ASSUME NEW u \in Tasks PROVE StepsOK(u)' /\ LeaseOK(u)'
  <2>1. StepsOK(u) /\ LeaseOK(u) BY DEF SafeInv
  <2>2. task'[u].phase = task[u].phase BY <1>4, <1>5
  <2>3. StepsOK(u)' BY <1>6, <2>1, <2>2 DEF StepsOK
  <2>4. LeaseOK(u)'
    <3>1. CASE u = t BY <1>4, <1>10, <3>1 DEF LeaseOK
    <3>2. CASE u # t BY <1>5, <2>1, <3>2 DEF LeaseOK
    <3>q. QED BY <3>1, <3>2
  <2>q. QED BY <2>3, <2>4
<1>q. QED BY <1>13, <1>14, <1>15 DEF SafeInv

\* An answer that is stored keeps the invariant: the row has no holder.
LEMMA AnswerSafe ==
  ASSUME SafeInv, IssuedOK, MemoryShape, Numbers, Numbers',
         TaskTyped, CpTyped, StepTyped, WkTyped, EffectsTyped, IssuedTyped,
         NEW w \in Workers, NEW t \in Tasks, t = wk[w].task, Answer(w)
  PROVE  SafeInv'
<1>1. task' = [task EXCEPT ![t] = [task[t] EXCEPT !.state = "pending", !.phase = "tool_done", !.reply = "null"]]
  BY DEF Answer
<1>2. task[t] \in Rows BY DEF TaskTyped
<1>3. task'[t] = [task[t] EXCEPT !.state = "pending", !.phase = "tool_done", !.reply = "null"]
  BY <1>1 DEF TaskTyped
<1>4. /\ task'[t].state = "pending" /\ task'[t].phase = "tool_done" /\ task'[t].lease = task[t].lease
      /\ task'[t].owner = task[t].owner /\ task'[t].attempts = task[t].attempts
  BY <1>2, <1>3 DEF Rows
<1>5. \A u \in Tasks : u # t => task'[u] = task[u] /\ cp'[u] = cp[u] BY <1>1 DEF Answer, TaskTyped, CpTyped
<1>6. cp'[t] = [cp[t] EXCEPT !.done = @ \cup {cp[t].wait}, !.wait = NoCall] BY DEF Answer, CpTyped
<1>7. cp[t] \in Checkpoints BY DEF CpTyped
<1>8. cp[t].done \subseteq cp'[t].done
  <2>1. cp'[t].done = cp[t].done \cup {cp[t].wait} BY <1>6, <1>7 DEF Checkpoints
  <2>q. QED BY <2>1
<1>9. UNCHANGED <<step, effects, issued>> BY DEF Answer
<1>10. \A v \in Workers : wk'[v] = wk[v] \/ Drops(v)
  <2>1. wk'[w] = [wk[w] EXCEPT !.pc = "claiming", !.cur = NoCall] /\ \A v \in Workers : v # w => wk'[v] = wk[v]
    BY DEF Answer, WkTyped
  <2>2. wk[w] \in Memories BY DEF WkTyped
  <2>3. wk'[w].pc = "claiming" /\ wk'[w].token = wk[w].token /\ wk'[w].task = t BY <2>1, <2>2 DEF Memories
  <2>4. wk[w].token = 0 BY DEF Answer, SafeInv, WorkerOK, ActivePcs, AgentPcs, SkillPcs
  <2>5. Drops(w) BY <2>3, <2>4 DEF Drops, ActivePcs, AgentPcs, SkillPcs
  <2>q. QED BY <2>1, <2>5
<1>11. ASSUME NEW u \in Tasks PROVE Frees(u) /\ StepsKept(u) /\ StepsOK(u)' /\ LeaseOK(u)'
  <2>1. StepsOK(u) /\ LeaseOK(u) BY DEF SafeInv
  <2>2. StepsKept(u) BY <1>9 DEF StepsKept
  <2>3. CASE u # t BY <1>5, <1>9, <2>1, <2>2, <2>3 DEF Frees, StepsOK, LeaseOK
  <2>4. CASE u = t
    <3>1. Frees(u) BY <1>4, <2>4 DEF Frees
    <3>2. task[t].state = "suspended" BY DEF Answer
    <3>3. task[t].lease # "live" /\ task[t].phase = "waiting_user" BY <2>1, <2>4, <3>2 DEF LeaseOK
    <3>4. LeaseOK(u)' BY <1>4, <2>1, <2>4, <3>3 DEF LeaseOK
    <3>5. StepsOK(u)' BY <1>4, <1>8, <1>9, <2>1, <2>4, <3>3 DEF StepsOK, SkillPhases
    <3>q. QED BY <2>2, <3>1, <3>4, <3>5
  <2>q. QED BY <2>3, <2>4
<1>q. QED BY <1>9, <1>10, <1>11, TableStep

\* A human's resolution keeps the invariant: the step it closes is the running one.
LEMMA ResolveSafe ==
  ASSUME SafeInv, IssuedOK, MemoryShape, Numbers, Numbers',
         TaskTyped, CpTyped, StepTyped, WkTyped, EffectsTyped, IssuedTyped,
         NEW t \in Tasks, NEW c \in Calls, Resolve(t, c)
  PROVE  SafeInv'
<1>1. task' = [task EXCEPT ![t] = [task[t] EXCEPT !.state = "pending", !.phase = "tool_done", !.owner = 0, !.lease = "null"]]
  BY DEF Resolve
<1>2. task[t] \in Rows BY DEF TaskTyped
<1>3. task'[t] = [task[t] EXCEPT !.state = "pending", !.phase = "tool_done", !.owner = 0, !.lease = "null"]
  BY <1>1 DEF TaskTyped
<1>4. /\ task'[t].state = "pending" /\ task'[t].phase = "tool_done" /\ task'[t].lease = "null"
      /\ task'[t].owner = 0 /\ task'[t].attempts = task[t].attempts
  BY <1>2, <1>3 DEF Rows
<1>5. \A u \in Tasks : u # t => task'[u] = task[u] /\ cp'[u] = cp[u] /\ step'[u] = step[u]
  BY <1>1 DEF Resolve, TaskTyped, CpTyped, StepTyped
<1>6. cp'[t] = [cp[t] EXCEPT !.done = @ \cup {c}] BY DEF Resolve, CpTyped
<1>7. cp[t] \in Checkpoints BY DEF CpTyped
<1>8. cp'[t].done = cp[t].done \cup {c} BY <1>6, <1>7 DEF Checkpoints
<1>9. UNCHANGED <<wk, effects, issued>> BY DEF Resolve
<1>10. step'[t][c] = "resolved_by_human" /\ \A s \in StepIds : s # c => step'[t][s] = step[t][s]
  <2>1. step[t] \in [StepIds -> StepStates] BY DEF StepTyped
  <2>2. step'[t] = [step[t] EXCEPT ![c] = "resolved_by_human"] BY DEF Resolve, StepTyped
  <2>q. QED BY <2>1, <2>2 DEF StepIds
<1>11. ASSUME NEW u \in Tasks PROVE Frees(u) /\ StepsKept(u) /\ StepsOK(u)' /\ LeaseOK(u)'
  <2>1. StepsOK(u) /\ LeaseOK(u) BY DEF SafeInv
  <2>3. CASE u # t BY <1>5, <1>9, <2>1, <2>3 DEF Frees, StepsOK, LeaseOK, StepsKept
  <2>4. CASE u = t
    <3>1. Frees(u) BY <1>4, <2>4 DEF Frees
    <3>2. task[t].phase = "tool_started" /\ step[t][c] = "running" BY DEF Resolve
    <3>3. LeaseOK(u)' BY <1>4, <2>4 DEF LeaseOK, Numbers
    <3>4. StepsKept(u) BY <1>10, <2>4 DEF StepsKept
    <3>5. \A s \in StepIds : step'[t][s] # "running" BY <1>10, <2>1, <2>4, <3>2 DEF StepsOK, StepIds
    <3>6. step'[t][SkillStep] = "none"
      BY <1>10, <2>1, <2>4, <3>2, ConstantsAssumption DEF StepsOK, SkillPhases, StepIds
    <3>7. \A d \in Calls : step'[t][d] \notin {"none", "running"} => d \in cp'[t].done
      BY <1>8, <1>10, <2>1, <2>4 DEF StepsOK, StepIds
    <3>8. \A d \in Calls : step'[t][d] # "none" => d \in issued'[t]
      BY <1>9, <1>10, <2>1, <2>4, <3>2 DEF StepsOK, StepIds
    <3>9. \A s \in StepIds : (step'[t][s] = "none" => effects'[t][s] = 0) /\ effects'[t][s] <= 1
      BY <1>9, <1>10, <2>1, <2>4 DEF StepsOK
    <3>10. StepsOK(u)' BY <1>4, <2>4, <3>5, <3>6, <3>7, <3>8, <3>9 DEF StepsOK, SkillPhases, StepIds
    <3>q. QED BY <3>1, <3>3, <3>4, <3>10
  <2>q. QED BY <2>3, <2>4
<1>q. QED BY <1>9, <1>11, TableStep

\* A cancellation clears the lease of the row.
LEMMA CancelledFields ==
  ASSUME NEW row \in Rows
  PROVE  /\ Cancelled(row).state = "cancelled" /\ Cancelled(row).owner = 0 /\ Cancelled(row).lease = "null"
         /\ Cancelled(row).phase = row.phase /\ Cancelled(row).attempts = row.attempts
BY DEF Cancelled, Rows

\* What humans, time and the recovery scan do to a row gives nobody a right.
LEMMA RowsSafe ==
  ASSUME SafeInv, Numbers, Numbers', TaskTyped,
         \/ \E t \in Tasks : \/ Cancel(t) \/ LeaseExpires(t) \/ ClaimUncertain(t) \/ MarkUncertain(t)
                             \/ \E i \in Tasks \cup {NoTask} : RetireExpiredWait(t, i)
         \/ CancelSession
  PROVE  SafeInv'
<1>1. UNCHANGED <<cp, step, effects, issued, wk>>
  BY DEF Cancel, LeaseExpires, ClaimUncertain, MarkUncertain, RetireExpiredWait, CancelSession
<1>2. ASSUME NEW t \in Tasks, task' = [task EXCEPT ![t] = Cancelled(@)]
      PROVE  \A u \in Tasks : task'[u] = task[u] \/ GivenUp(u)
  <2>1. task'[t] = Cancelled(task[t]) /\ task[t] \in Rows BY <1>2 DEF TaskTyped
  <2>2. GivenUp(t) BY <2>1, CancelledFields DEF GivenUp
  <2>q. QED BY <1>2, <2>2 DEF TaskTyped
<1>3. ASSUME NEW t \in Tasks, LeaseExpires(t) PROVE \A u \in Tasks : task'[u] = task[u] \/ GivenUp(u)
  <2>1. task'[t] = [task[t] EXCEPT !.lease = "expired"] /\ task[t] \in Rows BY <1>3 DEF LeaseExpires, TaskTyped
  <2>2. /\ task'[t].lease = "expired" /\ task'[t].phase = task[t].phase /\ task'[t].attempts = task[t].attempts
        /\ task'[t].owner = task[t].owner /\ task'[t].state = task[t].state
    BY <2>1 DEF Rows
  <2>3. GivenUp(t) BY <2>2 DEF GivenUp, SafeInv, LeaseOK
  <2>q. QED BY <1>3, <2>3 DEF LeaseExpires, TaskTyped
<1>4. ASSUME NEW t \in Tasks, ClaimUncertain(t) PROVE \A u \in Tasks : task'[u] = task[u] \/ GivenUp(u)
  <2>1. task'[t] = [task[t] EXCEPT !.state = "uncertain"] /\ task[t] \in Rows BY <1>4 DEF ClaimUncertain, TaskTyped
  <2>2. /\ task'[t].lease = task[t].lease /\ task'[t].phase = task[t].phase /\ task'[t].attempts = task[t].attempts
        /\ task'[t].owner = task[t].owner /\ task'[t].state = "uncertain"
    BY <2>1 DEF Rows
  <2>3. GivenUp(t) BY <1>4, <2>2 DEF GivenUp, ClaimUncertain
  <2>q. QED BY <1>4, <2>3 DEF ClaimUncertain, TaskTyped
<1>5. ASSUME NEW t \in Tasks, MarkUncertain(t) PROVE \A u \in Tasks : task'[u] = task[u] \/ GivenUp(u)
  <2>1. task'[t] = [task[t] EXCEPT !.state = "uncertain", !.owner = 0, !.lease = "null"] /\ task[t] \in Rows
    BY <1>5 DEF MarkUncertain, TaskTyped
  <2>2. /\ task'[t].lease = "null" /\ task'[t].phase = task[t].phase /\ task'[t].attempts = task[t].attempts
        /\ task'[t].owner = 0 /\ task'[t].state = "uncertain"
    BY <2>1 DEF Rows
  <2>3. GivenUp(t) BY <2>2 DEF GivenUp
  <2>q. QED BY <1>5, <2>3 DEF MarkUncertain, TaskTyped
<1>6. ASSUME CancelSession PROVE \A u \in Tasks : task'[u] = task[u] \/ GivenUp(u)
  <2>1. ASSUME NEW u \in Tasks PROVE task'[u] = task[u] \/ GivenUp(u)
    <3>1. task'[u] = task[u] \/ task'[u] = Cancelled(task[u]) BY <1>6 DEF CancelSession
    <3>2. task[u] \in Rows BY DEF TaskTyped
    <3>q. QED BY <3>1, <3>2, CancelledFields DEF GivenUp
  <2>q. QED BY <2>1
<1>7. \A u \in Tasks : task'[u] = task[u] \/ GivenUp(u)
  BY <1>2, <1>3, <1>4, <1>5, <1>6 DEF Cancel, RetireExpiredWait
<1>q. QED BY <1>1, <1>7, RowStep

\* Reading the waiting task changes nothing in the tables.
LEMMA ReadWaitSafe ==
  ASSUME SafeInv, Numbers, Numbers', WkTyped, NEW w \in Workers, NEW t \in Tasks, ReadWait(w, t)
  PROVE  SafeInv'
<1>1. wk'[w] = [Idle EXCEPT !.pc = "answering", !.task = t, !.cur = cp[t].wait] /\ \A v \in Workers : v # w => wk'[v] = wk[v]
  BY DEF ReadWait, WkTyped
<1>2. wk'[w].pc = "answering" /\ wk'[w].task = t /\ wk'[w].token = 0 BY <1>1 DEF Idle
<1>3. Drops(w) BY <1>2 DEF Drops, ActivePcs, AgentPcs, SkillPcs
<1>4. UNCHANGED <<task, cp, step, effects, issued>> BY DEF ReadWait
<1>q. QED BY <1>1, <1>3, <1>4, RowStep

-----------------------------------------------------------------------------
(* No message list holds a call that the model has not issued. *)

\* A step that issues no call and takes none into a conversation keeps IssuedOK.
LEMMA IssuedKept ==
  ASSUME IssuedOK, \A u \in Tasks : issued[u] \subseteq issued'[u],
         \A u \in Tasks : cp'[u].asked \subseteq cp[u].asked \/ cp'[u].asked \subseteq issued'[u],
         \A v \in Workers : wk'[v] = wk[v] \/ WorkerIssued(v)'
  PROVE  IssuedOK'
<1>1. \A u \in Tasks : cp'[u].asked \subseteq issued'[u] BY DEF IssuedOK
<1>2. ASSUME NEW v \in Workers, wk'[v] = wk[v] PROVE WorkerIssued(v)'
  BY <1>2 DEF IssuedOK, WorkerIssued
<1>q. QED BY <1>1, <1>2 DEF IssuedOK

\* A worker that keeps no messages.
LEMMA EmptyMemory ==
  ASSUME IssuedOK, WkTyped, NEW w \in Workers, NEW m, wk' = [wk EXCEPT ![w] = m],
         m.asked = {}, m.todo = {}, m.pc \notin InCall,
         UNCHANGED issued,
         \A u \in Tasks : cp'[u].asked \subseteq cp[u].asked \/ cp'[u].asked \subseteq issued'[u]
  PROVE  IssuedOK'
<1>1. wk'[w] = m /\ \A v \in Workers : v # w => wk'[v] = wk[v] BY DEF WkTyped
<1>2. WorkerIssued(w)' BY <1>1 DEF WorkerIssued
<1>q. QED BY <1>1, <1>2, IssuedKept

\* A worker that is idle has no conversation.
LEMMA IdleEmpty == Idle.asked = {} /\ Idle.todo = {} /\ Idle.pc \notin InCall
BY DEF Idle, InCall

\* A worker that has left its turn has no calls to make.
LEMMA LeavingEmpty ==
  ASSUME NEW w \in Workers, NEW p \in {"finishing", "raising", "suspending"}, NEW o
  PROVE  Leaving(w, p, o).asked = {} /\ Leaving(w, p, o).todo = {} /\ Leaving(w, p, o).pc \notin InCall
BY DEF Leaving, Idle, InCall

\* Every step keeps that the calls of a conversation were issued.
LEMMA IssuedNext ==
  ASSUME IssuedOK, WkTyped, CpTyped, IssuedTyped, Next
  PROVE  IssuedOK'
<1>1. ASSUME NEW w \in Workers, ModelPending(w) PROVE IssuedOK'
  <2>1. wk'[w] = [wk[w] EXCEPT !.pc = "calling", !.iter = wk[w].iter + 1, !.resume = IF wk[w].pc = "model" THEN wk[w].resume ELSE "no"] /\ \A x \in Workers : x # w => wk'[x] = wk[x] BY <1>1 DEF ModelPending, WkTyped
  <2>2. wk[w] \in Memories /\ WorkerIssued(w) BY DEF WkTyped, IssuedOK
  <2>3. wk'[w].asked = wk[w].asked /\ wk'[w].task = wk[w].task /\ wk'[w].todo = wk[w].todo /\ wk'[w].cur = wk[w].cur BY <2>1, <2>2 DEF Memories
  <2>4. wk'[w].pc = "calling" BY <2>1, <2>2 DEF Memories
  <2>5. UNCHANGED issued BY <1>1 DEF ModelPending
  <2>6. WorkerIssued(w)' BY <1>1, <2>2, <2>3, <2>4, <2>5 DEF ModelPending, WorkerIssued, InCall
  <2>7. wk[w].task \in Tasks BY <1>1 DEF ModelPending, Checkpoint, Holds
  <2>8. cp'[wk[w].task] = [Saved(w) EXCEPT !.iter = @ + 1] /\ \A u \in Tasks : u # wk[w].task => cp'[u] = cp[u]
    BY <1>1, <2>7 DEF ModelPending, Checkpoint, CpTyped
  <2>9. [Saved(w) EXCEPT !.iter = @ + 1].asked = wk[w].asked BY DEF Saved, Messages, EmptyCheckpoint
  <2>10. wk[w].asked \subseteq issued'[wk[w].task] BY <2>2, <2>7, <2>5 DEF WorkerIssued
  <2>11. \A u \in Tasks : cp'[u].asked \subseteq cp[u].asked \/ cp'[u].asked \subseteq issued'[u] BY <2>8,
      <2>9, <2>10
  <2>q. QED BY <2>1, <2>5, <2>6, <2>11, IssuedKept
<1>2. ASSUME NEW w \in Workers, NEW c \in Calls, ToolRefused(w, c) PROVE IssuedOK'
  <2>1. wk'[w] = [wk[w] EXCEPT !.todo = wk[w].todo \ {c}, !.done = wk[w].done \cup {c}] /\ \A x \in Workers : x # w => wk'[x] = wk[x] BY <1>2 DEF ToolRefused, WkTyped
  <2>2. wk[w] \in Memories /\ WorkerIssued(w) BY DEF WkTyped, IssuedOK
  <2>3. wk'[w].asked = wk[w].asked /\ wk'[w].task = wk[w].task /\ wk'[w].pc = wk[w].pc /\ wk'[w].cur = wk[w].cur BY <2>1, <2>2 DEF Memories
  <2>4. wk'[w].todo = wk[w].todo \ {c} BY <2>1, <2>2 DEF Memories
  <2>5. UNCHANGED issued BY <1>2 DEF ToolRefused
  <2>6. WorkerIssued(w)' BY <1>2, <2>2, <2>3, <2>4, <2>5 DEF ToolRefused, WorkerIssued, InCall, InBatch
  <2>7. wk[w].task \in Tasks BY <1>2 DEF ToolRefused, Checkpoint, Holds
  <2>8. cp'[wk[w].task] = Messages(w, wk[w].asked, wk[w].done \cup {c}) /\ \A u \in Tasks : u # wk[w].task => cp'[u] = cp[u]
    BY <1>2, <2>7 DEF ToolRefused, Checkpoint, CpTyped
  <2>9. Messages(w, wk[w].asked, wk[w].done \cup {c}).asked = wk[w].asked BY DEF Saved, Messages, EmptyCheckpoint
  <2>10. wk[w].asked \subseteq issued'[wk[w].task] BY <2>2, <2>7, <2>5 DEF WorkerIssued
  <2>11. \A u \in Tasks : cp'[u].asked \subseteq cp[u].asked \/ cp'[u].asked \subseteq issued'[u] BY <2>8,
      <2>9, <2>10
  <2>q. QED BY <2>1, <2>5, <2>6, <2>11, IssuedKept
<1>3. ASSUME NEW w \in Workers, NEW c \in Calls, AskUser(w, c) PROVE IssuedOK'
  <2>1. wk'[w] = [wk[w] EXCEPT !.todo = wk[w].todo \ {c}, !.ask = IF wk[w].ask = NoCall THEN c ELSE wk[w].ask] /\ \A x \in Workers : x # w => wk'[x] = wk[x] BY <1>3 DEF AskUser, WkTyped
  <2>2. wk[w] \in Memories /\ WorkerIssued(w) BY DEF WkTyped, IssuedOK
  <2>3. wk'[w].asked = wk[w].asked /\ wk'[w].task = wk[w].task /\ wk'[w].pc = wk[w].pc /\ wk'[w].cur = wk[w].cur BY <2>1, <2>2 DEF Memories
  <2>4. wk'[w].todo = wk[w].todo \ {c} BY <2>1, <2>2 DEF Memories
  <2>5. UNCHANGED issued BY <1>3 DEF AskUser
  <2>6. WorkerIssued(w)' BY <1>3, <2>2, <2>3, <2>4, <2>5 DEF AskUser, WorkerIssued, InCall, InBatch
  <2>7. cp' = cp BY <1>3 DEF AskUser
  <2>q. QED BY <2>1, <2>5, <2>6, <2>7, IssuedKept
<1>4. ASSUME NEW w \in Workers, NEW c \in Calls, ToolStarted(w, c) PROVE IssuedOK'
  <2>1. wk'[w] = [wk[w] EXCEPT !.pc = "executing", !.cur = c] /\ \A x \in Workers : x # w => wk'[x] = wk[x] BY <1>4 DEF ToolStarted, WkTyped
  <2>2. wk[w] \in Memories /\ WorkerIssued(w) BY DEF WkTyped, IssuedOK
  <2>3. wk'[w].asked = wk[w].asked /\ wk'[w].task = wk[w].task /\ wk'[w].todo = wk[w].todo BY <2>1,
      <2>2 DEF Memories
  <2>4. wk'[w].pc = "executing" BY <2>1, <2>2 DEF Memories
  <2>5. wk'[w].cur = c BY <2>1, <2>2 DEF Memories
  <2>6. UNCHANGED issued BY <1>4 DEF ToolStarted
  <2>7. WorkerIssued(w)' BY <1>4, <2>2, <2>3, <2>4, <2>5, <2>6 DEF ToolStarted, WorkerIssued, InCall, InBatch
  <2>8. wk[w].task \in Tasks BY <1>4 DEF ToolStarted, Checkpoint, Holds
  <2>9. cp'[wk[w].task] = Saved(w) /\ \A u \in Tasks : u # wk[w].task => cp'[u] = cp[u]
    BY <1>4, <2>8 DEF ToolStarted, Checkpoint, CpTyped
  <2>10. Saved(w).asked = wk[w].asked BY DEF Saved, Messages, EmptyCheckpoint
  <2>11. wk[w].asked \subseteq issued'[wk[w].task] BY <2>2, <2>8, <2>6 DEF WorkerIssued
  <2>12. \A u \in Tasks : cp'[u].asked \subseteq cp[u].asked \/ cp'[u].asked \subseteq issued'[u] BY <2>9,
      <2>10, <2>11
  <2>q. QED BY <2>1, <2>6, <2>7, <2>12, IssuedKept
<1>5. ASSUME NEW w \in Workers, ExecuteTool(w) PROVE IssuedOK'
  <2>1. wk'[w] = [wk[w] EXCEPT !.pc = "executed"] /\ \A x \in Workers : x # w => wk'[x] = wk[x] BY <1>5 DEF ExecuteTool, WkTyped
  <2>2. wk[w] \in Memories /\ WorkerIssued(w) BY DEF WkTyped, IssuedOK
  <2>3. wk'[w].asked = wk[w].asked /\ wk'[w].task = wk[w].task /\ wk'[w].todo = wk[w].todo /\ wk'[w].cur = wk[w].cur BY <2>1, <2>2 DEF Memories
  <2>4. wk'[w].pc = "executed" BY <2>1, <2>2 DEF Memories
  <2>5. UNCHANGED issued BY <1>5 DEF ExecuteTool
  <2>6. WorkerIssued(w)' BY <1>5, <2>2, <2>3, <2>4, <2>5 DEF ExecuteTool, WorkerIssued, InCall
  <2>7. cp' = cp BY <1>5 DEF ExecuteTool
  <2>q. QED BY <2>1, <2>5, <2>6, <2>7, IssuedKept
<1>6. ASSUME NEW w \in Workers, ReuseResult(w) PROVE IssuedOK'
  <2>1. wk'[w] = [wk[w] EXCEPT !.pc = "executed"] /\ \A x \in Workers : x # w => wk'[x] = wk[x] BY <1>6 DEF ReuseResult, WkTyped
  <2>2. wk[w] \in Memories /\ WorkerIssued(w) BY DEF WkTyped, IssuedOK
  <2>3. wk'[w].asked = wk[w].asked /\ wk'[w].task = wk[w].task /\ wk'[w].todo = wk[w].todo /\ wk'[w].cur = wk[w].cur BY <2>1, <2>2 DEF Memories
  <2>4. wk'[w].pc = "executed" BY <2>1, <2>2 DEF Memories
  <2>5. UNCHANGED issued BY <1>6 DEF ReuseResult
  <2>6. WorkerIssued(w)' BY <1>6, <2>2, <2>3, <2>4, <2>5 DEF ReuseResult, WorkerIssued, InCall
  <2>7. cp' = cp BY <1>6 DEF ReuseResult
  <2>q. QED BY <2>1, <2>5, <2>6, <2>7, IssuedKept
<1>7. ASSUME NEW w \in Workers, NEW r \in Results, ToolDone(w, r) PROVE IssuedOK'
  <2>1. wk'[w] = [wk[w] EXCEPT !.pc = "observed", !.result = r] /\ \A x \in Workers : x # w => wk'[x] = wk[x] BY <1>7 DEF ToolDone, WkTyped
  <2>2. wk[w] \in Memories /\ WorkerIssued(w) BY DEF WkTyped, IssuedOK
  <2>3. wk'[w].asked = wk[w].asked /\ wk'[w].task = wk[w].task /\ wk'[w].todo = wk[w].todo /\ wk'[w].cur = wk[w].cur BY <2>1, <2>2 DEF Memories
  <2>4. wk'[w].pc = "observed" BY <2>1, <2>2 DEF Memories
  <2>5. UNCHANGED issued BY <1>7 DEF ToolDone
  <2>6. WorkerIssued(w)' BY <1>7, <2>2, <2>3, <2>4, <2>5 DEF ToolDone, WorkerIssued, InCall
  <2>7. wk[w].task \in Tasks BY <1>7 DEF ToolDone, Checkpoint, Holds
  <2>8. cp'[wk[w].task] = Messages(w, wk[w].asked, wk[w].done \cup {wk[w].cur}) /\ \A u \in Tasks : u # wk[w].task => cp'[u] = cp[u]
    BY <1>7, <2>7 DEF ToolDone, Checkpoint, CpTyped
  <2>9. Messages(w, wk[w].asked, wk[w].done \cup {wk[w].cur}).asked = wk[w].asked BY DEF Saved, Messages, EmptyCheckpoint
  <2>10. wk[w].asked \subseteq issued'[wk[w].task] BY <2>2, <2>7, <2>5 DEF WorkerIssued
  <2>11. \A u \in Tasks : cp'[u].asked \subseteq cp[u].asked \/ cp'[u].asked \subseteq issued'[u] BY <2>8,
      <2>9, <2>10
  <2>q. QED BY <2>1, <2>5, <2>6, <2>11, IssuedKept
<1>8. ASSUME NEW w \in Workers, NEW r \in Results, ToolObserved(w, r) PROVE IssuedOK'
  <2>1. wk'[w] = [wk[w] EXCEPT !.pc = "tools", !.cur = NoCall, !.result = "none", !.todo = wk[w].todo \ {wk[w].cur}, !.done = wk[w].done \cup {wk[w].cur}] /\ \A x \in Workers : x # w => wk'[x] = wk[x] BY <1>8 DEF ToolObserved, WkTyped
  <2>2. wk[w] \in Memories /\ WorkerIssued(w) BY DEF WkTyped, IssuedOK
  <2>3. wk'[w].asked = wk[w].asked /\ wk'[w].task = wk[w].task BY <2>1, <2>2 DEF Memories
  <2>4. wk'[w].todo = wk[w].todo \ {wk[w].cur} BY <2>1, <2>2 DEF Memories
  <2>5. wk'[w].pc = "tools" BY <2>1, <2>2 DEF Memories
  <2>6. wk'[w].cur = NoCall BY <2>1, <2>2 DEF Memories
  <2>7. UNCHANGED issued BY <1>8 DEF ToolObserved
  <2>8. WorkerIssued(w)' BY <1>8, <2>2, <2>3, <2>4, <2>5, <2>6, <2>7 DEF ToolObserved, WorkerIssued, InCall
  <2>9. wk[w].task \in Tasks BY <1>8 DEF ToolObserved, Checkpoint, Holds
  <2>10. cp'[wk[w].task] = Messages(w, wk[w].asked, wk[w].done \cup {wk[w].cur}) /\ \A u \in Tasks : u # wk[w].task => cp'[u] = cp[u]
    BY <1>8, <2>9 DEF ToolObserved, Checkpoint, CpTyped
  <2>11. Messages(w, wk[w].asked, wk[w].done \cup {wk[w].cur}).asked = wk[w].asked BY DEF Saved, Messages, EmptyCheckpoint
  <2>12. wk[w].asked \subseteq issued'[wk[w].task] BY <2>2, <2>9, <2>7 DEF WorkerIssued
  <2>13. \A u \in Tasks : cp'[u].asked \subseteq cp[u].asked \/ cp'[u].asked \subseteq issued'[u] BY <2>10,
      <2>11, <2>12
  <2>q. QED BY <2>1, <2>7, <2>8, <2>13, IssuedKept
<1>9. ASSUME NEW w \in Workers, EvaluationPending(w) PROVE IssuedOK'
  <2>1. wk'[w] = [wk[w] EXCEPT !.pc = "judging"] /\ \A x \in Workers : x # w => wk'[x] = wk[x] BY <1>9 DEF EvaluationPending, WkTyped
  <2>2. wk[w] \in Memories /\ WorkerIssued(w) BY DEF WkTyped, IssuedOK
  <2>3. wk'[w].asked = wk[w].asked /\ wk'[w].task = wk[w].task /\ wk'[w].todo = wk[w].todo /\ wk'[w].cur = wk[w].cur BY <2>1, <2>2 DEF Memories
  <2>4. wk'[w].pc = "judging" BY <2>1, <2>2 DEF Memories
  <2>5. UNCHANGED issued BY <1>9 DEF EvaluationPending
  <2>6. WorkerIssued(w)' BY <1>9, <2>2, <2>3, <2>4, <2>5 DEF EvaluationPending, WorkerIssued, InCall
  <2>7. wk[w].task \in Tasks BY <1>9 DEF EvaluationPending, Checkpoint, Holds
  <2>8. cp'[wk[w].task] = Saved(w) /\ \A u \in Tasks : u # wk[w].task => cp'[u] = cp[u]
    BY <1>9, <2>7 DEF EvaluationPending, Checkpoint, CpTyped
  <2>9. Saved(w).asked = wk[w].asked BY DEF Saved, Messages, EmptyCheckpoint
  <2>10. wk[w].asked \subseteq issued'[wk[w].task] BY <2>2, <2>7, <2>5 DEF WorkerIssued
  <2>11. \A u \in Tasks : cp'[u].asked \subseteq cp[u].asked \/ cp'[u].asked \subseteq issued'[u] BY <2>8,
      <2>9, <2>10
  <2>q. QED BY <2>1, <2>5, <2>6, <2>11, IssuedKept
<1>10. ASSUME NEW w \in Workers, NEW v \in Verdicts, EvaluationDone(w, v) PROVE IssuedOK'
  <2>1. wk'[w] = [wk[w] EXCEPT !.pc = "verdict", !.eval = v, !.resume = "no"] /\ \A x \in Workers : x # w => wk'[x] = wk[x] BY <1>10 DEF EvaluationDone, WkTyped
  <2>2. wk[w] \in Memories /\ WorkerIssued(w) BY DEF WkTyped, IssuedOK
  <2>3. wk'[w].asked = wk[w].asked /\ wk'[w].task = wk[w].task /\ wk'[w].todo = wk[w].todo /\ wk'[w].cur = wk[w].cur BY <2>1, <2>2 DEF Memories
  <2>4. wk'[w].pc = "verdict" BY <2>1, <2>2 DEF Memories
  <2>5. UNCHANGED issued BY <1>10 DEF EvaluationDone
  <2>6. WorkerIssued(w)' BY <1>10, <2>2, <2>3, <2>4, <2>5 DEF EvaluationDone, WorkerIssued, InCall
  <2>7. wk[w].task \in Tasks BY <1>10 DEF EvaluationDone, Checkpoint, Holds
  <2>8. cp'[wk[w].task] = [Saved(w) EXCEPT !.eval = v] /\ \A u \in Tasks : u # wk[w].task => cp'[u] = cp[u]
    BY <1>10, <2>7 DEF EvaluationDone, Checkpoint, CpTyped
  <2>9. [Saved(w) EXCEPT !.eval = v].asked = wk[w].asked BY DEF Saved, Messages, EmptyCheckpoint
  <2>10. wk[w].asked \subseteq issued'[wk[w].task] BY <2>2, <2>7, <2>5 DEF WorkerIssued
  <2>11. \A u \in Tasks : cp'[u].asked \subseteq cp[u].asked \/ cp'[u].asked \subseteq issued'[u] BY <2>8,
      <2>9, <2>10
  <2>q. QED BY <2>1, <2>5, <2>6, <2>11, IssuedKept
<1>11. ASSUME NEW w \in Workers, CriticRetry(w) PROVE IssuedOK'
  <2>1. wk'[w] = [wk[w] EXCEPT !.pc = "model", !.retries = wk[w].retries + 1, !.eval = "none"] /\ \A x \in Workers : x # w => wk'[x] = wk[x] BY <1>11 DEF CriticRetry, WkTyped
  <2>2. wk[w] \in Memories /\ WorkerIssued(w) BY DEF WkTyped, IssuedOK
  <2>3. wk'[w].asked = wk[w].asked /\ wk'[w].task = wk[w].task /\ wk'[w].todo = wk[w].todo /\ wk'[w].cur = wk[w].cur BY <2>1, <2>2 DEF Memories
  <2>4. wk'[w].pc = "model" BY <2>1, <2>2 DEF Memories
  <2>5. UNCHANGED issued BY <1>11 DEF CriticRetry
  <2>6. WorkerIssued(w)' BY <1>11, <2>2, <2>3, <2>4, <2>5 DEF CriticRetry, WorkerIssued, InCall
  <2>7. wk[w].task \in Tasks BY <1>11 DEF CriticRetry, Checkpoint, Holds
  <2>8. cp'[wk[w].task] = [Saved(w) EXCEPT !.retries = @ + 1] /\ \A u \in Tasks : u # wk[w].task => cp'[u] = cp[u]
    BY <1>11, <2>7 DEF CriticRetry, Checkpoint, CpTyped
  <2>9. [Saved(w) EXCEPT !.retries = @ + 1].asked = wk[w].asked BY DEF Saved, Messages, EmptyCheckpoint
  <2>10. wk[w].asked \subseteq issued'[wk[w].task] BY <2>2, <2>7, <2>5 DEF WorkerIssued
  <2>11. \A u \in Tasks : cp'[u].asked \subseteq cp[u].asked \/ cp'[u].asked \subseteq issued'[u] BY <2>8,
      <2>9, <2>10
  <2>q. QED BY <2>1, <2>5, <2>6, <2>11, IssuedKept
<1>12. ASSUME NEW w \in Workers, SkillStarted(w) PROVE IssuedOK'
  <2>1. wk'[w] = [wk[w] EXCEPT !.pc = "skill_run", !.cur = SkillStep] /\ \A x \in Workers : x # w => wk'[x] = wk[x] BY <1>12 DEF SkillStarted, WkTyped
  <2>2. wk[w] \in Memories /\ WorkerIssued(w) BY DEF WkTyped, IssuedOK
  <2>3. wk'[w].asked = wk[w].asked /\ wk'[w].task = wk[w].task /\ wk'[w].todo = wk[w].todo BY <2>1,
      <2>2 DEF Memories
  <2>4. wk'[w].pc = "skill_run" BY <2>1, <2>2 DEF Memories
  <2>5. wk'[w].cur = SkillStep BY <2>1, <2>2 DEF Memories
  <2>6. UNCHANGED issued BY <1>12 DEF SkillStarted
  <2>7. WorkerIssued(w)' BY <1>12, <2>2, <2>3, <2>4, <2>5, <2>6 DEF SkillStarted, WorkerIssued, InCall
  <2>8. wk[w].task \in Tasks BY <1>12 DEF SkillStarted, Checkpoint, Holds
  <2>9. cp'[wk[w].task] = Saved(w) /\ \A u \in Tasks : u # wk[w].task => cp'[u] = cp[u]
    BY <1>12, <2>8 DEF SkillStarted, Checkpoint, CpTyped
  <2>10. Saved(w).asked = wk[w].asked BY DEF Saved, Messages, EmptyCheckpoint
  <2>11. wk[w].asked \subseteq issued'[wk[w].task] BY <2>2, <2>8, <2>6 DEF WorkerIssued
  <2>12. \A u \in Tasks : cp'[u].asked \subseteq cp[u].asked \/ cp'[u].asked \subseteq issued'[u] BY <2>9,
      <2>10, <2>11
  <2>q. QED BY <2>1, <2>6, <2>7, <2>12, IssuedKept
<1>13. ASSUME NEW w \in Workers, NEW r \in Results, RunSkill(w, r) PROVE IssuedOK'
  <2>1. wk'[w] = [wk[w] EXCEPT !.pc = "skill_ran", !.result = r] /\ \A x \in Workers : x # w => wk'[x] = wk[x] BY <1>13 DEF RunSkill, WkTyped
  <2>2. wk[w] \in Memories /\ WorkerIssued(w) BY DEF WkTyped, IssuedOK
  <2>3. wk'[w].asked = wk[w].asked /\ wk'[w].task = wk[w].task /\ wk'[w].todo = wk[w].todo /\ wk'[w].cur = wk[w].cur BY <2>1, <2>2 DEF Memories
  <2>4. wk'[w].pc = "skill_ran" BY <2>1, <2>2 DEF Memories
  <2>5. UNCHANGED issued BY <1>13 DEF RunSkill
  <2>6. WorkerIssued(w)' BY <1>13, <2>2, <2>3, <2>4, <2>5 DEF RunSkill, WorkerIssued, InCall
  <2>7. cp' = cp BY <1>13 DEF RunSkill
  <2>q. QED BY <2>1, <2>5, <2>6, <2>7, IssuedKept
<1>14. ASSUME NEW w \in Workers, SkillExecuted(w) PROVE IssuedOK'
  <2>1. wk'[w] = [wk[w] EXCEPT !.pc = "skill_verify"] /\ \A x \in Workers : x # w => wk'[x] = wk[x] BY <1>14 DEF SkillExecuted, WkTyped
  <2>2. wk[w] \in Memories /\ WorkerIssued(w) BY DEF WkTyped, IssuedOK
  <2>3. wk'[w].asked = wk[w].asked /\ wk'[w].task = wk[w].task /\ wk'[w].todo = wk[w].todo /\ wk'[w].cur = wk[w].cur BY <2>1, <2>2 DEF Memories
  <2>4. wk'[w].pc = "skill_verify" BY <2>1, <2>2 DEF Memories
  <2>5. UNCHANGED issued BY <1>14 DEF SkillExecuted
  <2>6. WorkerIssued(w)' BY <1>14, <2>2, <2>3, <2>4, <2>5 DEF SkillExecuted, WorkerIssued, InCall
  <2>7. wk[w].task \in Tasks BY <1>14 DEF SkillExecuted, Checkpoint, Holds
  <2>8. cp'[wk[w].task] = [Saved(w) EXCEPT !.skill = wk[w].result] /\ \A u \in Tasks : u # wk[w].task => cp'[u] = cp[u]
    BY <1>14, <2>7 DEF SkillExecuted, Checkpoint, CpTyped
  <2>9. [Saved(w) EXCEPT !.skill = wk[w].result].asked = wk[w].asked BY DEF Saved, Messages, EmptyCheckpoint
  <2>10. wk[w].asked \subseteq issued'[wk[w].task] BY <2>2, <2>7, <2>5 DEF WorkerIssued
  <2>11. \A u \in Tasks : cp'[u].asked \subseteq cp[u].asked \/ cp'[u].asked \subseteq issued'[u] BY <2>8,
      <2>9, <2>10
  <2>q. QED BY <2>1, <2>5, <2>6, <2>11, IssuedKept
<1>15. ASSUME NEW w \in Workers, SetLost(w) PROVE IssuedOK'
  <2>1. wk'[w] = [wk[w] EXCEPT !.lost = "yes"] /\ \A x \in Workers : x # w => wk'[x] = wk[x] BY <1>15 DEF SetLost, WkTyped
  <2>2. wk[w] \in Memories /\ WorkerIssued(w) BY DEF WkTyped, IssuedOK
  <2>3. wk'[w].asked = wk[w].asked /\ wk'[w].task = wk[w].task /\ wk'[w].todo = wk[w].todo /\ wk'[w].pc = wk[w].pc /\ wk'[w].cur = wk[w].cur BY <2>1, <2>2 DEF Memories
  <2>4. UNCHANGED issued BY <1>15 DEF SetLost
  <2>5. WorkerIssued(w)' BY <1>15, <2>2, <2>3, <2>4 DEF SetLost, WorkerIssued, InCall
  <2>6. cp' = cp BY <1>15 DEF SetLost
  <2>q. QED BY <2>1, <2>4, <2>5, <2>6, IssuedKept
<1>16. ASSUME NEW w \in Workers, NEW cs \in SUBSET Calls, ModelReceived(w, cs) PROVE IssuedOK'
  <2>1. wk'[w] = [wk[w] EXCEPT !.pc = IF cs = {} THEN "final" ELSE "tools", !.asked = cs, !.todo = cs] /\ \A x \in Workers : x # w => wk'[x] = wk[x]
    BY <1>16 DEF ModelReceived, WkTyped
  <2>2. wk[w] \in Memories BY DEF WkTyped
  <2>3. wk'[w].task = wk[w].task /\ wk'[w].asked = cs /\ wk'[w].todo = cs BY <2>1, <2>2 DEF Memories
  <2>4. wk'[w].pc = (IF cs = {} THEN "final" ELSE "tools") BY <2>1, <2>2 DEF Memories
  <2>5. \A u \in Tasks : issued[u] \subseteq issued'[u] BY <1>16 DEF ModelReceived, IssuedTyped
  <2>6. wk[w].task \in Tasks => cs \subseteq issued'[wk[w].task] BY <1>16 DEF ModelReceived, IssuedTyped
  <2>7. wk'[w].pc \notin InCall BY <2>4 DEF InCall
  <2>8. WorkerIssued(w)' BY <2>3, <2>6, <2>7 DEF WorkerIssued
  <2>9. wk[w].task \in Tasks BY <1>16 DEF ModelReceived, Checkpoint, Holds
  <2>10. cp'[wk[w].task] = Messages(w, cs, wk[w].done) /\ \A u \in Tasks : u # wk[w].task => cp'[u] = cp[u]
    BY <1>16, <2>9 DEF ModelReceived, Checkpoint, CpTyped
  <2>11. Messages(w, cs, wk[w].done).asked = cs BY DEF Messages, EmptyCheckpoint
  <2>12. \A u \in Tasks : cp'[u].asked \subseteq cp[u].asked \/ cp'[u].asked \subseteq issued'[u] BY <2>6,
      <2>9, <2>10, <2>11
  <2>q. QED BY <2>1, <2>5, <2>8, <2>12, IssuedKept
<1>17. ASSUME NEW w \in Workers, NEW cs \in SUBSET Calls, ModelFeedback(w, cs) PROVE IssuedOK'
  <2>1. wk'[w] = [wk[w] EXCEPT !.pc = IF wk[w].resume = "yes" /\ cs # {} /\ wk[w].iter < MaxIterations THEN "tools" ELSE "model", !.asked = cs, !.todo = cs] /\ \A x \in Workers : x # w => wk'[x] = wk[x]
    BY <1>17 DEF ModelFeedback, WkTyped
  <2>2. wk[w] \in Memories BY DEF WkTyped
  <2>3. wk'[w].task = wk[w].task /\ wk'[w].asked = cs /\ wk'[w].todo = cs BY <2>1, <2>2 DEF Memories
  <2>4. wk'[w].pc = (IF wk[w].resume = "yes" /\ cs # {} /\ wk[w].iter < MaxIterations THEN "tools" ELSE "model") BY <2>1, <2>2 DEF Memories
  <2>5. \A u \in Tasks : issued[u] \subseteq issued'[u] BY <1>17 DEF ModelFeedback, IssuedTyped
  <2>6. wk[w].task \in Tasks => cs \subseteq issued'[wk[w].task] BY <1>17 DEF ModelFeedback, IssuedTyped
  <2>7. wk'[w].pc \notin InCall BY <2>4 DEF InCall
  <2>8. WorkerIssued(w)' BY <2>3, <2>6, <2>7 DEF WorkerIssued
  <2>12. cp' = cp BY <1>17 DEF ModelFeedback
  <2>q. QED BY <2>1, <2>5, <2>8, <2>12, IssuedKept
<1>18. ASSUME NEW w \in Workers, Conclude(w) PROVE IssuedOK'
  <2>1. wk' = [wk EXCEPT ![w] = Leaving(w, "finishing", IF wk[w].eval = "fail" THEN "failed" ELSE "completed")] /\ UNCHANGED <<cp, issued>> BY <1>18 DEF Conclude, Finishing
  <2>q. QED BY <2>1, LeavingEmpty, EmptyMemory
<1>19. ASSUME NEW w \in Workers, LimitReached(w) PROVE IssuedOK'
  <2>1. wk' = [wk EXCEPT ![w] = Leaving(w, "finishing", "failed")] /\ UNCHANGED <<cp, issued>> BY <1>19 DEF LimitReached, Finishing
  <2>q. QED BY <2>1, LeavingEmpty, EmptyMemory
<1>20. ASSUME NEW w \in Workers, NEW o, ReturnEarly(w, o) PROVE IssuedOK'
  <2>1. wk' = [wk EXCEPT ![w] = Leaving(w, "finishing", o)] /\ UNCHANGED <<cp, issued>> BY <1>20 DEF ReturnEarly, Finishing
  <2>q. QED BY <2>1, LeavingEmpty, EmptyMemory
<1>21. ASSUME NEW w \in Workers, Stopped(w) PROVE IssuedOK'
  <2>1. wk' = [wk EXCEPT ![w] = Leaving(w, "finishing", "completed")] /\ UNCHANGED <<cp, issued>> BY <1>21 DEF Stopped, Finishing
  <2>q. QED BY <2>1, LeavingEmpty, EmptyMemory
<1>22. ASSUME NEW w \in Workers, NEW o, Raise(w, o) PROVE IssuedOK'
  <2>1. wk' = [wk EXCEPT ![w] = Leaving(w, "raising", o)] /\ UNCHANGED <<cp, issued>> BY <1>22 DEF Raise
  <2>q. QED BY <2>1, LeavingEmpty, EmptyMemory
<1>23. ASSUME NEW w \in Workers, RaiseBusy(w) PROVE IssuedOK'
  <2>1. wk' = [wk EXCEPT ![w] = Leaving(w, "raising", "none")] /\ UNCHANGED <<cp, issued>> BY <1>23 DEF RaiseBusy
  <2>q. QED BY <2>1, LeavingEmpty, EmptyMemory
<1>24. ASSUME NEW w \in Workers, Finish(w) PROVE IssuedOK'
  <2>1. wk' = [wk EXCEPT ![w] = Idle] /\ UNCHANGED <<cp, issued>> BY <1>24 DEF Finish, FinishRow
  <2>q. QED BY <2>1, IdleEmpty, EmptyMemory
<1>25. ASSUME NEW w \in Workers, FinishSuspended(w) PROVE IssuedOK'
  <2>1. wk' = [wk EXCEPT ![w] = Idle] /\ UNCHANGED <<cp, issued>> BY <1>25 DEF FinishSuspended, FinishRow
  <2>q. QED BY <2>1, IdleEmpty, EmptyMemory
<1>26. ASSUME NEW w \in Workers, HandleError(w) PROVE IssuedOK'
  <2>1. wk' = [wk EXCEPT ![w] = Idle] /\ UNCHANGED <<cp, issued>> BY <1>26 DEF HandleError, FinishRow
  <2>q. QED BY <2>1, IdleEmpty, EmptyMemory
<1>27. ASSUME NEW w \in Workers, FinishRefused(w) PROVE IssuedOK'
  <2>1. wk' = [wk EXCEPT ![w] = Idle] /\ UNCHANGED <<cp, issued>> BY <1>27 DEF FinishRefused
  <2>q. QED BY <2>1, IdleEmpty, EmptyMemory
<1>28. ASSUME NEW w \in Workers, Crash(w) PROVE IssuedOK'
  <2>1. wk' = [wk EXCEPT ![w] = Idle] /\ UNCHANGED <<cp, issued>> BY <1>28 DEF Crash
  <2>q. QED BY <2>1, IdleEmpty, EmptyMemory
<1>29. ASSUME NEW w \in Workers, ClaimRefused(w) PROVE IssuedOK'
  <2>1. wk' = [wk EXCEPT ![w] = Idle] /\ UNCHANGED <<cp, issued>> BY <1>29 DEF ClaimRefused
  <2>q. QED BY <2>1, IdleEmpty, EmptyMemory
<1>30. ASSUME NEW w \in Workers, AnswerRefused(w) PROVE IssuedOK'
  <2>1. wk' = [wk EXCEPT ![w] = Idle] /\ UNCHANGED <<cp, issued>> BY <1>30 DEF AnswerRefused
  <2>q. QED BY <2>1, IdleEmpty, EmptyMemory
<1>31. ASSUME NEW w \in Workers, Suspend(w) PROVE IssuedOK'
  <2>1. wk' = [wk EXCEPT ![w] = Leaving(w, "suspending", "none")] /\ UNCHANGED issued BY <1>31 DEF Suspend
  <2>2. wk[w].task \in Tasks BY <1>31 DEF Suspend, Checkpoint, Holds
  <2>3. cp'[wk[w].task] = [cp[wk[w].task] EXCEPT !.asked = wk[w].asked, !.done = wk[w].done, !.wait = wk[w].ask] /\ \A u \in Tasks : u # wk[w].task => cp'[u] = cp[u]
    BY <1>31, <2>2 DEF Suspend, Checkpoint, CpTyped
  <2>4. cp[wk[w].task] \in Checkpoints BY <2>2 DEF CpTyped
  <2>5. [cp[wk[w].task] EXCEPT !.asked = wk[w].asked, !.done = wk[w].done, !.wait = wk[w].ask].asked = wk[w].asked BY <2>4 DEF Checkpoints, Saved, Messages, EmptyCheckpoint
  <2>6. wk[w].asked \subseteq issued'[wk[w].task] BY <2>1, <2>2 DEF IssuedOK, WorkerIssued
  <2>7. \A u \in Tasks : cp'[u].asked \subseteq cp[u].asked \/ cp'[u].asked \subseteq issued'[u] BY <2>3, <2>5, <2>6
  <2>q. QED BY <2>1, <2>7, LeavingEmpty, EmptyMemory
<1>32. ASSUME NEW w \in Workers, NEW v \in Verdicts, SkillDone(w, v) PROVE IssuedOK'
  <2> DEFINE r == IF v = "fail" THEN "failure" ELSE wk[w].result
  <2>1. wk' = [wk EXCEPT ![w] = Leaving(w, "finishing", OutcomeOf(r))] /\ UNCHANGED issued BY <1>32 DEF SkillDone
  <2>2. wk[w].task \in Tasks BY <1>32 DEF SkillDone, Checkpoint, Holds
  <2>3. cp'[wk[w].task] = [Saved(w) EXCEPT !.skill = r, !.eval = v] /\ \A u \in Tasks : u # wk[w].task => cp'[u] = cp[u]
    BY <1>32, <2>2 DEF SkillDone, Checkpoint, CpTyped
  <2>4. cp[wk[w].task] \in Checkpoints BY <2>2 DEF CpTyped
  <2> HIDE DEF r
  <2>5. [Saved(w) EXCEPT !.skill = r, !.eval = v].asked = wk[w].asked BY <2>4 DEF Checkpoints, Saved, Messages,
      EmptyCheckpoint
  <2>6. wk[w].asked \subseteq issued'[wk[w].task] BY <2>1, <2>2 DEF IssuedOK, WorkerIssued
  <2>7. \A u \in Tasks : cp'[u].asked \subseteq cp[u].asked \/ cp'[u].asked \subseteq issued'[u] BY <2>3, <2>5, <2>6
  <2>q. QED BY <2>1, <2>7, LeavingEmpty, EmptyMemory
<1>33. ASSUME NEW w \in Workers, NEW t \in Tasks, ReadWait(w, t) PROVE IssuedOK'
  <2> DEFINE m == [Idle EXCEPT !.pc = "answering", !.task = t, !.cur = cp[t].wait]
  <2>1. m.asked = {} /\ m.todo = {} /\ m.pc \notin InCall BY DEF Idle, InCall
  <2>2. wk' = [wk EXCEPT ![w] = m] /\ UNCHANGED <<cp, issued>> BY <1>33 DEF ReadWait
  <2> HIDE DEF m
  <2>q. QED BY <2>1, <2>2, EmptyMemory
<1>34. ASSUME NEW w \in Workers, NEW t \in Tasks, NEW mode \in Modes, Claim(w, t, mode) PROVE IssuedOK'
  <2>1. wk'[w] = Loaded(t, mode) /\ \A x \in Workers : x # w => wk'[x] = wk[x] BY <1>34 DEF Claim, WkTyped
  <2>2. UNCHANGED <<cp, issued>> BY <1>34 DEF Claim
  <2>3. /\ wk'[w].pc = EntryPc(t, mode) /\ wk'[w].task = t /\ wk'[w].asked = cp[t].asked
        /\ wk'[w].todo = cp[t].asked \ cp[t].done
    BY <2>1 DEF Loaded
  <2>4. wk'[w].pc \notin InCall BY <2>3, EntryOf DEF InCall
  <2>5. cp[t].asked \subseteq Calls BY DEF CpTyped, Checkpoints
  <2>6. WorkerIssued(w)' BY <2>2, <2>3, <2>4, <2>5 DEF WorkerIssued, IssuedOK
  <2>q. QED BY <2>1, <2>2, <2>6, IssuedKept
<1>35. ASSUME NEW w \in Workers, Answer(w) PROVE IssuedOK'
  <2>1. wk'[w] = [wk[w] EXCEPT !.pc = "claiming", !.cur = NoCall] /\ \A x \in Workers : x # w => wk'[x] = wk[x]
    BY <1>35 DEF Answer, WkTyped
  <2>2. wk[w] \in Memories /\ WorkerIssued(w) BY DEF WkTyped, IssuedOK
  <2>3. wk'[w].task = wk[w].task /\ wk'[w].asked = wk[w].asked /\ wk'[w].todo = wk[w].todo BY <2>1,
      <2>2 DEF Memories
  <2>4. wk'[w].pc = "claiming" BY <2>1, <2>2 DEF Memories
  <2>5. UNCHANGED issued BY <1>35 DEF Answer
  <2>6. WorkerIssued(w)' BY <2>2, <2>3, <2>4, <2>5 DEF WorkerIssued, InCall
  <2>7. ASSUME NEW u \in Tasks PROVE cp'[u].asked = cp[u].asked
    <3>1. cp[u] \in Checkpoints BY DEF CpTyped
    <3>2. \/ cp'[u] = cp[u]
          \/ cp'[u] = [cp[u] EXCEPT !.done = cp[u].done \cup {cp[u].wait}, !.wait = NoCall]
      BY <1>35 DEF Answer, CpTyped
    <3>q. QED BY <3>1, <3>2 DEF Checkpoints
  <2>q. QED BY <2>1, <2>5, <2>6, <2>7, IssuedKept
<1>36. ASSUME NEW t \in Tasks, NEW c \in Calls, Resolve(t, c) PROVE IssuedOK'
  <2>1. UNCHANGED <<wk, issued>> BY <1>36 DEF Resolve
  <2>2. ASSUME NEW u \in Tasks PROVE cp'[u].asked = cp[u].asked
    <3>1. cp[u] \in Checkpoints BY DEF CpTyped
    <3>2. cp'[u] = cp[u] \/ cp'[u] = [cp[u] EXCEPT !.done = cp[u].done \cup {c}]
      BY <1>36 DEF Resolve, CpTyped
    <3>q. QED BY <3>1, <3>2 DEF Checkpoints
  <2>q. QED BY <2>1, <2>2, IssuedKept
<1>37. ASSUME UNCHANGED <<wk, cp, issued>> PROVE IssuedOK'
  BY <1>37, IssuedKept
<1>38. ASSUME NEW w \in Workers, WorkerStep(w) \/ EntryStep(w) \/ Fault(w) PROVE IssuedOK'
  BY <1>38, <1>1, <1>2, <1>3, <1>4, <1>5, <1>6, <1>7, <1>8, <1>9, <1>10, <1>11, <1>12, <1>13, <1>14, <1>15,
      <1>16, <1>17, <1>18, <1>19, <1>20, <1>21, <1>22, <1>23, <1>24, <1>25, <1>26, <1>27, <1>28, <1>29, <1>30,
      <1>31, <1>32, <1>33, <1>34, <1>35 DEF WorkerStep, AgentStep, SkillAction, EndStep, EntryStep, Fault
<1>39. ASSUME NEW t \in Tasks, HumanStep(t) \/ ScanStep(t) \/ LeaseExpires(t) PROVE IssuedOK'
  BY <1>39, <1>37, <1>36 DEF HumanStep, ScanStep, LeaseExpires, Cancel, RetireExpiredWait, ClaimUncertain,
      MarkUncertain
<1>40. ASSUME CancelSession PROVE IssuedOK' BY <1>40, <1>37 DEF CancelSession
<1>q. QED BY <1>38, <1>39, <1>40 DEF Next

-----------------------------------------------------------------------------
(* The invariant. *)

\* An empty table satisfies the invariant.
LEMMA SafeInit == Init => SafeInv /\ IssuedOK
<1> SUFFICES ASSUME Init PROVE SafeInv /\ IssuedOK OBVIOUS
<1>1. ASSUME NEW w \in Workers
      PROVE  /\ wk[w].pc = "idle" /\ wk[w].task = NoTask /\ wk[w].token = 0
             /\ wk[w].asked = {} /\ wk[w].todo = {}
  BY DEF Init, Idle
<1>2. ASSUME NEW w \in Workers PROVE WorkerOK(w)
  BY <1>1, ConstantsAssumption DEF WorkerOK, Holds, AboutToRun, ActivePcs, AgentPcs, SkillPcs
<1>3. ASSUME NEW t \in Tasks PROVE StepsOK(t) /\ LeaseOK(t)
  <2>1. /\ task[t].phase = "model_pending" /\ task[t].lease = "null" /\ task[t].state = "absent"
        /\ task[t].owner = 0 /\ task[t].attempts = 0
    BY DEF Init, NoRow
  <2>2. \A s \in StepIds : step[t][s] = "none" /\ effects[t][s] = 0 BY DEF Init
  <2>q. QED BY <2>1, <2>2 DEF StepsOK, LeaseOK, SkillPhases, StepIds
<1>4. ASSUME NEW v \in Workers, NEW w \in Workers PROVE PairOK(v, w)
  BY <1>1 DEF PairOK, AboutToRun, ActivePcs, AgentPcs, SkillPcs
<1>5. IssuedOK
  <2>1. \A t \in Tasks : cp[t].asked = {} BY DEF Init, EmptyCheckpoint
  <2>q. QED BY <1>1, <2>1 DEF IssuedOK, WorkerIssued, InCall
<1>q. QED BY <1>2, <1>3, <1>4, <1>5 DEF SafeInv

\* Every action keeps the invariant: one case per action.
LEMMA SafeNext ==
  ASSUME SafeInv, IssuedOK, MemoryShape, Numbers, Numbers',
         TaskTyped, CpTyped, StepTyped, WkTyped, EffectsTyped, IssuedTyped, Next
  PROVE  SafeInv'
<1>t. ASSUME NEW w \in Workers, wk[w].pc \in ActivePcs \cup {"answering"} PROVE wk[w].task \in Tasks
  BY <1>t DEF SafeInv, WorkerOK, ActivePcs
<1>1. ASSUME NEW w \in Workers, ModelPending(w) PROVE SafeInv'
  <2>1. wk[w].task \in Tasks BY <1>t, <1>1 DEF ModelPending, ActivePcs, AgentPcs, SkillPcs, LoopHead
  <2>q. QED BY <1>1, <2>1, ModelPendingSafe
<1>2. ASSUME NEW w \in Workers, NEW cs \in SUBSET Calls, ModelReceived(w, cs) PROVE SafeInv'
  <2>1. wk[w].task \in Tasks BY <1>t, <1>2 DEF ModelReceived, ActivePcs, AgentPcs, SkillPcs
  <2>q. QED BY <1>2, <2>1, ModelReceivedSafe
<1>3. ASSUME NEW w \in Workers, NEW cs \in SUBSET Calls, ModelFeedback(w, cs) PROVE SafeInv'
  <2>1. wk[w].task \in Tasks BY <1>t, <1>3 DEF ModelFeedback, ActivePcs, AgentPcs, SkillPcs
  <2>q. QED BY <1>3, <2>1, ModelFeedbackSafe
<1>4. ASSUME NEW w \in Workers, NEW c \in Calls, ToolRefused(w, c) PROVE SafeInv'
  <2>1. wk[w].task \in Tasks BY <1>t, <1>4 DEF ToolRefused, ActivePcs, AgentPcs, SkillPcs, InBatch
  <2>q. QED BY <1>4, <2>1, ToolRefusedSafe
<1>5. ASSUME NEW w \in Workers, NEW c \in Calls, AskUser(w, c) PROVE SafeInv'
  <2>1. wk[w].task \in Tasks BY <1>t, <1>5 DEF AskUser, ActivePcs, AgentPcs, SkillPcs, InBatch
  <2>q. QED BY <1>5, <2>1, AskUserSafe
<1>6. ASSUME NEW w \in Workers, NEW c \in Calls, ToolStarted(w, c) PROVE SafeInv'
  <2>1. wk[w].task \in Tasks BY <1>t, <1>6 DEF ToolStarted, ActivePcs, AgentPcs, SkillPcs, InBatch
  <2>q. QED BY <1>6, <2>1, ToolStartedSafe
<1>7. ASSUME NEW w \in Workers, ExecuteTool(w) PROVE SafeInv'
  <2>1. wk[w].task \in Tasks BY <1>t, <1>7 DEF ExecuteTool, ActivePcs, AgentPcs, SkillPcs
  <2>q. QED BY <1>7, <2>1, ExecuteToolSafe
<1>8. ASSUME NEW w \in Workers, ReuseResult(w) PROVE SafeInv'
  <2>1. wk[w].task \in Tasks BY <1>t, <1>8 DEF ReuseResult, ActivePcs, AgentPcs, SkillPcs
  <2>q. QED BY <1>8, <2>1, ReuseResultSafe
<1>9. ASSUME NEW w \in Workers, NEW r \in Results, ToolDone(w, r) PROVE SafeInv'
  <2>1. wk[w].task \in Tasks BY <1>t, <1>9 DEF ToolDone, ActivePcs, AgentPcs, SkillPcs
  <2>q. QED BY <1>9, <2>1, ToolDoneSafe
<1>10. ASSUME NEW w \in Workers, NEW r \in Results, ToolObserved(w, r) PROVE SafeInv'
  <2>1. wk[w].task \in Tasks BY <1>t, <1>10 DEF ToolObserved, ActivePcs, AgentPcs, SkillPcs
  <2>q. QED BY <1>10, <2>1, ToolObservedSafe
<1>11. ASSUME NEW w \in Workers, Suspend(w) PROVE SafeInv'
  <2>1. wk[w].task \in Tasks BY <1>t, <1>11 DEF Suspend, ActivePcs, AgentPcs, SkillPcs
  <2>q. QED BY <1>11, <2>1, SuspendSafe
<1>12. ASSUME NEW w \in Workers, EvaluationPending(w) PROVE SafeInv'
  <2>1. wk[w].task \in Tasks BY <1>t, <1>12 DEF EvaluationPending, ActivePcs, AgentPcs, SkillPcs
  <2>q. QED BY <1>12, <2>1, EvaluationPendingSafe
<1>13. ASSUME NEW w \in Workers, NEW v \in Verdicts, EvaluationDone(w, v) PROVE SafeInv'
  <2>1. wk[w].task \in Tasks BY <1>t, <1>13 DEF EvaluationDone, ActivePcs, AgentPcs, SkillPcs
  <2>q. QED BY <1>13, <2>1, EvaluationDoneSafe
<1>14. ASSUME NEW w \in Workers, CriticRetry(w) PROVE SafeInv'
  <2>1. wk[w].task \in Tasks BY <1>t, <1>14 DEF CriticRetry, ActivePcs, AgentPcs, SkillPcs
  <2>q. QED BY <1>14, <2>1, CriticRetrySafe
<1>15. ASSUME NEW w \in Workers, SkillStarted(w) PROVE SafeInv'
  <2>1. wk[w].task \in Tasks BY <1>t, <1>15 DEF SkillStarted, ActivePcs, AgentPcs, SkillPcs
  <2>q. QED BY <1>15, <2>1, SkillStartedSafe
<1>16. ASSUME NEW w \in Workers, NEW r \in Results, RunSkill(w, r) PROVE SafeInv'
  <2>1. wk[w].task \in Tasks BY <1>t, <1>16 DEF RunSkill, ActivePcs, AgentPcs, SkillPcs
  <2>q. QED BY <1>16, <2>1, RunSkillSafe
<1>17. ASSUME NEW w \in Workers, SkillExecuted(w) PROVE SafeInv'
  <2>1. wk[w].task \in Tasks BY <1>t, <1>17 DEF SkillExecuted, ActivePcs, AgentPcs, SkillPcs
  <2>q. QED BY <1>17, <2>1, SkillExecutedSafe
<1>18. ASSUME NEW w \in Workers, NEW v \in Verdicts, SkillDone(w, v) PROVE SafeInv'
  <2>1. wk[w].task \in Tasks BY <1>t, <1>18 DEF SkillDone, ActivePcs, AgentPcs, SkillPcs
  <2>q. QED BY <1>18, <2>1, SkillDoneSafe
<1>19. ASSUME NEW w \in Workers, SetLost(w) PROVE SafeInv'
  <2>1. wk[w].task \in Tasks BY <1>t, <1>19 DEF SetLost, ActivePcs, AgentPcs, SkillPcs
  <2>q. QED BY <1>19, <2>1, SetLostSafe
<1>20. ASSUME NEW w \in Workers, Answer(w) PROVE SafeInv'
  <2>1. wk[w].task \in Tasks BY <1>t, <1>20 DEF Answer, ActivePcs, AgentPcs, SkillPcs
  <2>q. QED BY <1>20, <2>1, AnswerSafe
<1>21. ASSUME NEW w \in Workers, Conclude(w) PROVE SafeInv'
  <2>1. wk[w].pc \in ActivePcs BY <1>21 DEF Conclude, ActivePcs, AgentPcs, SkillPcs
  <2>2. wk' = [wk EXCEPT ![w] = Leaving(w, "finishing", IF wk[w].eval = "fail" THEN "failed" ELSE "completed")] /\ UNCHANGED <<task, cp, step, effects, issued>>
    BY <1>21 DEF Conclude, Finishing
  <2>3. Holds(w) => task[wk[w].task].phase \notin Started
    <3>1. wk[w].pc \in AgentPcs \ {"executing", "executed"} BY <1>21 DEF Conclude, AgentPcs
    <3>q. QED BY <3>1 DEF SafeInv, WorkerOK, Knows
  <2>q. QED BY <2>1, <2>2, <2>3, LeaveStep
<1>22. ASSUME NEW w \in Workers, LimitReached(w) PROVE SafeInv'
  <2>1. wk[w].pc \in ActivePcs BY <1>22 DEF LimitReached, ActivePcs, AgentPcs, SkillPcs, LoopHead
  <2>2. wk' = [wk EXCEPT ![w] = Leaving(w, "finishing", "failed")] /\ UNCHANGED <<task, cp, step, effects, issued>>
    BY <1>22 DEF LimitReached, Finishing
  <2>3. Holds(w) => task[wk[w].task].phase \notin Started
    <3>1. wk[w].pc \in AgentPcs \ {"executing", "executed"} BY <1>22 DEF LimitReached, LoopHead, AgentPcs
    <3>q. QED BY <3>1 DEF SafeInv, WorkerOK, Knows
  <2>q. QED BY <2>1, <2>2, <2>3, LeaveStep
<1>23. ASSUME NEW w \in Workers, NEW o, ReturnEarly(w, o) PROVE SafeInv'
  <2>1. wk[w].pc \in ActivePcs BY <1>23 DEF ReturnEarly, ActivePcs, AgentPcs, SkillPcs, LoopHead
  <2>2. wk' = [wk EXCEPT ![w] = Leaving(w, "finishing", o)] /\ UNCHANGED <<task, cp, step, effects, issued>>
    BY <1>23 DEF ReturnEarly, Finishing
  <2>3. Holds(w) => task[wk[w].task].phase \notin Started
    <3>1. wk[w].pc \in AgentPcs \ {"executing", "executed"} BY <1>23 DEF ReturnEarly, LoopHead, AgentPcs
    <3>q. QED BY <3>1 DEF SafeInv, WorkerOK, Knows
  <2>q. QED BY <2>1, <2>2, <2>3, LeaveStep
<1>24. ASSUME NEW w \in Workers, Stopped(w) PROVE SafeInv'
  <2>1. wk[w].pc \in ActivePcs BY <1>24 DEF Stopped, ActivePcs, AgentPcs, SkillPcs, LoopHead
  <2>2. wk' = [wk EXCEPT ![w] = Leaving(w, "finishing", "completed")] /\ UNCHANGED <<task, cp, step, effects, issued>>
    BY <1>24 DEF Stopped, Finishing
  <2>3. Holds(w) => task[wk[w].task].phase \notin Started
    <3>1. wk[w].pc \in AgentPcs \ {"executing", "executed"} BY <1>24 DEF Stopped, LoopHead, AgentPcs
    <3>q. QED BY <3>1 DEF SafeInv, WorkerOK, Knows
  <2>q. QED BY <2>1, <2>2, <2>3, LeaveStep
<1>25. ASSUME NEW w \in Workers, NEW o, Raise(w, o) PROVE SafeInv'
  <2>1. wk[w].pc \in ActivePcs BY <1>25 DEF Raise, ActivePcs, AgentPcs, SkillPcs, BudgetPcs
  <2>2. wk' = [wk EXCEPT ![w] = Leaving(w, "raising", o)] /\ UNCHANGED <<task, cp, step, effects, issued>>
    BY <1>25 DEF Raise, Finishing
  <2>q. QED BY <2>1, <2>2, LeaveStep
<1>26. ASSUME NEW w \in Workers, RaiseBusy(w) PROVE SafeInv'
  <2>1. wk[w].pc \in ActivePcs BY <1>26 DEF RaiseBusy, ActivePcs, AgentPcs, SkillPcs
  <2>2. wk' = [wk EXCEPT ![w] = Leaving(w, "raising", "none")] /\ UNCHANGED <<task, cp, step, effects, issued>>
    BY <1>26 DEF RaiseBusy, Finishing
  <2>q. QED BY <2>1, <2>2, LeaveStep
<1>27. ASSUME NEW w \in Workers, Finish(w) PROVE SafeInv'
  <2> DEFINE x == IF wk[w].lost = "yes" THEN "cancelled" ELSE wk[w].outcome
  <2>1. FinishRow(w, x) BY <1>27 DEF Finish
  <2>2. x \in States /\ (x = "suspended" => wk[w].pc = "suspending") BY <1>27 DEF States, Terminal, Finish,
      MemoryShape
  <2> HIDE DEF x
  <2>q. QED BY <2>1, <2>2, FinishStep
<1>28. ASSUME NEW w \in Workers, FinishSuspended(w) PROVE SafeInv'
  <2> DEFINE x == "suspended"
  <2>1. FinishRow(w, x) BY <1>28 DEF FinishSuspended
  <2>2. x \in States /\ (x = "suspended" => wk[w].pc = "suspending") BY <1>28 DEF States, Terminal, FinishSuspended
  <2> HIDE DEF x
  <2>q. QED BY <2>1, <2>2, FinishStep
<1>29. ASSUME NEW w \in Workers, HandleError(w) PROVE SafeInv'
  <2> DEFINE x == CASE task[wk[w].task].phase \in Started -> "uncertain"
                   [] task[wk[w].task].phase \notin Started /\ wk[w].outcome = "failed" -> "failed"
                   [] OTHER -> "pending"
  <2>1. FinishRow(w, x) BY <1>29 DEF HandleError
  <2>2. x \in States /\ (x = "suspended" => wk[w].pc = "suspending") BY <1>29 DEF States, Terminal, HandleError
  <2> HIDE DEF x
  <2>q. QED BY <2>1, <2>2, FinishStep
<1>30. ASSUME NEW w \in Workers, FinishRefused(w) PROVE SafeInv'
  BY <1>30, DropStep DEF FinishRefused
<1>31. ASSUME NEW w \in Workers, Crash(w) PROVE SafeInv'
  BY <1>31, DropStep DEF Crash
<1>32. ASSUME NEW w \in Workers, ClaimRefused(w) PROVE SafeInv'
  BY <1>32, DropStep DEF ClaimRefused
<1>33. ASSUME NEW w \in Workers, AnswerRefused(w) PROVE SafeInv'
  BY <1>33, DropStep DEF AnswerRefused
<1>34. ASSUME NEW w \in Workers, NEW t \in Tasks, ReadWait(w, t) PROVE SafeInv'
  BY <1>34, ReadWaitSafe
<1>35. ASSUME NEW w \in Workers, NEW t \in Tasks, NEW mode \in Modes, Claim(w, t, mode) PROVE SafeInv'
  BY <1>35, ClaimSafe
<1>36. ASSUME NEW w \in Workers, WorkerStep(w) \/ EntryStep(w) \/ Fault(w) PROVE SafeInv'
  BY <1>36, <1>1, <1>2, <1>3, <1>4, <1>5, <1>6, <1>7, <1>8, <1>9, <1>10, <1>11, <1>12, <1>13, <1>14, <1>15,
      <1>16, <1>17, <1>18, <1>19, <1>20, <1>21, <1>22, <1>23, <1>24, <1>25, <1>26, <1>27, <1>28, <1>29, <1>30,
      <1>31, <1>32, <1>33, <1>34, <1>35 DEF WorkerStep, AgentStep, SkillAction, EndStep, EntryStep, Fault
<1>37. ASSUME NEW t \in Tasks, HumanStep(t) \/ ScanStep(t) \/ LeaseExpires(t) PROVE SafeInv'
  BY <1>37, RowsSafe, ResolveSafe DEF HumanStep, ScanStep
<1>38. ASSUME CancelSession PROVE SafeInv' BY <1>38, RowsSafe
<1>q. QED BY <1>36, <1>37, <1>38 DEF Next

\* The whole inductive invariant.
Inv == TypeOK /\ MemoryShape /\ IssuedOK /\ SafeInv

\* The invariant is inductive.
LEMMA InvStep == Inv /\ [Next]_vars => Inv'
<1>1. ASSUME Inv, Next PROVE Inv'
  <2>1. TaskTyped /\ CpTyped /\ StepTyped /\ WkTyped /\ EffectsTyped /\ IssuedTyped /\ AnswersTyped
    BY <1>1 DEF Inv, TypeOK, TaskTyped, CpTyped, StepTyped, WkTyped, EffectsTyped, IssuedTyped, AnswersTyped
  <2>2. TypeOK' /\ MemoryShape' BY <1>1, <2>1, TypeNext DEF Inv
  <2>3. Numbers BY <1>1, NumbersTyped DEF Inv
  <2>4. Numbers'
    <3>1. \A t \in Tasks : task'[t].attempts \in Nat /\ task'[t].owner \in Nat BY <2>2 DEF TypeOK, Rows
    <3>2. \A w \in Workers : wk'[w].token \in Nat BY <2>2 DEF TypeOK, Memories
    <3>q. QED BY <3>1, <3>2 DEF Numbers
  <2>5. IssuedOK' BY <1>1, <2>1, IssuedNext DEF Inv
  <2>6. SafeInv' BY <1>1, <2>1, <2>3, <2>4, SafeNext DEF Inv
  <2>q. QED BY <2>2, <2>5, <2>6 DEF Inv
<1>2. ASSUME Inv, UNCHANGED vars PROVE Inv'
  <2>1. TypeOK' /\ MemoryShape' BY <1>2 DEF Inv, vars, TypeOK, MemoryShape
  <2>2. IssuedOK' BY <1>2 DEF Inv, vars, IssuedOK, WorkerIssued
  <2>3. ASSUME NEW w \in Workers PROVE WorkerOK(w)'
    BY <1>2 DEF Inv, vars, SafeInv, WorkerOK, Knows, Holds, AboutToRun
  <2>4. ASSUME NEW t \in Tasks PROVE StepsOK(t)' /\ LeaseOK(t)'
    BY <1>2 DEF Inv, vars, SafeInv, StepsOK, LeaseOK
  <2>5. ASSUME NEW v \in Workers, NEW w \in Workers PROVE PairOK(v, w)'
    BY <1>2 DEF Inv, vars, SafeInv, PairOK, AboutToRun
  <2>6. SafeInv' BY <2>3, <2>4, <2>5 DEF SafeInv
  <2>q. QED BY <2>1, <2>2, <2>6 DEF Inv
<1>q. QED BY <1>1, <1>2

\* The invariant holds of every behaviour: whatever order claims, checkpoints,
\* crashes and human commands come in, only the live lease's owner is ahead of
\* its row, and it knows by how much.
THEOREM Invariance == Spec => []Inv
<1>1. Init => Inv BY TypeInit, SafeInit DEF Inv
<1>q. QED BY <1>1, InvStep, PTL DEF Spec

-----------------------------------------------------------------------------
(* What the invariant gives. *)

\* A tool call or a skill is executed at most once, for any number of workers,
\* tasks and calls and any number of crashes, lease expiries and recoveries
\* (claim, checkpoint, mark_uncertain and resolve_uncertain of TaskStore, with
\* run_agent and durable_invoke as their callers).
THEOREM ExecutedAtMostOnce == Spec => []EffectAtMostOnce
<1>1. Inv => EffectAtMostOnce BY DEF Inv, SafeInv, StepsOK, EffectAtMostOnce
<1>q. QED BY <1>1, Invariance, PTL

\* The lease token fences: at any time at most one worker passes the test that
\* checkpoint and finish make of a row, and finish need not look at the state
\* column, because a live lease is a running row's (tasks.py).
THEOREM Fenced == Spec => []OneLeaseHolder
<1>1. Inv => OneLeaseHolder
  <2>1. ASSUME Inv, NEW t \in Tasks PROVE task[t].lease = "live" => task[t].state = "running"
    BY <2>1 DEF Inv, SafeInv, LeaseOK
  <2>q. QED BY <2>1, OnlyHolder DEF Inv, OneLeaseHolder
<1>q. QED BY <1>1, Invariance, PTL

\* The phase column and the step table agree, which resolve_uncertain and the
\* refusal of claim rely on.
THEOREM StepsMatchPhase == Spec => []RunningStepMatchesPhase
<1>1. Inv => RunningStepMatchesPhase
  <2> SUFFICES ASSUME Inv, NEW t \in Tasks
               PROVE  /\ \A r, s \in StepIds : step[t][r] = "running" /\ step[t][s] = "running" => r = s
                      /\ (task[t].phase \in Started) <=> (\E s \in StepIds : step[t][s] = "running")
    BY DEF RunningStepMatchesPhase
  <2>1. StepsOK(t) BY DEF Inv, SafeInv
  <2>q. QED BY <2>1 DEF StepsOK, Started, StepIds
<1>q. QED BY <1>1, Invariance, PTL

-----------------------------------------------------------------------------
(* A finished row is final. *)

Row(t) == <<task[t], cp[t], step[t]>>

\* A save is of a running task, so a finished task is not touched.
LEMMA SavedElsewhere ==
  ASSUME TaskTyped, CpTyped, NEW w \in Workers, NEW p, NEW d, Checkpoint(w, p, d),
         NEW t \in Tasks, task[t].state \in Terminal
  PROVE  t # wk[w].task /\ task'[t] = task[t] /\ cp'[t] = cp[t]
<1>1. t # wk[w].task BY DEF Checkpoint, Holds, Terminal
<1>q. QED BY <1>1 DEF Checkpoint, TaskTyped, CpTyped

\* The upsert of a step touches one task's row.
LEMMA UpsertElsewhere ==
  ASSUME StepTyped, NEW w \in Workers, NEW s, NEW x, StepUpsert(w, s, x),
         NEW t \in Tasks, t # wk[w].task
  PROVE  step'[t] = step[t]
BY DEF StepTyped, StepUpsert

\* finish is of a row with a lease, so a finished task is not touched.
LEMMA FinishElsewhere ==
  ASSUME SafeInv, TaskTyped, NEW w \in Workers, NEW x, FinishRow(w, x),
         NEW t \in Tasks, task[t].state \in Terminal
  PROVE  UNCHANGED Row(t)
<1>1. t # wk[w].task BY DEF FinishRow, MayFinish, SafeInv, LeaseOK, Terminal
<1>q. QED BY <1>1 DEF FinishRow, TaskTyped, Row

\* No action changes the state of a finished task.
LEMMA TerminalStep ==
  ASSUME SafeInv, TaskTyped, CpTyped, StepTyped, Next, NEW t \in Tasks, task[t].state \in Terminal
  PROVE  UNCHANGED Row(t)
<1>1. ASSUME NEW w \in Workers, ModelPending(w) PROVE UNCHANGED Row(t)
  BY <1>1, SavedElsewhere DEF ModelPending, Row
<1>2. ASSUME NEW w \in Workers, NEW cs \in SUBSET Calls, ModelReceived(w, cs) PROVE UNCHANGED Row(t)
  BY <1>2, SavedElsewhere DEF ModelReceived, Row
<1>3. ASSUME NEW w \in Workers, Suspend(w) PROVE UNCHANGED Row(t)
  BY <1>3, SavedElsewhere DEF Suspend, Row
<1>4. ASSUME NEW w \in Workers, EvaluationPending(w) PROVE UNCHANGED Row(t)
  BY <1>4, SavedElsewhere DEF EvaluationPending, Row
<1>5. ASSUME NEW w \in Workers, NEW v \in Verdicts, EvaluationDone(w, v) PROVE UNCHANGED Row(t)
  BY <1>5, SavedElsewhere DEF EvaluationDone, Row
<1>6. ASSUME NEW w \in Workers, CriticRetry(w) PROVE UNCHANGED Row(t)
  BY <1>6, SavedElsewhere DEF CriticRetry, Row
<1>7. ASSUME NEW w \in Workers, NEW c \in Calls, ToolRefused(w, c) PROVE UNCHANGED Row(t)
  BY <1>7, SavedElsewhere, UpsertElsewhere DEF ToolRefused, Row
<1>8. ASSUME NEW w \in Workers, NEW c \in Calls, ToolStarted(w, c) PROVE UNCHANGED Row(t)
  BY <1>8, SavedElsewhere, UpsertElsewhere DEF ToolStarted, Row
<1>9. ASSUME NEW w \in Workers, NEW r \in Results, ToolDone(w, r) PROVE UNCHANGED Row(t)
  BY <1>9, SavedElsewhere, UpsertElsewhere DEF ToolDone, Row
<1>10. ASSUME NEW w \in Workers, NEW r \in Results, ToolObserved(w, r) PROVE UNCHANGED Row(t)
  BY <1>10, SavedElsewhere, UpsertElsewhere DEF ToolObserved, Row
<1>11. ASSUME NEW w \in Workers, SkillStarted(w) PROVE UNCHANGED Row(t)
  BY <1>11, SavedElsewhere, UpsertElsewhere DEF SkillStarted, Row
<1>12. ASSUME NEW w \in Workers, SkillExecuted(w) PROVE UNCHANGED Row(t)
  BY <1>12, SavedElsewhere, UpsertElsewhere DEF SkillExecuted, Row
<1>13. ASSUME NEW w \in Workers, NEW v \in Verdicts, SkillDone(w, v) PROVE UNCHANGED Row(t)
  BY <1>13, SavedElsewhere, UpsertElsewhere DEF SkillDone, Row
<1>14. ASSUME NEW w \in Workers, NEW cs \in SUBSET Calls, ModelFeedback(w, cs) PROVE UNCHANGED Row(t)
  BY <1>14 DEF ModelFeedback, Finishing, Row
<1>15. ASSUME NEW w \in Workers, NEW c \in Calls, AskUser(w, c) PROVE UNCHANGED Row(t)
  BY <1>15 DEF AskUser, Finishing, Row
<1>16. ASSUME NEW w \in Workers, ExecuteTool(w) PROVE UNCHANGED Row(t)
  BY <1>16 DEF ExecuteTool, Finishing, Row
<1>17. ASSUME NEW w \in Workers, ReuseResult(w) PROVE UNCHANGED Row(t)
  BY <1>17 DEF ReuseResult, Finishing, Row
<1>18. ASSUME NEW w \in Workers, Conclude(w) PROVE UNCHANGED Row(t)
  BY <1>18 DEF Conclude, Finishing, Row
<1>19. ASSUME NEW w \in Workers, Stopped(w) PROVE UNCHANGED Row(t)
  BY <1>19 DEF Stopped, Finishing, Row
<1>20. ASSUME NEW w \in Workers, LimitReached(w) PROVE UNCHANGED Row(t)
  BY <1>20 DEF LimitReached, Finishing, Row
<1>21. ASSUME NEW w \in Workers, NEW o, ReturnEarly(w, o) PROVE UNCHANGED Row(t)
  BY <1>21 DEF ReturnEarly, Finishing, Row
<1>22. ASSUME NEW w \in Workers, NEW r \in Results, RunSkill(w, r) PROVE UNCHANGED Row(t)
  BY <1>22 DEF RunSkill, Finishing, Row
<1>23. ASSUME NEW w \in Workers, FinishRefused(w) PROVE UNCHANGED Row(t)
  BY <1>23 DEF FinishRefused, Finishing, Row
<1>24. ASSUME NEW w \in Workers, RaiseBusy(w) PROVE UNCHANGED Row(t)
  BY <1>24 DEF RaiseBusy, Finishing, Row
<1>25. ASSUME NEW w \in Workers, NEW u \in Tasks, ReadWait(w, u) PROVE UNCHANGED Row(t)
  BY <1>25 DEF ReadWait, Finishing, Row
<1>26. ASSUME NEW w \in Workers, ClaimRefused(w) PROVE UNCHANGED Row(t)
  BY <1>26 DEF ClaimRefused, Finishing, Row
<1>27. ASSUME NEW w \in Workers, AnswerRefused(w) PROVE UNCHANGED Row(t)
  BY <1>27 DEF AnswerRefused, Finishing, Row
<1>28. ASSUME NEW w \in Workers, NEW o, Raise(w, o) PROVE UNCHANGED Row(t)
  BY <1>28 DEF Raise, Finishing, Row
<1>29. ASSUME NEW w \in Workers, Crash(w) PROVE UNCHANGED Row(t)
  BY <1>29 DEF Crash, Finishing, Row
<1>30. ASSUME NEW w \in Workers, SetLost(w) PROVE UNCHANGED Row(t)
  BY <1>30 DEF SetLost, Finishing, Row
<1>31. ASSUME NEW w \in Workers, Finish(w) PROVE UNCHANGED Row(t)
  BY <1>31, FinishElsewhere DEF Finish
<1>32. ASSUME NEW w \in Workers, FinishSuspended(w) PROVE UNCHANGED Row(t)
  BY <1>32, FinishElsewhere DEF FinishSuspended
<1>33. ASSUME NEW w \in Workers, HandleError(w) PROVE UNCHANGED Row(t)
  BY <1>33, FinishElsewhere DEF HandleError
<1>34. ASSUME NEW w \in Workers, NEW u \in Tasks, NEW mode \in Modes, Claim(w, u, mode) PROVE UNCHANGED Row(t)
  <2>1. u # t BY <1>34 DEF Claim, Claimable, Terminal
  <2>q. QED BY <1>34, <2>1 DEF Claim, TaskTyped, Row
<1>35. ASSUME NEW w \in Workers, Answer(w) PROVE UNCHANGED Row(t)
  <2>1. wk[w].task # t BY <1>35 DEF Answer, Terminal
  <2>q. QED BY <1>35, <2>1 DEF Answer, TaskTyped, CpTyped, Row
<1>36. ASSUME NEW w \in Workers, WorkerStep(w) \/ EntryStep(w) \/ Fault(w) PROVE UNCHANGED Row(t)
  BY <1>36, <1>1, <1>2, <1>3, <1>4, <1>5, <1>6, <1>7, <1>8, <1>9, <1>10, <1>11, <1>12, <1>13, <1>14, <1>15,
      <1>16, <1>17, <1>18, <1>19, <1>20, <1>21, <1>22, <1>23, <1>24, <1>25, <1>26, <1>27, <1>28, <1>29, <1>30,
      <1>31, <1>32, <1>33, <1>34, <1>35 DEF WorkerStep, AgentStep, SkillAction, EndStep, EntryStep, Fault
<1>37. ASSUME NEW u \in Tasks, NEW c \in Calls, Resolve(u, c) PROVE UNCHANGED Row(t)
  <2>1. u # t BY <1>37 DEF Resolve, Terminal
  <2>q. QED BY <1>37, <2>1 DEF Resolve, TaskTyped, CpTyped, StepTyped, Row
<1>38. ASSUME NEW u \in Tasks, Cancel(u) PROVE UNCHANGED Row(t)
  <2>1. u # t BY <1>38 DEF Cancel, Terminal
  <2>q. QED BY <1>38, <2>1 DEF Cancel, TaskTyped, Row
<1>39. ASSUME NEW u \in Tasks, NEW i \in Tasks \cup {NoTask}, RetireExpiredWait(u, i) PROVE UNCHANGED Row(t)
  <2>1. u # t BY <1>39 DEF RetireExpiredWait, Terminal
  <2>q. QED BY <1>39, <2>1 DEF RetireExpiredWait, TaskTyped, Row
<1>40. ASSUME NEW u \in Tasks, ClaimUncertain(u) PROVE UNCHANGED Row(t)
  <2>1. u # t BY <1>40 DEF ClaimUncertain, Terminal
  <2>q. QED BY <1>40, <2>1 DEF ClaimUncertain, TaskTyped, Row
<1>41. ASSUME NEW u \in Tasks, MarkUncertain(u) PROVE UNCHANGED Row(t)
  <2>1. u # t BY <1>41 DEF MarkUncertain, Terminal
  <2>q. QED BY <1>41, <2>1 DEF MarkUncertain, TaskTyped, Row
<1>42. ASSUME NEW u \in Tasks, LeaseExpires(u) PROVE UNCHANGED Row(t)
  <2>1. u # t BY <1>42 DEF LeaseExpires, SafeInv, LeaseOK, Terminal
  <2>q. QED BY <1>42, <2>1 DEF LeaseExpires, TaskTyped, Row
<1>43. ASSUME CancelSession PROVE UNCHANGED Row(t)
  BY <1>43 DEF CancelSession, Row
<1>q. QED BY <1>36, <1>37, <1>38, <1>39, <1>40, <1>41, <1>42, <1>43 DEF Next, HumanStep, ScanStep

\* A completed, failed or cancelled task is never touched again: not by a late
\* checkpoint or finish of the worker that lost it, not by a claim, an answer,
\* a resolution, /clear or the recovery scan.
THEOREM FinishedIsFinal == Spec => TerminalIsFinal
<1>1. Inv /\ [Next]_vars => [\A t \in Tasks : task[t].state \in Terminal =>
         /\ task'[t] = task[t] /\ cp'[t] = cp[t] /\ step'[t] = step[t]]_vars
  <2>1. ASSUME Inv, Next, NEW t \in Tasks, task[t].state \in Terminal PROVE UNCHANGED Row(t)
    <3>1. SafeInv /\ TaskTyped /\ CpTyped /\ StepTyped
      BY <2>1 DEF Inv, TypeOK, TaskTyped, CpTyped, StepTyped
    <3>q. QED BY <2>1, <3>1, TerminalStep
  <2>q. QED BY <2>1 DEF Row
<1>q. QED BY <1>1, Invariance, PTL DEF Spec, TerminalIsFinal

-----------------------------------------------------------------------------
(* What a question and a verdict rest on. *)

\* A remembered question is an issued call that is neither answered nor left to
\* run; what a worker has to do and what it has results for are apart; and the
\* holder of a row in the middle of a batch has put an earlier verdict aside.
AsksOK(w) ==
  /\ wk[w].ask # NoCall => /\ wk[w].pc \in {"tools"} \cup InCall
                           /\ wk[w].ask \in AskCalls /\ wk[w].ask \in wk[w].asked
                           /\ wk[w].ask \notin wk[w].done /\ wk[w].ask \notin wk[w].todo
  /\ \A c \in wk[w].todo : c \notin wk[w].done
  /\ wk[w].pc \in InCall => wk[w].cur \notin AskCalls
  /\ wk[w].task \in Tasks => wk[w].done \subseteq issued[wk[w].task]
  /\ Holds(w) => /\ wk[w].pc \in {"calling", "tools"} \cup InCall => task[wk[w].task].phase # "evaluation_done"
                 /\ wk[w].pc = "observed" => step[wk[w].task][wk[w].cur] = OutcomeOf(wk[w].result)

\* A row that waits names an open question; a verdict is stored only with the
\* phases that judge; only calls of the model have results; and a row counts as
\* verified with the verdict its checkpoint holds.
RowOK(t) ==
  /\ task[t].phase = "waiting_user" => cp[t].wait \in cp[t].asked \ cp[t].done
  /\ cp[t].eval # "none" => task[t].phase \in {"evaluation_done", "skill_done"}
  /\ cp[t].done \subseteq issued[t]
  /\ task[t].verification = "verified_completed" => task[t].state = "completed" /\ cp[t].eval = "verified"

DataInv == (\A w \in Workers : AsksOK(w)) /\ (\A t \in Tasks : RowOK(t))

\* A worker that does not move keeps its part when its row gives it no new right.
LEMMA AskerRests ==
  ASSUME NEW v \in Workers, AsksOK(v), wk'[v] = wk[v],
         \A u \in Tasks : issued[u] \subseteq issued'[u],
         Holds(v)' => /\ Holds(v)
                      /\ task'[wk[v].task].phase = task[wk[v].task].phase
                      /\ step'[wk[v].task] = step[wk[v].task]
  PROVE  AsksOK(v)'
<1>1. Holds(v)' => /\ wk'[v].pc \in {"calling", "tools"} \cup InCall => task'[wk'[v].task].phase # "evaluation_done"
                   /\ wk'[v].pc = "observed" => step'[wk'[v].task][wk'[v].cur] = OutcomeOf(wk'[v].result)
  BY DEF AsksOK, OutcomeOf
<1>2. wk'[v].task \in Tasks => wk'[v].done \subseteq issued'[wk'[v].task] BY DEF AsksOK
<1>q. QED BY <1>1, <1>2 DEF AsksOK

\* A worker outside the batch keeps no question and no calls.
LEMMA AskerEmpty ==
  ASSUME NEW w \in Workers, wk'[w].ask = NoCall, wk'[w].todo = {}, wk'[w].done = {},
         wk'[w].pc \notin {"calling", "tools"} \cup InCall
  PROVE  AsksOK(w)'
BY DEF AsksOK, InCall

\* The parts of a memory that is left behind, and of a fresh one.
LEMMA LeftEmpty ==
  ASSUME NEW w \in Workers, NEW p \in {"finishing", "raising", "suspending"}, NEW o
  PROVE  /\ Leaving(w, p, o).ask = NoCall /\ Leaving(w, p, o).todo = {} /\ Leaving(w, p, o).done = {}
         /\ Leaving(w, p, o).pc \notin {"calling", "tools"} \cup InCall
BY DEF Leaving, Idle, InCall

\* An idle worker keeps nothing.
LEMMA IdleAsks == /\ Idle.ask = NoCall /\ Idle.todo = {} /\ Idle.done = {}
                  /\ Idle.pc \notin {"calling", "tools"} \cup InCall
BY DEF Idle, InCall

\* Rows move on or lose their owner; their checkpoints and steps stay.
LEMMA RowsData ==
  ASSUME DataInv, UNCHANGED <<cp, step, issued>>,
         \A v \in Workers : wk'[v] = wk[v] \/ AsksOK(v)',
         \A u \in Tasks : \/ task'[u] = task[u]
                          \/ /\ task'[u].lease # "live" \/ task'[u].state # "running"
                             /\ task'[u].phase = task[u].phase
                             /\ task'[u].verification = "verified_completed" =>
                                  task'[u].state = "completed" /\ cp[u].eval = "verified"
  PROVE  DataInv'
<1>1. ASSUME NEW v \in Workers, wk'[v] = wk[v] PROVE AsksOK(v)'
  <2>1. ASSUME Holds(v)' PROVE Holds(v) /\ task'[wk[v].task] = task[wk[v].task]
    BY <1>1, <2>1 DEF Holds
  <2>q. QED BY <1>1, <2>1, AskerRests DEF DataInv
<1>2. ASSUME NEW u \in Tasks PROVE RowOK(u)'
  <2>1. RowOK(u) BY DEF DataInv
  <2>q. QED BY <2>1 DEF RowOK
<1>q. QED BY <1>1, <1>2 DEF DataInv

\* Only one worker's memory moves, and perhaps the calls the model has issued.
LEMMA MemoryData ==
  ASSUME DataInv, NEW w \in Workers, UNCHANGED <<task, cp, step>>, Others(w),
         \A u \in Tasks : issued[u] \subseteq issued'[u], AsksOK(w)'
  PROVE  DataInv'
<1>1. ASSUME NEW v \in Workers, v # w PROVE AsksOK(v)'
  <2>1. wk'[v] = wk[v] BY <1>1 DEF Others
  <2>2. Holds(v)' => Holds(v) BY <2>1 DEF Holds
  <2>q. QED BY <2>1, <2>2, AskerRests DEF DataInv
<1>2. ASSUME NEW u \in Tasks PROVE RowOK(u)'
  <2>1. RowOK(u) /\ issued[u] \subseteq issued'[u] BY DEF DataInv
  <2>q. QED BY <2>1 DEF RowOK
<1>q. QED BY <1>1, <1>2 DEF DataInv

\* The holder saves its row.
LEMMA SavedData ==
  ASSUME DataInv, SafeInv, NEW w \in Workers, NEW t \in Tasks, t = wk[w].task, Saves(w), Others(w),
         task'[t].verification = task[t].verification,
         task'[t].phase = "waiting_user" => cp'[t].wait \in cp'[t].asked \ cp'[t].done,
         cp'[t].eval # "none" => task'[t].phase \in {"evaluation_done", "skill_done"},
         cp'[t].done \subseteq issued'[t], AsksOK(w)'
  PROVE  DataInv'
<1>1. ASSUME NEW v \in Workers, v # w PROVE AsksOK(v)'
  <2>1. wk'[v] = wk[v] BY <1>1 DEF Others
  <2>2. ASSUME Holds(v)'
        PROVE  /\ Holds(v) /\ task'[wk[v].task].phase = task[wk[v].task].phase
               /\ step'[wk[v].task] = step[wk[v].task]
    <3>1. CASE wk[v].task = t
      <4>1. Holds(v) BY <2>1, <2>2, <3>1 DEF Holds, Saves
      <4>q. QED BY <1>1, <3>1, <4>1, OnlyHolder DEF Saves
    <3>2. CASE wk[v].task # t
      <4>1. wk[v].task \in Tasks BY <2>1, <2>2 DEF Holds
      <4>2. task'[wk[v].task] = task[wk[v].task] /\ step'[wk[v].task] = step[wk[v].task]
        BY <3>2, <4>1 DEF Saves
      <4>q. QED BY <2>1, <2>2, <4>2 DEF Holds
    <3>q. QED BY <3>1, <3>2
  <2>q. QED BY <2>1, <2>2, AskerRests DEF DataInv, Saves
<1>2. RowOK(t)'
  <2>1. RowOK(t) /\ task[t].state = "running" BY DEF DataInv, Saves, Holds
  <2>2. task[t].verification # "verified_completed" BY <2>1 DEF RowOK
  <2>q. QED BY <2>2 DEF RowOK
<1>3. ASSUME NEW u \in Tasks, u # t PROVE RowOK(u)'
  <2>1. RowOK(u) /\ task'[u] = task[u] /\ cp'[u] = cp[u] /\ issued[u] \subseteq issued'[u]
    BY <1>3 DEF DataInv, Saves
  <2>q. QED BY <2>1 DEF RowOK
<1>q. QED BY <1>1, <1>2, <1>3 DEF DataInv

\* A checkpoint leaves the verification column alone.
LEMMA SavedVerification ==
  ASSUME TaskTyped, NEW w \in Workers, NEW t \in Tasks, t = wk[w].task,
         NEW p, NEW d, Checkpoint(w, p, d)
  PROVE  task'[t].verification = task[t].verification
<1>1. task'[t] = [task[t] EXCEPT !.phase = p] BY DEF Checkpoint, TaskTyped
<1>2. task[t] \in Rows BY DEF TaskTyped
<1>q. QED BY <1>1, <1>2 DEF Rows

\* What run_agent saves drops an earlier verdict.
LEMMA SavedEval ==
  ASSUME NEW w \in Workers, NEW a, NEW d, NEW x, NEW y
  PROVE  /\ Messages(w, a, d).eval = "none"
         /\ Saved(w).eval = "none"
         /\ [Saved(w) EXCEPT !.iter = x].eval = "none"
         /\ [Saved(w) EXCEPT !.retries = x].eval = "none"
         /\ [Saved(w) EXCEPT !.skill = x].eval = "none"
BY DEF Saved, Messages, EmptyCheckpoint


\* finish: the row goes back, and it counts as verified only for its stored verdict.
LEMMA FinishData ==
  ASSUME DataInv, TaskTyped, WkTyped, NEW w \in Workers, NEW x, FinishRow(w, x)
  PROVE  DataInv'
<1>1. PICK t \in Tasks : t = wk[w].task BY DEF FinishRow, MayFinish
<1>2. PICK y : y = Verification(t, x) OBVIOUS
<1>3. task' = [task EXCEPT ![t] = [task[t] EXCEPT !.state = x, !.reply = "text", !.verification = y,
                                                  !.owner = 0, !.lease = "null"]]
  BY <1>1, <1>2 DEF FinishRow
<1>4. task[t] \in Rows BY DEF TaskTyped
<1>5. task'[t] = [task[t] EXCEPT !.state = x, !.reply = "text", !.verification = y, !.owner = 0, !.lease = "null"]
  BY <1>3 DEF TaskTyped
<1>6. /\ task'[t].lease = "null" /\ task'[t].phase = task[t].phase
      /\ task'[t].state = x /\ task'[t].verification = y
  BY <1>4, <1>5 DEF Rows
<1>7. y = "verified_completed" => x = "completed" /\ cp[t].eval = "verified" BY <1>2 DEF Verification
<1>8. wk'[w] = Idle /\ \A v \in Workers : v # w => wk'[v] = wk[v] BY DEF FinishRow, WkTyped
<1>9. AsksOK(w)' BY <1>8, IdleAsks, AskerEmpty
<1>10. \A u \in Tasks : u # t => task'[u] = task[u] BY <1>3 DEF TaskTyped
<1>11. UNCHANGED <<cp, step, issued>> BY DEF FinishRow
<1>q. QED BY <1>6, <1>7, <1>8, <1>9, <1>10, <1>11, RowsData

\* A claimed invocation starts with the checkpoint's calls and no question.
LEMMA ClaimData ==
  ASSUME DataInv, SafeInv, Numbers, TaskTyped, WkTyped,
         NEW w \in Workers, NEW t \in Tasks, NEW mode \in Modes, Claim(w, t, mode)
  PROVE  DataInv'
<1>1. PICK n : n = task[t].attempts + 1 OBVIOUS
<1>2. PICK rec : task' = [task EXCEPT ![t] = [task[t] EXCEPT !.state = "running", !.owner = n, !.lease = "live",
                                                           !.attempts = n, !.recoveries = rec]]
  BY <1>1 DEF Claim, NewToken
<1>3. task[t] \in Rows /\ task[t].attempts \in Nat BY DEF TaskTyped, Rows
<1>4. task'[t] = [task[t] EXCEPT !.state = "running", !.owner = n, !.lease = "live",
                                 !.attempts = n, !.recoveries = rec]
  BY <1>2 DEF TaskTyped
<1>5. /\ task'[t].owner = n /\ task'[t].phase = task[t].phase
      /\ task'[t].verification = task[t].verification
  BY <1>3, <1>4 DEF Rows
<1>6. \A u \in Tasks : u # t => task'[u] = task[u] BY <1>2 DEF TaskTyped
<1>7. UNCHANGED <<cp, step, issued>> BY DEF Claim
<1>8. wk'[w] = Loaded(t, mode) /\ Others(w) BY DEF Claim, WkTyped, Others
<1>9. /\ wk'[w].pc = EntryPc(t, mode) /\ wk'[w].task = t /\ wk'[w].ask = NoCall
      /\ wk'[w].done = cp[t].done /\ wk'[w].todo = cp[t].asked \ cp[t].done
  BY <1>8 DEF Loaded
<1>10. ASSUME NEW v \in Workers, v # w PROVE AsksOK(v)'
  <2>1. wk'[v] = wk[v] /\ WorkerOK(v) BY <1>8, <1>10 DEF Others, SafeInv
  <2>2. ASSUME Holds(v)' PROVE Holds(v) /\ task'[wk[v].task].phase = task[wk[v].task].phase
    <3>1. wk[v].task \in Tasks BY <2>1, <2>2 DEF Holds
    <3>2. CASE wk[v].task = t
      <4>1. wk[v].token = n BY <1>5, <2>1, <2>2, <3>2 DEF Holds
      <4>2. wk[v].token = 0 \/ wk[v].token <= task[t].attempts BY <2>1, <3>2 DEF WorkerOK
      <4>q. QED BY <1>1, <1>3, <4>1, <4>2
    <3>3. CASE wk[v].task # t BY <1>6, <2>1, <2>2, <3>1, <3>3 DEF Holds
    <3>q. QED BY <3>2, <3>3
  <2>q. QED BY <1>7, <2>1, <2>2, AskerRests DEF DataInv
<1>11. AsksOK(w)'
  <2>1. RowOK(t) BY DEF DataInv
  <2>2. wk'[w].pc \notin {"calling"} \cup InCall BY <1>9, EntryOf DEF InCall
  <2>3. wk'[w].pc = "tools" => task[t].phase # "evaluation_done"
    BY <1>9, EntryOf DEF EntryPc, ResumePc, Modes
  <2>q. QED BY <1>5, <1>7, <1>9, <2>1, <2>2, <2>3 DEF AsksOK, RowOK, InCall
<1>12. ASSUME NEW u \in Tasks PROVE RowOK(u)'
  <2>1. RowOK(u) BY DEF DataInv
  <2>2. task[t].state # "completed" BY DEF Claim, Claimable
  <2>3. CASE u = t BY <1>5, <1>7, <2>1, <2>2, <2>3 DEF RowOK
  <2>4. CASE u # t BY <1>6, <1>7, <2>1, <2>4 DEF RowOK
  <2>q. QED BY <2>3, <2>4
<1>q. QED BY <1>10, <1>11, <1>12 DEF DataInv

\* A row that is answered or resolved by a human: a call of the model gets its
\* result, the question is gone and no verdict is left.
LEMMA HumanResult ==
  ASSUME DataInv, NEW t \in Tasks, NEW c, c \in issued[t], issued' = issued,
         \A v \in Workers : wk'[v] = wk[v] \/ AsksOK(v)',
         \A u \in Tasks : u # t => task'[u] = task[u] /\ cp'[u] = cp[u] /\ step'[u] = step[u],
         task'[t].state = "pending", task'[t].phase = "tool_done",
         task'[t].verification = task[t].verification, task[t].state # "completed",
         cp'[t].done = cp[t].done \cup {c}, cp'[t].eval = cp[t].eval,
         task[t].phase \notin {"evaluation_done", "skill_done"}
  PROVE  DataInv'
<1>1. ASSUME NEW v \in Workers, wk'[v] = wk[v] PROVE AsksOK(v)'
  <2>1. ASSUME Holds(v)'
        PROVE  /\ Holds(v) /\ task'[wk[v].task] = task[wk[v].task] /\ step'[wk[v].task] = step[wk[v].task]
    <3>1. wk[v].task \in Tasks /\ wk[v].task # t BY <1>1, <2>1 DEF Holds
    <3>2. task'[wk[v].task] = task[wk[v].task] /\ step'[wk[v].task] = step[wk[v].task] BY <3>1
    <3>q. QED BY <1>1, <2>1, <3>2 DEF Holds
  <2>q. QED BY <1>1, <2>1, AskerRests DEF DataInv
<1>2. ASSUME NEW u \in Tasks PROVE RowOK(u)'
  <2>1. RowOK(u) BY DEF DataInv
  <2>2. CASE u = t BY <2>1, <2>2 DEF RowOK
  <2>3. CASE u # t BY <2>1, <2>3 DEF RowOK
  <2>q. QED BY <2>2, <2>3
<1>q. QED BY <1>1, <1>2 DEF DataInv

\* TaskStore.answer.
LEMMA AnswerData ==
  ASSUME DataInv, SafeInv, IssuedOK, TaskTyped, CpTyped, WkTyped, NEW w \in Workers, Answer(w)
  PROVE  DataInv'
<1>0. PICK t \in Tasks : t = wk[w].task BY DEF Answer, SafeInv, WorkerOK
<1>1. task' = [task EXCEPT ![t] = [task[t] EXCEPT !.state = "pending", !.phase = "tool_done", !.reply = "null"]]
  BY <1>0 DEF Answer
<1>2. task[t] \in Rows BY DEF TaskTyped
<1>3. task'[t] = [task[t] EXCEPT !.state = "pending", !.phase = "tool_done", !.reply = "null"]
  BY <1>1 DEF TaskTyped
<1>4. /\ task'[t].state = "pending" /\ task'[t].phase = "tool_done"
      /\ task'[t].verification = task[t].verification
  BY <1>2, <1>3 DEF Rows
<1>5. cp'[t] = [cp[t] EXCEPT !.done = @ \cup {cp[t].wait}, !.wait = NoCall] BY <1>0 DEF Answer, CpTyped
<1>6. cp[t] \in Checkpoints BY DEF CpTyped
<1>7. cp'[t].done = cp[t].done \cup {cp[t].wait} /\ cp'[t].eval = cp[t].eval
  BY <1>5, <1>6 DEF Checkpoints
<1>8. \A u \in Tasks : u # t => task'[u] = task[u] /\ cp'[u] = cp[u] BY <1>0, <1>1 DEF Answer, TaskTyped, CpTyped
<1>9. step' = step /\ issued' = issued BY DEF Answer
<1>10. task[t].state = "suspended" /\ task[t].phase = "waiting_user"
  <2>1. task[t].state = "suspended" BY <1>0 DEF Answer
  <2>q. QED BY <2>1 DEF SafeInv, LeaseOK
<1>11. cp[t].wait \in issued[t]
  <2>1. RowOK(t) /\ cp[t].asked \subseteq issued[t] BY DEF DataInv, IssuedOK
  <2>q. QED BY <1>10, <2>1 DEF RowOK
<1>12. wk'[w] = [wk[w] EXCEPT !.pc = "claiming", !.cur = NoCall] /\ \A v \in Workers : v # w => wk'[v] = wk[v]
  BY DEF Answer, WkTyped
<1>13. wk[w] \in Memories BY DEF WkTyped
<1>14. /\ wk'[w].pc = "claiming" /\ wk'[w].ask = wk[w].ask /\ wk'[w].todo = wk[w].todo
       /\ wk'[w].done = wk[w].done /\ wk'[w].task = wk[w].task
  BY <1>12, <1>13 DEF Memories
<1>15. AsksOK(w)'
  <2>1. AsksOK(w) /\ wk[w].pc = "answering" BY DEF DataInv, Answer
  <2>q. QED BY <1>9, <1>14, <2>1 DEF AsksOK, InCall
<1>16. \A v \in Workers : wk'[v] = wk[v] \/ AsksOK(v)' BY <1>12, <1>15
<1>q. QED BY <1>4, <1>7, <1>8, <1>9, <1>10, <1>11, <1>16, HumanResult

\* resolve_uncertain.
LEMMA ResolveData ==
  ASSUME DataInv, SafeInv, TaskTyped, CpTyped, StepTyped, NEW t \in Tasks, NEW c \in Calls, Resolve(t, c)
  PROVE  DataInv'
<1>1. task' = [task EXCEPT ![t] = [task[t] EXCEPT !.state = "pending", !.phase = "tool_done", !.owner = 0, !.lease = "null"]]
  BY DEF Resolve
<1>2. task[t] \in Rows BY DEF TaskTyped
<1>3. task'[t] = [task[t] EXCEPT !.state = "pending", !.phase = "tool_done", !.owner = 0, !.lease = "null"]
  BY <1>1 DEF TaskTyped
<1>4. /\ task'[t].state = "pending" /\ task'[t].phase = "tool_done"
      /\ task'[t].verification = task[t].verification
  BY <1>2, <1>3 DEF Rows
<1>5. \A u \in Tasks : u # t => task'[u] = task[u] /\ cp'[u] = cp[u] /\ step'[u] = step[u]
  BY <1>1 DEF Resolve, TaskTyped, CpTyped, StepTyped
<1>6. cp'[t] = [cp[t] EXCEPT !.done = @ \cup {c}] /\ cp[t] \in Checkpoints BY DEF Resolve, CpTyped
<1>7. cp'[t].done = cp[t].done \cup {c} /\ cp'[t].eval = cp[t].eval BY <1>6 DEF Checkpoints
<1>8. wk' = wk /\ issued' = issued BY DEF Resolve
<1>9. task[t].state = "uncertain" /\ task[t].phase = "tool_started" /\ step[t][c] = "running" BY DEF Resolve
<1>10. c \in issued[t] BY <1>9 DEF SafeInv, StepsOK
<1>q. QED BY <1>4, <1>5, <1>7, <1>8, <1>9, <1>10, HumanResult

\* Cancellation, time and the recovery scan take rows away and judge nothing.
LEMMA HumanData ==
  ASSUME DataInv, SafeInv, TaskTyped,
         \/ \E t \in Tasks : \/ Cancel(t) \/ LeaseExpires(t) \/ ClaimUncertain(t) \/ MarkUncertain(t)
                             \/ \E i \in Tasks \cup {NoTask} : RetireExpiredWait(t, i)
         \/ CancelSession
  PROVE  DataInv'
<1> DEFINE Gone(u) == /\ task'[u].lease # "live" \/ task'[u].state # "running"
                      /\ task'[u].phase = task[u].phase /\ task'[u].verification = task[u].verification
                      /\ task[u].state # "completed"
<1>1. UNCHANGED <<cp, step, issued, wk>>
  BY DEF Cancel, LeaseExpires, ClaimUncertain, MarkUncertain, RetireExpiredWait, CancelSession
<1>c. ASSUME NEW row \in Rows
      PROVE  /\ Cancelled(row).state = "cancelled" /\ Cancelled(row).phase = row.phase
             /\ Cancelled(row).verification = row.verification
  BY DEF Cancelled, Rows
<1>2. ASSUME NEW t \in Tasks, task' = [task EXCEPT ![t] = Cancelled(@)], task[t].state # "completed"
      PROVE  \A u \in Tasks : task'[u] = task[u] \/ Gone(u)
  <2>1. task'[t] = Cancelled(task[t]) /\ task[t] \in Rows BY <1>2 DEF TaskTyped
  <2>2. Gone(t) BY <1>2, <1>c, <2>1
  <2>q. QED BY <1>2, <2>2 DEF TaskTyped
<1>3. ASSUME NEW t \in Tasks, LeaseExpires(t) PROVE \A u \in Tasks : task'[u] = task[u] \/ Gone(u)
  <2>1. task'[t] = [task[t] EXCEPT !.lease = "expired"] /\ task[t] \in Rows BY <1>3 DEF LeaseExpires, TaskTyped
  <2>2. /\ task'[t].lease = "expired" /\ task'[t].phase = task[t].phase
        /\ task'[t].verification = task[t].verification
    BY <2>1 DEF Rows
  <2>3. task[t].state # "completed" BY <1>3 DEF LeaseExpires, SafeInv, LeaseOK
  <2>4. Gone(t) BY <2>2, <2>3
  <2>q. QED BY <1>3, <2>4 DEF LeaseExpires, TaskTyped
<1>4. ASSUME NEW t \in Tasks, ClaimUncertain(t) PROVE \A u \in Tasks : task'[u] = task[u] \/ Gone(u)
  <2>1. task'[t] = [task[t] EXCEPT !.state = "uncertain"] /\ task[t] \in Rows BY <1>4 DEF ClaimUncertain, TaskTyped
  <2>2. /\ task'[t].state = "uncertain" /\ task'[t].phase = task[t].phase
        /\ task'[t].verification = task[t].verification
    BY <2>1 DEF Rows
  <2>3. task[t].state # "completed" BY <1>4 DEF ClaimUncertain, Terminal
  <2>4. Gone(t) BY <2>2, <2>3
  <2>q. QED BY <1>4, <2>4 DEF ClaimUncertain, TaskTyped
<1>5. ASSUME NEW t \in Tasks, MarkUncertain(t) PROVE \A u \in Tasks : task'[u] = task[u] \/ Gone(u)
  <2>1. task'[t] = [task[t] EXCEPT !.state = "uncertain", !.owner = 0, !.lease = "null"] /\ task[t] \in Rows
    BY <1>5 DEF MarkUncertain, TaskTyped
  <2>2. /\ task'[t].lease = "null" /\ task'[t].phase = task[t].phase
        /\ task'[t].verification = task[t].verification
    BY <2>1 DEF Rows
  <2>3. task[t].state # "completed" BY <1>5 DEF MarkUncertain
  <2>4. Gone(t) BY <2>2, <2>3
  <2>q. QED BY <1>5, <2>4 DEF MarkUncertain, TaskTyped
<1>6. ASSUME CancelSession, NEW u \in Tasks PROVE task'[u] = task[u] \/ Gone(u)
  <2>1. task'[u] = task[u] \/ (task'[u] = Cancelled(task[u]) /\ task[u].state # "completed")
    BY <1>6 DEF CancelSession, Terminal
  <2>2. task[u] \in Rows BY DEF TaskTyped
  <2>q. QED BY <1>c, <2>1, <2>2
<1>7. \A t \in Tasks : Cancel(t) \/ (\E i \in Tasks \cup {NoTask} : RetireExpiredWait(t, i)) =>
        task' = [task EXCEPT ![t] = Cancelled(@)] /\ task[t].state # "completed"
  BY DEF Cancel, RetireExpiredWait, Terminal
<1>8. \A u \in Tasks : task'[u] = task[u] \/ Gone(u)
  BY <1>2, <1>3, <1>4, <1>5, <1>6, <1>7
<1>9. ASSUME NEW u \in Tasks, Gone(u)
      PROVE  task'[u].verification = "verified_completed" => task'[u].state = "completed" /\ cp[u].eval = "verified"
  <2>1. RowOK(u) BY DEF DataInv
  <2>q. QED BY <1>9, <2>1 DEF RowOK
<1>10. \A u \in Tasks : \/ task'[u] = task[u]
                        \/ /\ task'[u].lease # "live" \/ task'[u].state # "running"
                           /\ task'[u].phase = task[u].phase
                           /\ task'[u].verification = "verified_completed" =>
                                task'[u].state = "completed" /\ cp[u].eval = "verified"
  BY <1>8, <1>9
<1>q. QED BY <1>1, <1>10, RowsData


\* One step of any worker, human or scan, action by action.
LEMMA DataNext ==
  ASSUME DataInv, SafeInv, IssuedOK, MemoryShape, Numbers,
         TaskTyped, CpTyped, StepTyped, WkTyped, IssuedTyped, Next
  PROVE  DataInv'

<1>1. ASSUME NEW w \in Workers, ModelPending(w) PROVE DataInv'
  <2>1. Checkpoint(w, "model_pending", [Saved(w) EXCEPT !.iter = @ + 1]) BY <1>1 DEF ModelPending
  <2>2. Holds(w) BY <2>1 DEF Checkpoint
  <2>3. PICK t \in Tasks : t = wk[w].task BY <2>2 DEF Holds
  <2>4. wk'[w] = [wk[w] EXCEPT !.pc = "calling", !.iter = wk[w].iter + 1, !.resume = IF wk[w].pc = "model" THEN wk[w].resume ELSE "no"] /\ Others(w)
    BY <1>1 DEF ModelPending, WkTyped, Others
  <2>5. wk[w] \in Memories BY DEF WkTyped
  <2>6. /\ wk'[w].task = wk[w].task /\ wk'[w].token = wk[w].token /\ wk'[w].asked = wk[w].asked
        /\ wk'[w].done = wk[w].done /\ wk'[w].todo = wk[w].todo /\ wk'[w].cur = wk[w].cur
        /\ wk'[w].ask = wk[w].ask /\ wk'[w].result = wk[w].result
    BY <2>4, <2>5 DEF Memories
  <2>7. wk'[w].pc = "calling" BY <2>4, <2>5 DEF Memories
  <2>8. \A u \in Tasks : issued[u] \subseteq issued'[u] BY <1>1 DEF ModelPending, IssuedTyped
  <2>9. step' = step BY <1>1 DEF ModelPending
  <2>e. effects' = effects BY <1>1 DEF ModelPending
  <2>10. Saves(w) /\ task'[t].phase = "model_pending" /\ cp'[t] = [Saved(w) EXCEPT !.iter = @ + 1]
    BY <2>1, <2>2, <2>3, <2>e, <2>8, <2>9, CheckpointRow DEF Saves
  <2>11. cp'[t].done = wk[w].done BY <2>10, SavedDone
  <2>12. cp'[t].eval = "none" BY <2>10, SavedEval
  <2>13. AsksOK(w) /\ WorkerIssued(w) BY DEF DataInv, IssuedOK
  <2>14. cp'[t].done \subseteq issued'[t]
    BY <1>1, <2>3, <2>11, <2>8, <2>13 DEF ModelPending, AsksOK, WorkerIssued, LoopHead
  <2>g. wk[w].pc = "model" \/ (wk[w].pc = "tools" /\ wk[w].ask = NoCall) BY <1>1, <2>3 DEF ModelPending, LoopHead
  <2>15. AsksOK(w)'
    BY <2>g, <2>2, <2>3, <2>6, <2>7, <2>8, <2>9, <2>10, <2>13 DEF AsksOK, WorkerIssued, InCall
  <2>16. task'[t].verification = task[t].verification BY <2>1, <2>3, SavedVerification
  <2>q. QED BY <2>3, <2>4, <2>10, <2>12, <2>14, <2>15, <2>16, SavedData
<1>2. ASSUME NEW w \in Workers, NEW cs \in SUBSET Calls, ModelReceived(w, cs) PROVE DataInv'
  <2>1. Checkpoint(w, "model_received", Messages(w, cs, wk[w].done)) BY <1>2 DEF ModelReceived
  <2>2. Holds(w) BY <2>1 DEF Checkpoint
  <2>3. PICK t \in Tasks : t = wk[w].task BY <2>2 DEF Holds
  <2>4. wk'[w] = [wk[w] EXCEPT !.pc = IF cs = {} THEN "final" ELSE "tools", !.asked = cs, !.todo = cs] /\ Others(w)
    BY <1>2 DEF ModelReceived, WkTyped, Others
  <2>5. wk[w] \in Memories BY DEF WkTyped
  <2>6. /\ wk'[w].task = wk[w].task /\ wk'[w].token = wk[w].token /\ wk'[w].done = wk[w].done
        /\ wk'[w].cur = wk[w].cur /\ wk'[w].ask = wk[w].ask /\ wk'[w].result = wk[w].result
    BY <2>4, <2>5 DEF Memories
  <2>7. wk'[w].pc = (IF cs = {} THEN "final" ELSE "tools") BY <2>4, <2>5 DEF Memories
  <2>8. wk'[w].asked = cs BY <2>4, <2>5 DEF Memories
  <2>9. wk'[w].todo = cs BY <2>4, <2>5 DEF Memories
  <2>10. \A u \in Tasks : issued[u] \subseteq issued'[u] BY <1>2 DEF ModelReceived, IssuedTyped
  <2>11. step' = step BY <1>2 DEF ModelReceived
  <2>e. effects' = effects BY <1>2 DEF ModelReceived
  <2>12. Saves(w) /\ task'[t].phase = "model_received" /\ cp'[t] = Messages(w, cs, wk[w].done)
    BY <2>1, <2>2, <2>3, <2>e, <2>10, <2>11, CheckpointRow DEF Saves
  <2>13. cp'[t].done = wk[w].done BY <2>12, SavedDone
  <2>14. cp'[t].eval = "none" BY <2>12, SavedEval
  <2>15. AsksOK(w) /\ WorkerIssued(w) BY DEF DataInv, IssuedOK
  <2>16. cp'[t].done \subseteq issued'[t]
    BY <1>2, <2>3, <2>13, <2>10, <2>15 DEF ModelReceived, AsksOK, WorkerIssued, FreshCalls
  <2>g. wk[w].pc = "calling" /\ (\A c \in cs : c \notin issued[t]) /\ issued'[t] = issued[t] \cup cs BY <1>2, <2>3 DEF ModelReceived, FreshCalls, IssuedTyped
  <2>17. AsksOK(w)'
    BY <2>g, <2>2, <2>3, <2>6, <2>7, <2>8, <2>9, <2>10, <2>11, <2>12, <2>15 DEF AsksOK, WorkerIssued, InCall
  <2>18. task'[t].verification = task[t].verification BY <2>1, <2>3, SavedVerification
  <2>q. QED BY <2>3, <2>4, <2>12, <2>14, <2>16, <2>17, <2>18, SavedData
<1>3. ASSUME NEW w \in Workers, NEW c \in Calls, ToolRefused(w, c) PROVE DataInv'
  <2>1. Checkpoint(w, "tool_done", Messages(w, wk[w].asked, wk[w].done \cup {c})) BY <1>3 DEF ToolRefused
  <2>2. Holds(w) BY <2>1 DEF Checkpoint
  <2>3. PICK t \in Tasks : t = wk[w].task BY <2>2 DEF Holds
  <2>4. wk'[w] = [wk[w] EXCEPT !.todo = wk[w].todo \ {c}, !.done = wk[w].done \cup {c}] /\ Others(w)
    BY <1>3 DEF ToolRefused, WkTyped, Others
  <2>5. wk[w] \in Memories BY DEF WkTyped
  <2>6. /\ wk'[w].pc = wk[w].pc /\ wk'[w].task = wk[w].task /\ wk'[w].token = wk[w].token
        /\ wk'[w].asked = wk[w].asked /\ wk'[w].cur = wk[w].cur /\ wk'[w].ask = wk[w].ask
        /\ wk'[w].result = wk[w].result
    BY <2>4, <2>5 DEF Memories
  <2>7. wk'[w].done = wk[w].done \cup {c} BY <2>4, <2>5 DEF Memories
  <2>8. wk'[w].todo = wk[w].todo \ {c} BY <2>4, <2>5 DEF Memories
  <2>9. \A u \in Tasks : issued[u] \subseteq issued'[u] BY <1>3 DEF ToolRefused, IssuedTyped
  <2>10. c \in StepIds BY DEF StepIds
  <2>11. StepUpsert(w, c, "failed") BY <1>3 DEF ToolRefused
  <2>12. step'[t][c] = "failed" /\ \A u \in Tasks : u # t => step'[u] = step[u]
    BY <2>3, <2>10, <2>11, UpsertRow
  <2>e. effects' = effects BY <1>3 DEF ToolRefused
  <2>13. Saves(w) /\ task'[t].phase = "tool_done" /\ cp'[t] = Messages(w, wk[w].asked, wk[w].done \cup {c})
    BY <2>1, <2>2, <2>3, <2>e, <2>9, <2>12, CheckpointRow DEF Saves
  <2>14. cp'[t].done = wk[w].done \cup {c} BY <2>13, SavedDone
  <2>15. cp'[t].eval = "none" BY <2>13, SavedEval
  <2>16. AsksOK(w) /\ WorkerIssued(w) BY DEF DataInv, IssuedOK
  <2>17. cp'[t].done \subseteq issued'[t]
    BY <1>3, <2>3, <2>14, <2>9, <2>16 DEF ToolRefused, AsksOK, WorkerIssued, InBatch
  <2>g. wk[w].pc = "tools" /\ c \in wk[w].todo BY <1>3, <2>3 DEF ToolRefused, InBatch
  <2>18. AsksOK(w)'
    BY <2>g, <2>2, <2>3, <2>6, <2>7, <2>8, <2>9, <2>10, <2>12, <2>13, <2>16 DEF AsksOK, WorkerIssued, InCall
  <2>19. task'[t].verification = task[t].verification BY <2>1, <2>3, SavedVerification
  <2>q. QED BY <2>3, <2>4, <2>13, <2>15, <2>17, <2>18, <2>19, SavedData
<1>4. ASSUME NEW w \in Workers, NEW c \in Calls, ToolStarted(w, c) PROVE DataInv'
  <2>1. Checkpoint(w, "tool_started", Saved(w)) BY <1>4 DEF ToolStarted
  <2>2. Holds(w) BY <2>1 DEF Checkpoint
  <2>3. PICK t \in Tasks : t = wk[w].task BY <2>2 DEF Holds
  <2>4. wk'[w] = [wk[w] EXCEPT !.pc = "executing", !.cur = c] /\ Others(w)
    BY <1>4 DEF ToolStarted, WkTyped, Others
  <2>5. wk[w] \in Memories BY DEF WkTyped
  <2>6. /\ wk'[w].task = wk[w].task /\ wk'[w].token = wk[w].token /\ wk'[w].asked = wk[w].asked
        /\ wk'[w].done = wk[w].done /\ wk'[w].todo = wk[w].todo /\ wk'[w].ask = wk[w].ask
        /\ wk'[w].result = wk[w].result
    BY <2>4, <2>5 DEF Memories
  <2>7. wk'[w].pc = "executing" BY <2>4, <2>5 DEF Memories
  <2>8. wk'[w].cur = c BY <2>4, <2>5 DEF Memories
  <2>9. \A u \in Tasks : issued[u] \subseteq issued'[u] BY <1>4 DEF ToolStarted, IssuedTyped
  <2>10. c \in StepIds BY DEF StepIds
  <2>11. StepUpsert(w, c, "running") BY <1>4 DEF ToolStarted
  <2>12. step'[t][c] = "running" /\ \A u \in Tasks : u # t => step'[u] = step[u]
    BY <2>3, <2>10, <2>11, UpsertRow
  <2>e. effects' = effects BY <1>4 DEF ToolStarted
  <2>13. Saves(w) /\ task'[t].phase = "tool_started" /\ cp'[t] = Saved(w)
    BY <2>1, <2>2, <2>3, <2>e, <2>9, <2>12, CheckpointRow DEF Saves
  <2>14. cp'[t].done = wk[w].done BY <2>13, SavedDone
  <2>15. cp'[t].eval = "none" BY <2>13, SavedEval
  <2>16. AsksOK(w) /\ WorkerIssued(w) BY DEF DataInv, IssuedOK
  <2>17. cp'[t].done \subseteq issued'[t]
    BY <1>4, <2>3, <2>14, <2>9, <2>16 DEF ToolStarted, AsksOK, WorkerIssued, InBatch
  <2>g. wk[w].pc = "tools" /\ c \in wk[w].todo /\ c \notin AskCalls BY <1>4, <2>3 DEF ToolStarted, InBatch
  <2>18. AsksOK(w)'
    BY <2>g, <2>2, <2>3, <2>6, <2>7, <2>8, <2>9, <2>10, <2>12, <2>13, <2>16 DEF AsksOK, WorkerIssued, InCall
  <2>19. task'[t].verification = task[t].verification BY <2>1, <2>3, SavedVerification
  <2>q. QED BY <2>3, <2>4, <2>13, <2>15, <2>17, <2>18, <2>19, SavedData
<1>5. ASSUME NEW w \in Workers, NEW r \in Results, ToolDone(w, r) PROVE DataInv'
  <2>1. Checkpoint(w, "tool_done", Messages(w, wk[w].asked, wk[w].done \cup {wk[w].cur})) BY <1>5 DEF ToolDone
  <2>2. Holds(w) BY <2>1 DEF Checkpoint
  <2>3. PICK t \in Tasks : t = wk[w].task BY <2>2 DEF Holds
  <2>4. wk'[w] = [wk[w] EXCEPT !.pc = "observed", !.result = r] /\ Others(w)
    BY <1>5 DEF ToolDone, WkTyped, Others
  <2>5. wk[w] \in Memories BY DEF WkTyped
  <2>6. /\ wk'[w].task = wk[w].task /\ wk'[w].token = wk[w].token /\ wk'[w].asked = wk[w].asked
        /\ wk'[w].done = wk[w].done /\ wk'[w].todo = wk[w].todo /\ wk'[w].cur = wk[w].cur
        /\ wk'[w].ask = wk[w].ask
    BY <2>4, <2>5 DEF Memories
  <2>7. wk'[w].pc = "observed" BY <2>4, <2>5 DEF Memories
  <2>8. wk'[w].result = r BY <2>4, <2>5 DEF Memories
  <2>9. \A u \in Tasks : issued[u] \subseteq issued'[u] BY <1>5 DEF ToolDone, IssuedTyped
  <2>10. wk[w].cur \in StepIds /\ wk[w].cur \in wk[w].asked BY <1>5 DEF ToolDone, StepIds, MemoryShape, InCall, IssuedOK, WorkerIssued
  <2>11. StepUpsert(w, wk[w].cur, OutcomeOf(r)) BY <1>5 DEF ToolDone
  <2>12. step'[t][wk[w].cur] = OutcomeOf(r) /\ \A u \in Tasks : u # t => step'[u] = step[u]
    BY <2>3, <2>10, <2>11, UpsertRow
  <2>e. effects' = effects BY <1>5 DEF ToolDone
  <2>13. Saves(w) /\ task'[t].phase = "tool_done" /\ cp'[t] = Messages(w, wk[w].asked, wk[w].done \cup {wk[w].cur})
    BY <2>1, <2>2, <2>3, <2>e, <2>9, <2>12, CheckpointRow DEF Saves
  <2>14. cp'[t].done = wk[w].done \cup {wk[w].cur} BY <2>13, SavedDone
  <2>15. cp'[t].eval = "none" BY <2>13, SavedEval
  <2>16. AsksOK(w) /\ WorkerIssued(w) BY DEF DataInv, IssuedOK
  <2>17. cp'[t].done \subseteq issued'[t]
    BY <1>5, <2>3, <2>14, <2>9, <2>16, <2>10 DEF ToolDone, AsksOK, WorkerIssued
  <2>g. wk[w].pc = "executed" BY <1>5, <2>3 DEF ToolDone
  <2>18. AsksOK(w)'
    BY <2>g, <2>2, <2>3, <2>6, <2>7, <2>8, <2>9, <2>10, <2>12, <2>13, <2>16 DEF AsksOK, WorkerIssued, InCall
  <2>19. task'[t].verification = task[t].verification BY <2>1, <2>3, SavedVerification
  <2>q. QED BY <2>3, <2>4, <2>13, <2>15, <2>17, <2>18, <2>19, SavedData
<1>6. ASSUME NEW w \in Workers, NEW r \in Results, ToolObserved(w, r) PROVE DataInv'
  <2>1. Checkpoint(w, "tool_done", Messages(w, wk[w].asked, wk[w].done \cup {wk[w].cur})) BY <1>6 DEF ToolObserved
  <2>2. Holds(w) BY <2>1 DEF Checkpoint
  <2>3. PICK t \in Tasks : t = wk[w].task BY <2>2 DEF Holds
  <2>4. wk'[w] = [wk[w] EXCEPT !.pc = "tools", !.cur = NoCall, !.result = "none", !.todo = wk[w].todo \ {wk[w].cur}, !.done = wk[w].done \cup {wk[w].cur}] /\ Others(w)
    BY <1>6 DEF ToolObserved, WkTyped, Others
  <2>5. wk[w] \in Memories BY DEF WkTyped
  <2>6. wk'[w].task = wk[w].task /\ wk'[w].token = wk[w].token /\ wk'[w].asked = wk[w].asked /\ wk'[w].ask = wk[w].ask
    BY <2>4, <2>5 DEF Memories
  <2>7. wk'[w].pc = "tools" BY <2>4, <2>5 DEF Memories
  <2>8. wk'[w].done = wk[w].done \cup {wk[w].cur} BY <2>4, <2>5 DEF Memories
  <2>9. wk'[w].todo = wk[w].todo \ {wk[w].cur} BY <2>4, <2>5 DEF Memories
  <2>10. wk'[w].cur = NoCall BY <2>4, <2>5 DEF Memories
  <2>11. wk'[w].result = "none" BY <2>4, <2>5 DEF Memories
  <2>12. \A u \in Tasks : issued[u] \subseteq issued'[u] BY <1>6 DEF ToolObserved, IssuedTyped
  <2>13. wk[w].cur \in StepIds /\ wk[w].cur \in wk[w].asked BY <1>6 DEF ToolObserved, StepIds, MemoryShape, InCall, IssuedOK, WorkerIssued
  <2>14. StepUpsert(w, wk[w].cur, (IF wk[w].result = "success" THEN OutcomeOf(r) ELSE "failed")) BY <1>6 DEF ToolObserved
  <2>15. step'[t][wk[w].cur] = (IF wk[w].result = "success" THEN OutcomeOf(r) ELSE "failed") /\ \A u \in Tasks : u # t => step'[u] = step[u]
    BY <2>3, <2>13, <2>14, UpsertRow
  <2>e. effects' = effects BY <1>6 DEF ToolObserved
  <2>16. Saves(w) /\ task'[t].phase = "tool_done" /\ cp'[t] = Messages(w, wk[w].asked, wk[w].done \cup {wk[w].cur})
    BY <2>1, <2>2, <2>3, <2>e, <2>12, <2>15, CheckpointRow DEF Saves
  <2>17. cp'[t].done = wk[w].done \cup {wk[w].cur} BY <2>16, SavedDone
  <2>18. cp'[t].eval = "none" BY <2>16, SavedEval
  <2>19. AsksOK(w) /\ WorkerIssued(w) BY DEF DataInv, IssuedOK
  <2>20. cp'[t].done \subseteq issued'[t]
    BY <1>6, <2>3, <2>17, <2>12, <2>19, <2>13 DEF ToolObserved, AsksOK, WorkerIssued
  <2>g. wk[w].pc = "observed" BY <1>6, <2>3 DEF ToolObserved
  <2>21. AsksOK(w)'
    BY <2>g, <2>2, <2>3, <2>6, <2>7, <2>8, <2>9, <2>10, <2>11, <2>12, <2>13, <2>15, <2>16, <2>19 DEF AsksOK, WorkerIssued, InCall
  <2>22. task'[t].verification = task[t].verification BY <2>1, <2>3, SavedVerification
  <2>q. QED BY <2>3, <2>4, <2>16, <2>18, <2>20, <2>21, <2>22, SavedData
<1>7. ASSUME NEW w \in Workers, EvaluationPending(w) PROVE DataInv'
  <2>1. Checkpoint(w, "evaluation_pending", Saved(w)) BY <1>7 DEF EvaluationPending
  <2>2. Holds(w) BY <2>1 DEF Checkpoint
  <2>3. PICK t \in Tasks : t = wk[w].task BY <2>2 DEF Holds
  <2>4. wk'[w] = [wk[w] EXCEPT !.pc = "judging"] /\ Others(w)
    BY <1>7 DEF EvaluationPending, WkTyped, Others
  <2>5. wk[w] \in Memories BY DEF WkTyped
  <2>6. /\ wk'[w].task = wk[w].task /\ wk'[w].token = wk[w].token /\ wk'[w].asked = wk[w].asked
        /\ wk'[w].done = wk[w].done /\ wk'[w].todo = wk[w].todo /\ wk'[w].cur = wk[w].cur
        /\ wk'[w].ask = wk[w].ask /\ wk'[w].result = wk[w].result
    BY <2>4, <2>5 DEF Memories
  <2>7. wk'[w].pc = "judging" BY <2>4, <2>5 DEF Memories
  <2>8. \A u \in Tasks : issued[u] \subseteq issued'[u] BY <1>7 DEF EvaluationPending, IssuedTyped
  <2>9. step' = step BY <1>7 DEF EvaluationPending
  <2>e. effects' = effects BY <1>7 DEF EvaluationPending
  <2>10. Saves(w) /\ task'[t].phase = "evaluation_pending" /\ cp'[t] = Saved(w)
    BY <2>1, <2>2, <2>3, <2>e, <2>8, <2>9, CheckpointRow DEF Saves
  <2>11. cp'[t].done = wk[w].done BY <2>10, SavedDone
  <2>12. cp'[t].eval = "none" BY <2>10, SavedEval
  <2>13. AsksOK(w) /\ WorkerIssued(w) BY DEF DataInv, IssuedOK
  <2>14. cp'[t].done \subseteq issued'[t]
    BY <1>7, <2>3, <2>11, <2>8, <2>13 DEF EvaluationPending, AsksOK, WorkerIssued
  <2>g. wk[w].pc = "final" BY <1>7, <2>3 DEF EvaluationPending
  <2>15. AsksOK(w)'
    BY <2>g, <2>2, <2>3, <2>6, <2>7, <2>8, <2>9, <2>10, <2>13 DEF AsksOK, WorkerIssued, InCall
  <2>16. task'[t].verification = task[t].verification BY <2>1, <2>3, SavedVerification
  <2>q. QED BY <2>3, <2>4, <2>10, <2>12, <2>14, <2>15, <2>16, SavedData
<1>8. ASSUME NEW w \in Workers, NEW v \in Verdicts, EvaluationDone(w, v) PROVE DataInv'
  <2>1. Checkpoint(w, "evaluation_done", [Saved(w) EXCEPT !.eval = v]) BY <1>8 DEF EvaluationDone
  <2>2. Holds(w) BY <2>1 DEF Checkpoint
  <2>3. PICK t \in Tasks : t = wk[w].task BY <2>2 DEF Holds
  <2>4. wk'[w] = [wk[w] EXCEPT !.pc = "verdict", !.eval = v, !.resume = "no"] /\ Others(w)
    BY <1>8 DEF EvaluationDone, WkTyped, Others
  <2>5. wk[w] \in Memories BY DEF WkTyped
  <2>6. /\ wk'[w].task = wk[w].task /\ wk'[w].token = wk[w].token /\ wk'[w].asked = wk[w].asked
        /\ wk'[w].done = wk[w].done /\ wk'[w].todo = wk[w].todo /\ wk'[w].cur = wk[w].cur
        /\ wk'[w].ask = wk[w].ask /\ wk'[w].result = wk[w].result
    BY <2>4, <2>5 DEF Memories
  <2>7. wk'[w].pc = "verdict" BY <2>4, <2>5 DEF Memories
  <2>8. \A u \in Tasks : issued[u] \subseteq issued'[u] BY <1>8 DEF EvaluationDone, IssuedTyped
  <2>9. step' = step BY <1>8 DEF EvaluationDone
  <2>e. effects' = effects BY <1>8 DEF EvaluationDone
  <2>10. Saves(w) /\ task'[t].phase = "evaluation_done" /\ cp'[t] = [Saved(w) EXCEPT !.eval = v]
    BY <2>1, <2>2, <2>3, <2>e, <2>8, <2>9, CheckpointRow DEF Saves
  <2>11. cp'[t].done = wk[w].done BY <2>10, SavedDone
  <2>12. cp'[t].eval # "none" => task'[t].phase = "evaluation_done" BY <2>10
  <2>13. AsksOK(w) /\ WorkerIssued(w) BY DEF DataInv, IssuedOK
  <2>14. cp'[t].done \subseteq issued'[t]
    BY <1>8, <2>3, <2>11, <2>8, <2>13 DEF EvaluationDone, AsksOK, WorkerIssued
  <2>g. wk[w].pc \in {"judging", "final"} BY <1>8, <2>3 DEF EvaluationDone
  <2>15. AsksOK(w)'
    BY <2>g, <2>2, <2>3, <2>6, <2>7, <2>8, <2>9, <2>10, <2>13 DEF AsksOK, WorkerIssued, InCall
  <2>16. task'[t].verification = task[t].verification BY <2>1, <2>3, SavedVerification
  <2>q. QED BY <2>3, <2>4, <2>10, <2>12, <2>14, <2>15, <2>16, SavedData
<1>9. ASSUME NEW w \in Workers, CriticRetry(w) PROVE DataInv'
  <2>1. Checkpoint(w, "model_pending", [Saved(w) EXCEPT !.retries = @ + 1]) BY <1>9 DEF CriticRetry
  <2>2. Holds(w) BY <2>1 DEF Checkpoint
  <2>3. PICK t \in Tasks : t = wk[w].task BY <2>2 DEF Holds
  <2>4. wk'[w] = [wk[w] EXCEPT !.pc = "model", !.retries = wk[w].retries + 1, !.eval = "none"] /\ Others(w)
    BY <1>9 DEF CriticRetry, WkTyped, Others
  <2>5. wk[w] \in Memories BY DEF WkTyped
  <2>6. /\ wk'[w].task = wk[w].task /\ wk'[w].token = wk[w].token /\ wk'[w].asked = wk[w].asked
        /\ wk'[w].done = wk[w].done /\ wk'[w].todo = wk[w].todo /\ wk'[w].cur = wk[w].cur
        /\ wk'[w].ask = wk[w].ask /\ wk'[w].result = wk[w].result
    BY <2>4, <2>5 DEF Memories
  <2>7. wk'[w].pc = "model" BY <2>4, <2>5 DEF Memories
  <2>8. \A u \in Tasks : issued[u] \subseteq issued'[u] BY <1>9 DEF CriticRetry, IssuedTyped
  <2>9. step' = step BY <1>9 DEF CriticRetry
  <2>e. effects' = effects BY <1>9 DEF CriticRetry
  <2>10. Saves(w) /\ task'[t].phase = "model_pending" /\ cp'[t] = [Saved(w) EXCEPT !.retries = @ + 1]
    BY <2>1, <2>2, <2>3, <2>e, <2>8, <2>9, CheckpointRow DEF Saves
  <2>11. cp'[t].done = wk[w].done BY <2>10, SavedDone
  <2>12. cp'[t].eval = "none" BY <2>10, SavedEval
  <2>13. AsksOK(w) /\ WorkerIssued(w) BY DEF DataInv, IssuedOK
  <2>14. cp'[t].done \subseteq issued'[t]
    BY <1>9, <2>3, <2>11, <2>8, <2>13 DEF CriticRetry, AsksOK, WorkerIssued
  <2>g. wk[w].pc = "verdict" BY <1>9, <2>3 DEF CriticRetry
  <2>15. AsksOK(w)'
    BY <2>g, <2>2, <2>3, <2>6, <2>7, <2>8, <2>9, <2>10, <2>13 DEF AsksOK, WorkerIssued, InCall
  <2>16. task'[t].verification = task[t].verification BY <2>1, <2>3, SavedVerification
  <2>q. QED BY <2>3, <2>4, <2>10, <2>12, <2>14, <2>15, <2>16, SavedData
<1>10. ASSUME NEW w \in Workers, SkillStarted(w) PROVE DataInv'
  <2>1. Checkpoint(w, "skill_started", Saved(w)) BY <1>10 DEF SkillStarted
  <2>2. Holds(w) BY <2>1 DEF Checkpoint
  <2>3. PICK t \in Tasks : t = wk[w].task BY <2>2 DEF Holds
  <2>4. wk'[w] = [wk[w] EXCEPT !.pc = "skill_run", !.cur = SkillStep] /\ Others(w)
    BY <1>10 DEF SkillStarted, WkTyped, Others
  <2>5. wk[w] \in Memories BY DEF WkTyped
  <2>6. /\ wk'[w].task = wk[w].task /\ wk'[w].token = wk[w].token /\ wk'[w].asked = wk[w].asked
        /\ wk'[w].done = wk[w].done /\ wk'[w].todo = wk[w].todo /\ wk'[w].ask = wk[w].ask
        /\ wk'[w].result = wk[w].result
    BY <2>4, <2>5 DEF Memories
  <2>7. wk'[w].pc = "skill_run" BY <2>4, <2>5 DEF Memories
  <2>8. wk'[w].cur = SkillStep BY <2>4, <2>5 DEF Memories
  <2>9. \A u \in Tasks : issued[u] \subseteq issued'[u] BY <1>10 DEF SkillStarted, IssuedTyped
  <2>10. SkillStep \in StepIds BY DEF StepIds
  <2>11. StepUpsert(w, SkillStep, "running") BY <1>10 DEF SkillStarted
  <2>12. step'[t][SkillStep] = "running" /\ \A u \in Tasks : u # t => step'[u] = step[u]
    BY <2>3, <2>10, <2>11, UpsertRow
  <2>e. effects' = effects BY <1>10 DEF SkillStarted
  <2>13. Saves(w) /\ task'[t].phase = "skill_started" /\ cp'[t] = Saved(w)
    BY <2>1, <2>2, <2>3, <2>e, <2>9, <2>12, CheckpointRow DEF Saves
  <2>14. cp'[t].done = wk[w].done BY <2>13, SavedDone
  <2>15. cp'[t].eval = "none" BY <2>13, SavedEval
  <2>16. AsksOK(w) /\ WorkerIssued(w) BY DEF DataInv, IssuedOK
  <2>17. cp'[t].done \subseteq issued'[t]
    BY <1>10, <2>3, <2>14, <2>9, <2>16 DEF SkillStarted, AsksOK, WorkerIssued
  <2>g. wk[w].pc = "skill_start" BY <1>10, <2>3 DEF SkillStarted
  <2>18. AsksOK(w)'
    BY <2>g, <2>2, <2>3, <2>6, <2>7, <2>8, <2>9, <2>10, <2>12, <2>13, <2>16 DEF AsksOK, WorkerIssued, InCall
  <2>19. task'[t].verification = task[t].verification BY <2>1, <2>3, SavedVerification
  <2>q. QED BY <2>3, <2>4, <2>13, <2>15, <2>17, <2>18, <2>19, SavedData
<1>11. ASSUME NEW w \in Workers, SkillExecuted(w) PROVE DataInv'
  <2>1. Checkpoint(w, "skill_executed", [Saved(w) EXCEPT !.skill = wk[w].result]) BY <1>11 DEF SkillExecuted
  <2>2. Holds(w) BY <2>1 DEF Checkpoint
  <2>3. PICK t \in Tasks : t = wk[w].task BY <2>2 DEF Holds
  <2>4. wk'[w] = [wk[w] EXCEPT !.pc = "skill_verify"] /\ Others(w)
    BY <1>11 DEF SkillExecuted, WkTyped, Others
  <2>5. wk[w] \in Memories BY DEF WkTyped
  <2>6. /\ wk'[w].task = wk[w].task /\ wk'[w].token = wk[w].token /\ wk'[w].asked = wk[w].asked
        /\ wk'[w].done = wk[w].done /\ wk'[w].todo = wk[w].todo /\ wk'[w].cur = wk[w].cur
        /\ wk'[w].ask = wk[w].ask /\ wk'[w].result = wk[w].result
    BY <2>4, <2>5 DEF Memories
  <2>7. wk'[w].pc = "skill_verify" BY <2>4, <2>5 DEF Memories
  <2>8. \A u \in Tasks : issued[u] \subseteq issued'[u] BY <1>11 DEF SkillExecuted, IssuedTyped
  <2>9. SkillStep \in StepIds BY DEF StepIds
  <2>10. StepUpsert(w, SkillStep, OutcomeOf(wk[w].result)) BY <1>11 DEF SkillExecuted
  <2>11. step'[t][SkillStep] = OutcomeOf(wk[w].result) /\ \A u \in Tasks : u # t => step'[u] = step[u]
    BY <2>3, <2>9, <2>10, UpsertRow
  <2>e. effects' = effects BY <1>11 DEF SkillExecuted
  <2>12. Saves(w) /\ task'[t].phase = "skill_executed" /\ cp'[t] = [Saved(w) EXCEPT !.skill = wk[w].result]
    BY <2>1, <2>2, <2>3, <2>e, <2>8, <2>11, CheckpointRow DEF Saves
  <2>13. cp'[t].done = wk[w].done BY <2>12, SavedDone
  <2>14. cp'[t].eval = "none" BY <2>12, SavedEval
  <2>15. AsksOK(w) /\ WorkerIssued(w) BY DEF DataInv, IssuedOK
  <2>16. cp'[t].done \subseteq issued'[t]
    BY <1>11, <2>3, <2>13, <2>8, <2>15 DEF SkillExecuted, AsksOK, WorkerIssued
  <2>g. wk[w].pc = "skill_ran" BY <1>11, <2>3 DEF SkillExecuted
  <2>17. AsksOK(w)'
    BY <2>g, <2>2, <2>3, <2>6, <2>7, <2>8, <2>9, <2>11, <2>12, <2>15 DEF AsksOK, WorkerIssued, InCall
  <2>18. task'[t].verification = task[t].verification BY <2>1, <2>3, SavedVerification
  <2>q. QED BY <2>3, <2>4, <2>12, <2>14, <2>16, <2>17, <2>18, SavedData
<1>12. ASSUME NEW w \in Workers, NEW cs \in SUBSET Calls, ModelFeedback(w, cs) PROVE DataInv'
  <2>1. wk'[w] = [wk[w] EXCEPT !.pc = IF wk[w].resume = "yes" /\ cs # {} /\ wk[w].iter < MaxIterations THEN "tools" ELSE "model", !.asked = cs, !.todo = cs] /\ Others(w)
    BY <1>12 DEF ModelFeedback, WkTyped, Others
  <2>2. wk[w] \in Memories BY DEF WkTyped
  <2>3. /\ wk'[w].task = wk[w].task /\ wk'[w].token = wk[w].token /\ wk'[w].done = wk[w].done
        /\ wk'[w].cur = wk[w].cur /\ wk'[w].ask = wk[w].ask /\ wk'[w].result = wk[w].result
    BY <2>1, <2>2 DEF Memories
  <2>4. wk'[w].pc = (IF wk[w].resume = "yes" /\ cs # {} /\ wk[w].iter < MaxIterations THEN "tools" ELSE "model") BY <2>1, <2>2 DEF Memories
  <2>5. wk'[w].asked = cs BY <2>1, <2>2 DEF Memories
  <2>6. wk'[w].todo = cs BY <2>1, <2>2 DEF Memories
  <2>7. UNCHANGED <<task, cp, step>> /\ \A u \in Tasks : issued[u] \subseteq issued'[u] BY <1>12 DEF ModelFeedback, IssuedTyped
  <2>8. wk[w].pc = "calling" /\ wk[w].task \in Tasks /\ (\A c \in cs : c \notin issued[wk[w].task]) BY <1>12 DEF ModelFeedback, IssuedTyped, FreshCalls, SafeInv, WorkerOK, ActivePcs, AgentPcs
  <2>9. AsksOK(w) /\ WorkerIssued(w) BY DEF DataInv, IssuedOK
  <2>10. Holds(w)' => Holds(w) BY <2>3, <2>7 DEF Holds
  <2>11. AsksOK(w)'
    BY <2>3, <2>4, <2>5, <2>6, <2>7, <2>8, <2>9, <2>10 DEF AsksOK, WorkerIssued, InCall
  <2>q. QED BY <2>1, <2>7, <2>11, MemoryData
<1>13. ASSUME NEW w \in Workers, NEW c \in Calls, AskUser(w, c) PROVE DataInv'
  <2>1. wk'[w] = [wk[w] EXCEPT !.todo = wk[w].todo \ {c}, !.ask = IF wk[w].ask = NoCall THEN c ELSE wk[w].ask] /\ Others(w)
    BY <1>13 DEF AskUser, WkTyped, Others
  <2>2. wk[w] \in Memories BY DEF WkTyped
  <2>3. /\ wk'[w].pc = wk[w].pc /\ wk'[w].task = wk[w].task /\ wk'[w].token = wk[w].token
        /\ wk'[w].asked = wk[w].asked /\ wk'[w].done = wk[w].done /\ wk'[w].cur = wk[w].cur
        /\ wk'[w].result = wk[w].result
    BY <2>1, <2>2 DEF Memories
  <2>4. wk'[w].todo = wk[w].todo \ {c} BY <2>1, <2>2 DEF Memories
  <2>5. wk'[w].ask = (IF wk[w].ask = NoCall THEN c ELSE wk[w].ask) BY <2>1, <2>2 DEF Memories
  <2>6. UNCHANGED <<task, cp, step>> /\ \A u \in Tasks : issued[u] \subseteq issued'[u] BY <1>13 DEF AskUser, IssuedTyped
  <2>7. wk[w].pc = "tools" /\ c \in wk[w].todo /\ c \in AskCalls BY <1>13 DEF AskUser, IssuedTyped, InBatch
  <2>8. AsksOK(w) /\ WorkerIssued(w) BY DEF DataInv, IssuedOK
  <2>9. Holds(w)' => Holds(w) BY <2>3, <2>6 DEF Holds
  <2>10. AsksOK(w)'
    BY <2>3, <2>4, <2>5, <2>6, <2>7, <2>8, <2>9 DEF AsksOK, WorkerIssued, InCall
  <2>q. QED BY <2>1, <2>6, <2>10, MemoryData
<1>14. ASSUME NEW w \in Workers, ExecuteTool(w) PROVE DataInv'
  <2>1. wk'[w] = [wk[w] EXCEPT !.pc = "executed"] /\ Others(w)
    BY <1>14 DEF ExecuteTool, WkTyped, Others
  <2>2. wk[w] \in Memories BY DEF WkTyped
  <2>3. /\ wk'[w].task = wk[w].task /\ wk'[w].token = wk[w].token /\ wk'[w].asked = wk[w].asked
        /\ wk'[w].done = wk[w].done /\ wk'[w].todo = wk[w].todo /\ wk'[w].cur = wk[w].cur
        /\ wk'[w].ask = wk[w].ask /\ wk'[w].result = wk[w].result
    BY <2>1, <2>2 DEF Memories
  <2>4. wk'[w].pc = "executed" BY <2>1, <2>2 DEF Memories
  <2>5. UNCHANGED <<task, cp, step>> /\ \A u \in Tasks : issued[u] \subseteq issued'[u] BY <1>14 DEF ExecuteTool, IssuedTyped
  <2>6. wk[w].pc = "executing" BY <1>14 DEF ExecuteTool, IssuedTyped
  <2>7. AsksOK(w) /\ WorkerIssued(w) BY DEF DataInv, IssuedOK
  <2>8. Holds(w)' => Holds(w) BY <2>3, <2>5 DEF Holds
  <2>9. AsksOK(w)'
    BY <2>3, <2>4, <2>5, <2>6, <2>7, <2>8 DEF AsksOK, WorkerIssued, InCall
  <2>q. QED BY <2>1, <2>5, <2>9, MemoryData
<1>15. ASSUME NEW w \in Workers, ReuseResult(w) PROVE DataInv'
  <2>1. wk'[w] = [wk[w] EXCEPT !.pc = "executed"] /\ Others(w)
    BY <1>15 DEF ReuseResult, WkTyped, Others
  <2>2. wk[w] \in Memories BY DEF WkTyped
  <2>3. /\ wk'[w].task = wk[w].task /\ wk'[w].token = wk[w].token /\ wk'[w].asked = wk[w].asked
        /\ wk'[w].done = wk[w].done /\ wk'[w].todo = wk[w].todo /\ wk'[w].cur = wk[w].cur
        /\ wk'[w].ask = wk[w].ask /\ wk'[w].result = wk[w].result
    BY <2>1, <2>2 DEF Memories
  <2>4. wk'[w].pc = "executed" BY <2>1, <2>2 DEF Memories
  <2>5. UNCHANGED <<task, cp, step>> /\ \A u \in Tasks : issued[u] \subseteq issued'[u] BY <1>15 DEF ReuseResult, IssuedTyped
  <2>6. wk[w].pc = "executing" BY <1>15 DEF ReuseResult, IssuedTyped
  <2>7. AsksOK(w) /\ WorkerIssued(w) BY DEF DataInv, IssuedOK
  <2>8. Holds(w)' => Holds(w) BY <2>3, <2>5 DEF Holds
  <2>9. AsksOK(w)'
    BY <2>3, <2>4, <2>5, <2>6, <2>7, <2>8 DEF AsksOK, WorkerIssued, InCall
  <2>q. QED BY <2>1, <2>5, <2>9, MemoryData
<1>16. ASSUME NEW w \in Workers, NEW r \in Results, RunSkill(w, r) PROVE DataInv'
  <2>1. wk'[w] = [wk[w] EXCEPT !.pc = "skill_ran", !.result = r] /\ Others(w)
    BY <1>16 DEF RunSkill, WkTyped, Others
  <2>2. wk[w] \in Memories BY DEF WkTyped
  <2>3. /\ wk'[w].task = wk[w].task /\ wk'[w].token = wk[w].token /\ wk'[w].asked = wk[w].asked
        /\ wk'[w].done = wk[w].done /\ wk'[w].todo = wk[w].todo /\ wk'[w].cur = wk[w].cur
        /\ wk'[w].ask = wk[w].ask
    BY <2>1, <2>2 DEF Memories
  <2>4. wk'[w].pc = "skill_ran" BY <2>1, <2>2 DEF Memories
  <2>5. wk'[w].result = r BY <2>1, <2>2 DEF Memories
  <2>6. UNCHANGED <<task, cp, step>> /\ \A u \in Tasks : issued[u] \subseteq issued'[u] BY <1>16 DEF RunSkill, IssuedTyped
  <2>7. wk[w].pc = "skill_run" BY <1>16 DEF RunSkill, IssuedTyped
  <2>8. AsksOK(w) /\ WorkerIssued(w) BY DEF DataInv, IssuedOK
  <2>9. Holds(w)' => Holds(w) BY <2>3, <2>6 DEF Holds
  <2>10. AsksOK(w)'
    BY <2>3, <2>4, <2>5, <2>6, <2>7, <2>8, <2>9 DEF AsksOK, WorkerIssued, InCall
  <2>q. QED BY <2>1, <2>6, <2>10, MemoryData
<1>17. ASSUME NEW w \in Workers, SetLost(w) PROVE DataInv'
  <2>1. wk'[w] = [wk[w] EXCEPT !.lost = "yes"] /\ Others(w)
    BY <1>17 DEF SetLost, WkTyped, Others
  <2>2. wk[w] \in Memories BY DEF WkTyped
  <2>3. /\ wk'[w].pc = wk[w].pc /\ wk'[w].task = wk[w].task /\ wk'[w].token = wk[w].token
        /\ wk'[w].asked = wk[w].asked /\ wk'[w].done = wk[w].done /\ wk'[w].todo = wk[w].todo
        /\ wk'[w].cur = wk[w].cur /\ wk'[w].ask = wk[w].ask /\ wk'[w].result = wk[w].result
    BY <2>1, <2>2 DEF Memories
  <2>4. UNCHANGED <<task, cp, step>> /\ \A u \in Tasks : issued[u] \subseteq issued'[u] BY <1>17 DEF SetLost, IssuedTyped
  <2>5. wk[w].pc \in AgentPcs \cup SkillPcs \cup {"finishing"} BY <1>17 DEF SetLost, IssuedTyped
  <2>6. AsksOK(w) /\ WorkerIssued(w) BY DEF DataInv, IssuedOK
  <2>7. Holds(w)' => Holds(w) BY <2>3, <2>4 DEF Holds
  <2>8. AsksOK(w)'
    BY <2>3, <2>4, <2>5, <2>6, <2>7 DEF AsksOK, WorkerIssued, InCall
  <2>q. QED BY <2>1, <2>4, <2>8, MemoryData
<1>18. ASSUME NEW w \in Workers, Conclude(w) PROVE DataInv'
  <2>1. wk'[w] = Leaving(w, "finishing", IF wk[w].eval = "fail" THEN "failed" ELSE "completed") /\ Others(w) BY <1>18 DEF Conclude, WkTyped, Others, Finishing
  <2>2. UNCHANGED <<task, cp, step, issued>> BY <1>18 DEF Conclude, Finishing
  <2>3. AsksOK(w)' BY <2>1, LeftEmpty, AskerEmpty
  <2>q. QED BY <2>1, <2>2, <2>3, MemoryData
<1>19. ASSUME NEW w \in Workers, Stopped(w) PROVE DataInv'
  <2>1. wk'[w] = Leaving(w, "finishing", "completed") /\ Others(w) BY <1>19 DEF Stopped, WkTyped, Others, Finishing
  <2>2. UNCHANGED <<task, cp, step, issued>> BY <1>19 DEF Stopped, Finishing
  <2>3. AsksOK(w)' BY <2>1, LeftEmpty, AskerEmpty
  <2>q. QED BY <2>1, <2>2, <2>3, MemoryData
<1>20. ASSUME NEW w \in Workers, LimitReached(w) PROVE DataInv'
  <2>1. wk'[w] = Leaving(w, "finishing", "failed") /\ Others(w) BY <1>20 DEF LimitReached, WkTyped, Others, Finishing
  <2>2. UNCHANGED <<task, cp, step, issued>> BY <1>20 DEF LimitReached, Finishing
  <2>3. AsksOK(w)' BY <2>1, LeftEmpty, AskerEmpty
  <2>q. QED BY <2>1, <2>2, <2>3, MemoryData
<1>21. ASSUME NEW w \in Workers, NEW o, ReturnEarly(w, o) PROVE DataInv'
  <2>1. wk'[w] = Leaving(w, "finishing", o) /\ Others(w) BY <1>21 DEF ReturnEarly, WkTyped, Others, Finishing
  <2>2. UNCHANGED <<task, cp, step, issued>> BY <1>21 DEF ReturnEarly, Finishing
  <2>3. AsksOK(w)' BY <2>1, LeftEmpty, AskerEmpty
  <2>q. QED BY <2>1, <2>2, <2>3, MemoryData
<1>22. ASSUME NEW w \in Workers, NEW o, Raise(w, o) PROVE DataInv'
  <2>1. wk'[w] = Leaving(w, "raising", o) /\ Others(w) BY <1>22 DEF Raise, WkTyped, Others
  <2>2. UNCHANGED <<task, cp, step, issued>> BY <1>22 DEF Raise
  <2>3. AsksOK(w)' BY <2>1, LeftEmpty, AskerEmpty
  <2>q. QED BY <2>1, <2>2, <2>3, MemoryData
<1>23. ASSUME NEW w \in Workers, RaiseBusy(w) PROVE DataInv'
  <2>1. wk'[w] = Leaving(w, "raising", "none") /\ Others(w) BY <1>23 DEF RaiseBusy, WkTyped, Others
  <2>2. UNCHANGED <<task, cp, step, issued>> BY <1>23 DEF RaiseBusy
  <2>3. AsksOK(w)' BY <2>1, LeftEmpty, AskerEmpty
  <2>q. QED BY <2>1, <2>2, <2>3, MemoryData
<1>24. ASSUME NEW w \in Workers, FinishRefused(w) PROVE DataInv'
  <2>1. wk'[w] = Idle /\ Others(w) /\ UNCHANGED <<task, cp, step, issued>> BY <1>24 DEF FinishRefused, WkTyped, Others
  <2>2. AsksOK(w)' BY <2>1, IdleAsks, AskerEmpty
  <2>q. QED BY <2>1, <2>2, MemoryData
<1>25. ASSUME NEW w \in Workers, Crash(w) PROVE DataInv'
  <2>1. wk'[w] = Idle /\ Others(w) /\ UNCHANGED <<task, cp, step, issued>> BY <1>25 DEF Crash, WkTyped, Others
  <2>2. AsksOK(w)' BY <2>1, IdleAsks, AskerEmpty
  <2>q. QED BY <2>1, <2>2, MemoryData
<1>26. ASSUME NEW w \in Workers, ClaimRefused(w) PROVE DataInv'
  <2>1. wk'[w] = Idle /\ Others(w) /\ UNCHANGED <<task, cp, step, issued>> BY <1>26 DEF ClaimRefused, WkTyped, Others
  <2>2. AsksOK(w)' BY <2>1, IdleAsks, AskerEmpty
  <2>q. QED BY <2>1, <2>2, MemoryData
<1>27. ASSUME NEW w \in Workers, AnswerRefused(w) PROVE DataInv'
  <2>1. wk'[w] = Idle /\ Others(w) /\ UNCHANGED <<task, cp, step, issued>> BY <1>27 DEF AnswerRefused, WkTyped, Others
  <2>2. AsksOK(w)' BY <2>1, IdleAsks, AskerEmpty
  <2>q. QED BY <2>1, <2>2, MemoryData
<1>28. ASSUME NEW w \in Workers, NEW t \in Tasks, ReadWait(w, t) PROVE DataInv'
  <2>1. wk'[w] = [Idle EXCEPT !.pc = "answering", !.task = t, !.cur = cp[t].wait] /\ Others(w)
    BY <1>28 DEF ReadWait, WkTyped, Others
  <2>2. /\ wk'[w].ask = NoCall /\ wk'[w].todo = {} /\ wk'[w].done = {}
        /\ wk'[w].pc \notin {"calling", "tools"} \cup InCall
    BY <2>1 DEF Idle, InCall
  <2>3. UNCHANGED <<task, cp, step, issued>> BY <1>28 DEF ReadWait
  <2>4. AsksOK(w)' BY <2>2, AskerEmpty
  <2>q. QED BY <2>1, <2>3, <2>4, MemoryData
<1>29. ASSUME NEW w \in Workers, Finish(w) PROVE DataInv'
  <2> DEFINE x == IF wk[w].lost = "yes" THEN "cancelled" ELSE wk[w].outcome
  <2>1. FinishRow(w, x) BY <1>29 DEF Finish
  <2> HIDE DEF x
  <2>q. QED BY <2>1, FinishData
<1>30. ASSUME NEW w \in Workers, FinishSuspended(w) PROVE DataInv'
  <2> DEFINE x == "suspended"
  <2>1. FinishRow(w, x) BY <1>30 DEF FinishSuspended
  <2> HIDE DEF x
  <2>q. QED BY <2>1, FinishData
<1>31. ASSUME NEW w \in Workers, HandleError(w) PROVE DataInv'
  <2> DEFINE x == CASE task[wk[w].task].phase \in Started -> "uncertain"
                   [] task[wk[w].task].phase \notin Started /\ wk[w].outcome = "failed" -> "failed"
                   [] OTHER -> "pending"
  <2>1. FinishRow(w, x) BY <1>31 DEF HandleError
  <2> HIDE DEF x
  <2>q. QED BY <2>1, FinishData
<1>32. ASSUME NEW w \in Workers, Suspend(w) PROVE DataInv'
  <2> DEFINE d == [cp[wk[w].task] EXCEPT !.asked = wk[w].asked, !.done = wk[w].done, !.wait = wk[w].ask]
  <2>1. Checkpoint(w, "waiting_user", d) BY <1>32 DEF Suspend
  <2>2. Holds(w) BY <2>1 DEF Checkpoint
  <2>3. PICK t \in Tasks : t = wk[w].task BY <2>2 DEF Holds
  <2>4. wk'[w] = Leaving(w, "suspending", "none") /\ Others(w) BY <1>32 DEF Suspend, WkTyped, Others
  <2>5. UNCHANGED <<step, effects, issued>> BY <1>32 DEF Suspend
  <2>6. wk[w] \in Memories /\ cp[t] \in Checkpoints BY DEF WkTyped, CpTyped
  <2>7. d.asked = wk[w].asked /\ d.done = wk[w].done /\ d.wait = wk[w].ask /\ d.eval = cp[t].eval
    BY <2>3, <2>6 DEF Checkpoints
  <2> HIDE DEF d
  <2>8. Saves(w) /\ task'[t].phase = "waiting_user" /\ cp'[t] = d
    BY <2>1, <2>2, <2>3, <2>5, CheckpointRow DEF Saves
  <2>9. AsksOK(w)' BY <2>4, LeftEmpty, AskerEmpty
  <2>10. wk[w].pc = "tools" /\ wk[w].ask # NoCall BY <1>32 DEF Suspend
  <2>11. AsksOK(w) /\ WorkerOK(w) /\ RowOK(t) BY DEF DataInv, SafeInv
  <2>12. task[t].phase # "evaluation_done" BY <2>2, <2>3, <2>10, <2>11 DEF AsksOK
  <2>13. task[t].phase # "skill_done" BY <2>2, <2>3, <2>10, <2>11 DEF WorkerOK, Knows, AgentPcs, SkillPhases
  <2>14. cp'[t].eval = "none" BY <2>7, <2>8, <2>11, <2>12, <2>13 DEF RowOK
  <2>15. cp'[t].wait \in cp'[t].asked \ cp'[t].done BY <2>7, <2>8, <2>10, <2>11 DEF AsksOK
  <2>16. cp'[t].done \subseteq issued'[t] BY <2>3, <2>5, <2>7, <2>8, <2>11 DEF AsksOK
  <2>17. task'[t].verification = task[t].verification BY <2>1, <2>3, SavedVerification
  <2>q. QED BY <2>3, <2>4, <2>8, <2>9, <2>14, <2>15, <2>16, <2>17, SavedData
<1>33. ASSUME NEW w \in Workers, NEW v \in Verdicts, SkillDone(w, v) PROVE DataInv'
  <2> DEFINE r == IF v = "fail" THEN "failure" ELSE wk[w].result
             d == [Saved(w) EXCEPT !.skill = r, !.eval = v]
  <2>1. Checkpoint(w, "skill_done", d) /\ StepUpsert(w, SkillStep, OutcomeOf(r)) BY <1>33 DEF SkillDone
  <2>2. Holds(w) BY <2>1 DEF Checkpoint
  <2>3. PICK t \in Tasks : t = wk[w].task BY <2>2 DEF Holds
  <2>4. wk'[w] = Leaving(w, "finishing", OutcomeOf(r)) /\ Others(w) BY <1>33 DEF SkillDone, WkTyped, Others
  <2>5. UNCHANGED <<effects, issued>> BY <1>33 DEF SkillDone
  <2>6. d.done = wk[w].done BY SavedDone
  <2> HIDE DEF r, d
  <2>7. SkillStep \in StepIds BY DEF StepIds
  <2>8. \A u \in Tasks : u # t => step'[u] = step[u] BY <2>1, <2>3, <2>7, UpsertRow
  <2>9. Saves(w) /\ task'[t].phase = "skill_done" /\ cp'[t] = d
    BY <2>1, <2>2, <2>3, <2>5, <2>8, CheckpointRow DEF Saves
  <2>10. AsksOK(w)' BY <2>4, LeftEmpty, AskerEmpty
  <2>11. AsksOK(w) BY DEF DataInv
  <2>12. cp'[t].done \subseteq issued'[t] BY <2>3, <2>5, <2>6, <2>9, <2>11 DEF AsksOK
  <2>13. task'[t].verification = task[t].verification BY <2>1, <2>3, SavedVerification
  <2>q. QED BY <2>3, <2>4, <2>9, <2>10, <2>12, <2>13, SavedData
<1>34. ASSUME NEW w \in Workers, NEW t \in Tasks, NEW mode \in Modes, Claim(w, t, mode) PROVE DataInv'
  BY <1>34, ClaimData
<1>35. ASSUME NEW w \in Workers, Answer(w) PROVE DataInv'
  BY <1>35, AnswerData
<1>36. ASSUME NEW w \in Workers, WorkerStep(w) \/ EntryStep(w) \/ Fault(w) PROVE DataInv'
  BY <1>36, <1>1, <1>2, <1>3, <1>4, <1>5, <1>6, <1>7, <1>8, <1>9, <1>10, <1>11, <1>12, <1>13, <1>14,
      <1>15, <1>16, <1>17, <1>18, <1>19, <1>20, <1>21, <1>22, <1>23, <1>24, <1>25, <1>26, <1>27, <1>28,
      <1>29, <1>30, <1>31, <1>32, <1>33, <1>34, <1>35 DEF WorkerStep, AgentStep, SkillAction, EndStep,
      EntryStep, Fault
<1>37. ASSUME NEW t \in Tasks, HumanStep(t) \/ ScanStep(t) \/ LeaseExpires(t) PROVE DataInv'
  BY <1>37, ResolveData, HumanData DEF HumanStep, ScanStep
<1>38. ASSUME CancelSession PROVE DataInv' BY <1>38, HumanData
<1>q. QED BY <1>36, <1>37, <1>38 DEF Next

\* Nothing is asked, judged or verified at first.
LEMMA DataInit == Init => DataInv
<1> SUFFICES ASSUME Init PROVE DataInv OBVIOUS
<1>1. ASSUME NEW w \in Workers PROVE AsksOK(w)
  <2>1. wk[w] = Idle BY DEF Init
  <2>2. wk[w].task = NoTask BY <2>1 DEF Idle
  <2>q. QED BY <2>1, <2>2, IdleAsks, ConstantsAssumption DEF AsksOK, Holds, InCall
<1>2. ASSUME NEW t \in Tasks PROVE RowOK(t)
  <2>1. task[t] = NoRow /\ cp[t] = EmptyCheckpoint BY DEF Init
  <2>2. task[t].phase = "model_pending" /\ task[t].verification = "unverified" BY <2>1 DEF NoRow
  <2>3. cp[t].eval = "none" /\ cp[t].done = {} BY <2>1 DEF EmptyCheckpoint
  <2>q. QED BY <2>2, <2>3 DEF RowOK
<1>q. QED BY <1>1, <1>2 DEF DataInv

\* The questions' invariant holds of every behaviour, on top of Inv.
LEMMA DataAlways == Spec => []DataInv
<1>1. Init => DataInv BY DataInit
<1>2. Inv /\ DataInv /\ [Next]_vars => DataInv'
  <2>1. ASSUME Inv, DataInv, Next PROVE DataInv'
    <3>1. TaskTyped /\ CpTyped /\ StepTyped /\ WkTyped /\ IssuedTyped
      BY <2>1 DEF Inv, TypeOK, TaskTyped, CpTyped, StepTyped, WkTyped, IssuedTyped
    <3>2. Numbers BY <2>1, NumbersTyped DEF Inv
    <3>q. QED BY <2>1, <3>1, <3>2, DataNext DEF Inv
  <2>2. ASSUME DataInv, UNCHANGED vars PROVE DataInv'
    <3>1. ASSUME NEW w \in Workers PROVE AsksOK(w)' BY <2>2 DEF vars, DataInv, AsksOK, Holds
    <3>2. ASSUME NEW t \in Tasks PROVE RowOK(t)' BY <2>2 DEF vars, DataInv, RowOK
    <3>q. QED BY <3>1, <3>2 DEF DataInv
  <2>q. QED BY <2>1, <2>2
<1>q. QED BY <1>1, <1>2, Invariance, PTL DEF Spec

\* Whoever finds a suspended task can answer it: its question is one the model
\* asked and nobody answered, no step of it is running and nobody owns it, whatever
\* crashes, takeovers and resolutions came before (suspend of tasks.py and
\* run_agent; TaskStore.answer pops the call id without a further check).
THEOREM SuspendedAnswerable == Spec => []SuspendedIsAnswerable
<1>1. Inv /\ DataInv => SuspendedIsAnswerable
  <2> SUFFICES ASSUME Inv, DataInv, NEW t \in Tasks, task[t].state = "suspended"
               PROVE  /\ task[t].phase = "waiting_user" /\ task[t].lease # "live"
                      /\ cp[t].wait \in cp[t].asked \ cp[t].done
                      /\ \A s \in StepIds : step[t][s] # "running"
    BY DEF SuspendedIsAnswerable
  <2>1. LeaseOK(t) /\ StepsOK(t) /\ RowOK(t) BY DEF Inv, SafeInv, DataInv
  <2>2. task[t].phase = "waiting_user" /\ task[t].lease # "live" BY <2>1 DEF LeaseOK
  <2>3. \A s \in StepIds : step[t][s] # "running" BY <2>1, <2>2 DEF StepsOK, StepIds
  <2>q. QED BY <2>1, <2>2, <2>3 DEF RowOK
<1>q. QED BY <1>1, Invariance, DataAlways, PTL

\* A task that is recorded as verified was judged after its last step: nothing
\* was asked, started or left running beyond what the verdict saw (finish of
\* tasks.py reads the verdict from the stored checkpoint).
THEOREM VerifiedCurrent == Spec => []VerifiedIsCurrent
<1>1. Inv /\ DataInv => VerifiedIsCurrent
  <2> SUFFICES ASSUME Inv, DataInv, NEW t \in Tasks, task[t].verification = "verified_completed"
               PROVE  /\ task[t].state = "completed"
                      /\ task[t].phase \in {"evaluation_done", "skill_done"}
                      /\ cp[t].eval = "verified"
                      /\ \A s \in StepIds : step[t][s] # "running"
    BY DEF VerifiedIsCurrent
  <2>1. StepsOK(t) /\ RowOK(t) BY DEF Inv, SafeInv, DataInv
  <2>2. task[t].state = "completed" /\ cp[t].eval = "verified" BY <2>1 DEF RowOK
  <2>3. task[t].phase \in {"evaluation_done", "skill_done"} BY <2>1, <2>2 DEF RowOK
  <2>4. \A s \in StepIds : step[t][s] # "running" BY <2>1, <2>3 DEF StepsOK, StepIds
  <2>q. QED BY <2>2, <2>3, <2>4
<1>q. QED BY <1>1, Invariance, DataAlways, PTL

-----------------------------------------------------------------------------
(* A recorded result is not reopened. *)

Stays(t, c) ==
  /\ step[t][c] = "resolved_by_human" => step'[t][c] = "resolved_by_human"
  /\ step[t][c] = "failed" => step'[t][c] = "failed"
  /\ step[t][c] = "completed" => step'[t][c] \in {"completed", "failed"}

\* Writing one step of the worker's row over what it holds disturbs no result.
LEMMA UpsertStays ==
  ASSUME StepTyped, NEW w \in Workers, wk[w].task \in Tasks, NEW s \in StepIds, NEW x, StepUpsert(w, s, x),
         \/ s \notin Calls
         \/ step[wk[w].task][s] \in {"none", "running"}
         \/ step[wk[w].task][s] = "completed" /\ x \in {"completed", "failed"}
         \/ step[wk[w].task][s] = "failed" /\ x = "failed",
         NEW t \in Tasks, NEW c \in Calls
  PROVE  Stays(t, c)
<1>1. PICK u \in Tasks : u = wk[w].task OBVIOUS
<1>2. /\ step'[u][s] = x /\ \A r \in StepIds : r # s => step'[u][r] = step[u][r]
      /\ \A v \in Tasks : v # u => step'[v] = step[v]
  BY <1>1, UpsertRow
<1>3. c \in StepIds BY DEF StepIds
<1>4. CASE t = u /\ c = s BY <1>1, <1>2, <1>4 DEF Stays
<1>5. CASE t # u \/ c # s BY <1>2, <1>3, <1>5 DEF Stays
<1>q. QED BY <1>4, <1>5

\* Only the writers of steps matter: each writes over a step that is open, or
\* turns its own success into a failure.
LEMMA ResultsStep ==
  ASSUME Inv, DataInv, Next, NEW t \in Tasks, NEW c \in Calls
  PROVE  Stays(t, c)
<1>s. StepTyped BY DEF Inv, TypeOK, StepTyped
<1>k. SkillStep \in StepIds /\ SkillStep \notin Calls BY ConstantsAssumption DEF StepIds
<1>h. \A w \in Workers : Holds(w) => Knows(w) /\ wk[w].task \in Tasks
  BY DEF Inv, SafeInv, WorkerOK, Holds
<1>0. ASSUME step' = step PROVE Stays(t, c) BY <1>0 DEF Stays
<1>1. ASSUME NEW w \in Workers, NEW d \in Calls, ToolRefused(w, d) PROVE Stays(t, c)
  <2>1. Holds(w) /\ StepUpsert(w, d, "failed") BY <1>1 DEF ToolRefused, Checkpoint
  <2>2. wk[w].pc = "tools" /\ d \in wk[w].todo BY <1>1 DEF ToolRefused, InBatch
  <2>3. step[wk[w].task][d] = "none" BY <1>h, <2>1, <2>2 DEF Knows, AgentPcs, InCall
  <2>4. d \in StepIds BY DEF StepIds
  <2>q. QED BY <1>s, <1>h, <2>1, <2>3, <2>4, UpsertStays
<1>2. ASSUME NEW w \in Workers, NEW d \in Calls, ToolStarted(w, d) PROVE Stays(t, c)
  <2>1. Holds(w) /\ StepUpsert(w, d, "running") BY <1>2 DEF ToolStarted, Checkpoint
  <2>2. wk[w].pc = "tools" /\ d \in wk[w].todo BY <1>2 DEF ToolStarted, InBatch
  <2>3. step[wk[w].task][d] = "none" BY <1>h, <2>1, <2>2 DEF Knows, AgentPcs, InCall
  <2>4. d \in StepIds BY DEF StepIds
  <2>q. QED BY <1>s, <1>h, <2>1, <2>3, <2>4, UpsertStays
<1>3. ASSUME NEW w \in Workers, NEW r \in Results, ToolDone(w, r) PROVE Stays(t, c)
  <2>1. Holds(w) /\ StepUpsert(w, wk[w].cur, OutcomeOf(r)) BY <1>3 DEF ToolDone, Checkpoint
  <2>2. wk[w].pc = "executed" BY <1>3 DEF ToolDone
  <2>3. step[wk[w].task][wk[w].cur] = "running" BY <1>h, <2>1, <2>2 DEF Knows
  <2>4. wk[w].cur \in StepIds BY <2>2 DEF Inv, MemoryShape, InCall, StepIds
  <2>q. QED BY <1>s, <1>h, <2>1, <2>3, <2>4, UpsertStays
<1>4. ASSUME NEW w \in Workers, NEW r \in Results, ToolObserved(w, r) PROVE Stays(t, c)
  <2>1. PICK x : x = (IF wk[w].result = "success" THEN OutcomeOf(r) ELSE "failed") OBVIOUS
  <2>2. Holds(w) /\ StepUpsert(w, wk[w].cur, x) BY <1>4, <2>1 DEF ToolObserved, Checkpoint
  <2>3. wk[w].pc = "observed" BY <1>4 DEF ToolObserved
  <2>4. step[wk[w].task][wk[w].cur] = OutcomeOf(wk[w].result) BY <2>2, <2>3 DEF DataInv, AsksOK
  <2>5. wk[w].cur \in StepIds BY <2>3 DEF Inv, MemoryShape, InCall, StepIds
  <2>6. \/ step[wk[w].task][wk[w].cur] = "completed" /\ x \in {"completed", "failed"}
        \/ step[wk[w].task][wk[w].cur] = "failed" /\ x = "failed"
    BY <2>1, <2>4 DEF OutcomeOf
  <2>q. QED BY <1>s, <1>h, <2>2, <2>5, <2>6, UpsertStays
<1>5. ASSUME NEW w \in Workers, SkillStarted(w) PROVE Stays(t, c)
  BY <1>s, <1>h, <1>k, <1>5, UpsertStays DEF SkillStarted, Checkpoint
<1>6. ASSUME NEW w \in Workers, SkillExecuted(w) PROVE Stays(t, c)
  BY <1>s, <1>h, <1>k, <1>6, UpsertStays DEF SkillExecuted, Checkpoint
<1>7. ASSUME NEW w \in Workers, NEW v \in Verdicts, SkillDone(w, v) PROVE Stays(t, c)
  BY <1>s, <1>h, <1>k, <1>7, UpsertStays DEF SkillDone, Checkpoint
<1>8. ASSUME NEW u \in Tasks, NEW d \in Calls, Resolve(u, d) PROVE Stays(t, c)
  <2>1. step[u][d] = "running" BY <1>8 DEF Resolve
  <2>2. step'[u] = [step[u] EXCEPT ![d] = "resolved_by_human"] /\ \A v \in Tasks : v # u => step'[v] = step[v]
    BY <1>s, <1>8 DEF Resolve, StepTyped
  <2>3. step[u] \in [StepIds -> StepStates] /\ c \in StepIds /\ d \in StepIds BY <1>s DEF StepTyped, StepIds
  <2>4. CASE t = u /\ c = d BY <2>1, <2>4 DEF Stays
  <2>5. CASE t # u \/ c # d BY <2>2, <2>3, <2>5 DEF Stays
  <2>q. QED BY <2>4, <2>5
<1>9. ASSUME NEW w \in Workers, AgentStep(w) PROVE Stays(t, c)
  <2>1. \/ step' = step
        \/ \E d \in Calls : ToolRefused(w, d) \/ ToolStarted(w, d)
        \/ \E r \in Results : ToolDone(w, r) \/ ToolObserved(w, r)
    BY <1>9 DEF AgentStep, ModelPending, ModelReceived, ModelFeedback, AskUser, ExecuteTool, ReuseResult, Suspend,
       EvaluationPending, EvaluationDone, CriticRetry, Conclude, Stopped, LimitReached, ReturnEarly, Finishing
  <2>q. QED BY <1>0, <1>1, <1>2, <1>3, <1>4, <2>1
<1>10. ASSUME NEW w \in Workers, SkillAction(w) PROVE Stays(t, c)
  BY <1>0, <1>5, <1>6, <1>7, <1>10 DEF SkillAction, RunSkill
<1>11. ASSUME NEW w \in Workers, EndStep(w) \/ EntryStep(w) \/ Fault(w) PROVE Stays(t, c)
  <2>1. step' = step
    BY <1>11 DEF EndStep, EntryStep, Fault, Finish, FinishSuspended, FinishRefused, RaiseBusy, HandleError, FinishRow,
       Claim, ReadWait, ClaimRefused, Answer, AnswerRefused, Raise, Crash, SetLost
  <2>q. QED BY <1>0, <2>1
<1>12. ASSUME NEW u \in Tasks, HumanStep(u) \/ ScanStep(u) \/ LeaseExpires(u) PROVE Stays(t, c)
  BY <1>0, <1>8, <1>12 DEF HumanStep, ScanStep, LeaseExpires, Cancel, RetireExpiredWait, ClaimUncertain, MarkUncertain
<1>13. ASSUME CancelSession PROVE Stays(t, c) BY <1>0, <1>13 DEF CancelSession
<1>q. QED BY <1>9, <1>10, <1>11, <1>12, <1>13 DEF Next, WorkerStep

\* A result that was recorded is never reopened, and what a human resolved is not
\* overwritten by the worker that had been given up: it no longer holds the row when
\* it comes back (checkpoint and record_step of TaskStore, resolve_uncertain).
THEOREM ResultsStay == Spec => RecordedResultsStay
<1>1. Inv /\ DataInv /\ [Next]_vars =>
        [\A t \in Tasks, c \in Calls :
           /\ step[t][c] = "resolved_by_human" => step'[t][c] = "resolved_by_human"
           /\ step[t][c] = "failed" => step'[t][c] = "failed"
           /\ step[t][c] = "completed" => step'[t][c] \in {"completed", "failed"}]_vars
  BY ResultsStep DEF Stays
<1>q. QED BY <1>1, Invariance, DataAlways, PTL DEF Spec, RecordedResultsStay

-----------------------------------------------------------------------------
(* A task keeps the contract of TaskContract.                                *)

\* What a step may do to the contract of t.
ContractStep(t) == [Contract(t)!ContractNext]_(Contract(t)!contractVars)

\* The recorded results of t are those the step table held before.
SameRecorded(t) == Recorded(t)' = Recorded(t)

\* A step that the submitter cannot see.
LEMMA Unseen ==
  ASSUME NEW t \in Tasks, Executed(t)' = Executed(t), SameRecorded(t), Decision(t)' = Decision(t)
  PROVE  ContractStep(t)
BY DEF ContractStep, SameRecorded, Contract!contractVars

\* A call is made: for the first time.
LEMMA CallMade ==
  ASSUME NEW t \in Tasks, NEW s \in StepIds, s \notin Executed(t), Executed(t)' = Executed(t) \cup {s},
         SameRecorded(t), Decision(t)' = Decision(t)
  PROVE  ContractStep(t)
BY DEF ContractStep, SameRecorded, Contract!ContractNext, Contract!MakeCall

\* A result is recorded: for the first time, in an open task.
LEMMA ResultSettled ==
  ASSUME NEW t \in Tasks, NEW s \in StepIds, s \notin Recorded(t), Recorded(t)' = Recorded(t) \cup {s},
         s \in Calls \/ s \in Executed(t),
         Executed(t)' = Executed(t), Decision(t) = "open", Decision(t)' = Decision(t)
  PROVE  ContractStep(t)
<1>1. CASE s \in Calls
  BY <1>1 DEF ContractStep, Contract!ContractNext, Contract!Supply
<1>2. CASE s \in Executed(t)
  BY <1>2 DEF ContractStep, Contract!ContractNext, Contract!Learn
<1>q. QED BY <1>1, <1>2

\* The task is decided: it was open, and nothing that was executed is unrecorded.
LEMMA TaskDecided ==
  ASSUME NEW t \in Tasks, Decision(t) = "open", Decision(t)' \in Terminal,
         Decision(t)' = "completed" => Executed(t) \subseteq Recorded(t),
         Executed(t)' = Executed(t), SameRecorded(t)
  PROVE  ContractStep(t)
<1>1. Decision(t)' \in Contract(t)!Outcomes BY DEF Terminal, Contract!Outcomes
<1>2. Contract(t)!Decide(Decision(t)') BY DEF Contract!Decide, SameRecorded
<1>q. QED BY <1>1, <1>2 DEF ContractStep, Contract!ContractNext

\* Only the two executions touch the history of effects.
LEMMA EffectsBy ==
  ASSUME Next
  PROVE  \/ effects' = effects
         \/ \E w \in Workers : ExecuteTool(w) \/ \E r \in Results : RunSkill(w, r)
<1>1. ASSUME NEW w \in Workers, AgentStep(w), ~ExecuteTool(w) PROVE effects' = effects
  BY <1>1 DEF AgentStep, ModelPending, ModelReceived, ModelFeedback, ToolRefused, AskUser, ToolStarted, ReuseResult,
     ToolDone, ToolObserved, Suspend, EvaluationPending, EvaluationDone, CriticRetry, Conclude, Stopped,
     LimitReached, ReturnEarly, Finishing
<1>2. ASSUME NEW w \in Workers, SkillAction(w), \A r \in Results : ~RunSkill(w, r) PROVE effects' = effects
  BY <1>2 DEF SkillAction, SkillStarted, SkillExecuted, SkillDone
<1>3. ASSUME NEW w \in Workers, EndStep(w) \/ EntryStep(w) \/ Fault(w) PROVE effects' = effects
  BY <1>3 DEF EndStep, EntryStep, Fault, Finish, FinishSuspended, FinishRefused, RaiseBusy, HandleError, FinishRow,
     Claim, ReadWait, ClaimRefused, Answer, AnswerRefused, Raise, Crash, SetLost
<1>4. ASSUME NEW u \in Tasks, HumanStep(u) \/ ScanStep(u) \/ LeaseExpires(u) PROVE effects' = effects
  BY <1>4 DEF HumanStep, ScanStep, LeaseExpires, Cancel, Resolve, RetireExpiredWait, ClaimUncertain, MarkUncertain
<1>5. CancelSession => effects' = effects BY DEF CancelSession
<1>q. QED BY <1>1, <1>2, <1>3, <1>4, <1>5 DEF Next, WorkerStep

\* A worker executes a step nobody has executed, and the rows do not move.
LEMMA ExecutionSeen ==
  ASSUME Inv, NEW t \in Tasks, NEW w \in Workers, ExecuteTool(w) \/ \E r \in Results : RunSkill(w, r)
  PROVE  ContractStep(t)
<1>1. task' = task /\ step' = step BY DEF ExecuteTool, RunSkill
<1>2. AboutToRun(w) BY DEF AboutToRun, ExecuteTool, RunSkill
<1>3. WorkerOK(w) BY DEF Inv, SafeInv
<1>4. PICK u \in Tasks : u = wk[w].task
  BY <1>2, <1>3 DEF WorkerOK, AboutToRun, ActivePcs, AgentPcs, SkillPcs
<1>5. PICK s \in StepIds : s = wk[w].cur BY <1>2, <1>3 DEF WorkerOK
<1>6. effects[u][s] = 0 BY <1>2, <1>3, <1>4, <1>5 DEF WorkerOK
<1>7. effects' = [effects EXCEPT ![u] = [effects[u] EXCEPT ![s] = effects[u][s] + 1]]
  <2>1. wk[w].pc = "skill_run" => s = SkillStep BY <1>2, <1>3, <1>5 DEF WorkerOK
  <2>q. QED BY <2>1, <1>4, <1>5 DEF ExecuteTool, RunSkill
<1>8. effects \in [Tasks -> [StepIds -> Nat]] BY DEF Inv, TypeOK
<1>9. effects'[u] = [effects[u] EXCEPT ![s] = effects[u][s] + 1] /\ \A v \in Tasks : v # u => effects'[v] = effects[v]
  BY <1>7, <1>8
<1>10. effects'[u][s] = 1 /\ \A r \in StepIds : r # s => effects'[u][r] = effects[u][r]
  <2>1. effects[u] \in [StepIds -> Nat] BY <1>8
  <2>q. QED BY <1>6, <1>9, <2>1
<1>11. SameRecorded(t) /\ Decision(t)' = Decision(t) BY <1>1 DEF SameRecorded, Recorded, Decision
<1>12. CASE t = u
  <2>1. s \notin Executed(t) BY <1>6, <1>12 DEF Executed
  <2>2. Executed(t)' = Executed(t) \cup {s} BY <1>10, <1>12 DEF Executed
  <2>q. QED BY <1>11, <2>1, <2>2, CallMade
<1>13. CASE t # u
  <2>1. Executed(t)' = Executed(t) BY <1>9, <1>13 DEF Executed
  <2>q. QED BY <1>11, <2>1, Unseen
<1>q. QED BY <1>12, <1>13

\* The holder writes one step of its row: a result over an open step settles the call,
\* anything else is not seen.
LEMMA UpsertSeen ==
  ASSUME StepTyped, NEW t \in Tasks, NEW w \in Workers, Holds(w), NEW s \in StepIds, NEW x, StepUpsert(w, s, x),
         effects' = effects, Decision(t)' = Decision(t),
         LET before == step[wk[w].task][s] IN
           \/ before \in {"none", "running"} /\ x = "running"
           \/ before \in {"none", "running"} /\ x \in {"completed", "failed"}
                /\ (s \in Calls \/ s \in Executed(wk[w].task))
           \/ before \in {"completed", "failed"} /\ x \in {"completed", "failed"}
  PROVE  ContractStep(t)
<1>1. PICK u \in Tasks : u = wk[w].task BY DEF Holds
<1>2. /\ step'[u][s] = x /\ \A r \in StepIds : r # s => step'[u][r] = step[u][r]
      /\ \A v \in Tasks : v # u => step'[v] = step[v]
  BY <1>1, UpsertRow
<1>3. Executed(t)' = Executed(t) BY DEF Executed
<1>4. CASE t # u
  <2>1. SameRecorded(t) BY <1>2, <1>4 DEF SameRecorded, Recorded
  <2>q. QED BY <1>3, <2>1, Unseen
<1>5. CASE t = u /\ s \notin Recorded(t) /\ x \in {"completed", "failed"}
  <2>1. step[t][s] \in {"none", "running"} BY <1>1, <1>5 DEF Recorded
  <2>2. s \in Calls \/ s \in Executed(t) BY <1>1, <1>5, <2>1
  <2>3. Recorded(t)' = Recorded(t) \cup {s} BY <1>2, <1>5 DEF Recorded
  <2>4. Decision(t) = "open" BY <1>1, <1>5 DEF Holds, Decision, Terminal
  <2>q. QED BY <1>3, <1>5, <2>2, <2>3, <2>4, ResultSettled
<1>6. CASE t = u /\ (s \in Recorded(t) <=> x \in {"completed", "failed"}) /\ x \in {"running", "completed", "failed"}
  <2>1. SameRecorded(t) BY <1>2, <1>6 DEF SameRecorded, Recorded
  <2>q. QED BY <1>3, <2>1, Unseen
<1>7. ASSUME t = u PROVE s \in Recorded(t) <=> step[u][s] \in {"completed", "failed", "resolved_by_human"}
  BY <1>7 DEF Recorded
<1>q. QED BY <1>1, <1>4, <1>5, <1>6, <1>7

\* A fenced save leaves the decision open.
LEMMA SavedOpen ==
  ASSUME TaskTyped, CpTyped, NEW w \in Workers, NEW p, NEW d, Checkpoint(w, p, d), NEW t \in Tasks
  PROVE  Decision(t)' = Decision(t)
<1>1. PICK u \in Tasks : u = wk[w].task BY DEF Checkpoint, Holds
<1>2. task'[u].state = task[u].state /\ \A v \in Tasks : v # u => task'[v] = task[v]
  BY <1>1, CheckpointRow
<1>q. QED BY <1>2 DEF Decision

\* The saves with a step.
LEMMA ResultsSeen ==
  ASSUME Inv, DataInv, NEW t \in Tasks, NEW w \in Workers,
         \/ \E c \in Calls : ToolRefused(w, c) \/ ToolStarted(w, c)
         \/ \E r \in Results : ToolDone(w, r) \/ ToolObserved(w, r)
         \/ SkillStarted(w) \/ SkillExecuted(w)
         \/ \E v \in Verdicts : SkillDone(w, v)
  PROVE  ContractStep(t)
<1>s. StepTyped /\ TaskTyped /\ CpTyped BY DEF Inv, TypeOK, StepTyped, TaskTyped, CpTyped
<1>k. SkillStep \in StepIds BY DEF StepIds
<1>c. \A d \in Calls : d \in StepIds BY DEF StepIds
<1>h. Holds(w) => Knows(w) /\ wk[w].task \in Tasks /\ StepsOK(wk[w].task)
  BY DEF Inv, SafeInv, WorkerOK, Holds
<1>1. ASSUME NEW c \in Calls, ToolRefused(w, c) PROVE ContractStep(t)
  <2>1. Checkpoint(w, "tool_done", Messages(w, wk[w].asked, wk[w].done \cup {c})) /\ StepUpsert(w, c, "failed")
    BY <1>1 DEF ToolRefused
  <2>2. wk[w].pc = "tools" /\ c \in wk[w].todo /\ effects' = effects BY <1>1 DEF ToolRefused, InBatch
  <2>3. Holds(w) /\ Decision(t)' = Decision(t) BY <1>s, <2>1, SavedOpen DEF Checkpoint
  <2>4. step[wk[w].task][c] = "none" BY <1>h, <2>3, <2>2 DEF Knows, AgentPcs, InCall
  <2>q. QED BY <1>s, <1>c, <2>1, <2>2, <2>3, <2>4, UpsertSeen
<1>2. ASSUME NEW c \in Calls, ToolStarted(w, c) PROVE ContractStep(t)
  <2>1. Checkpoint(w, "tool_started", Saved(w)) /\ StepUpsert(w, c, "running")
    BY <1>2 DEF ToolStarted
  <2>2. wk[w].pc = "tools" /\ c \in wk[w].todo /\ effects' = effects BY <1>2 DEF ToolStarted, InBatch
  <2>3. Holds(w) /\ Decision(t)' = Decision(t) BY <1>s, <2>1, SavedOpen DEF Checkpoint
  <2>4. step[wk[w].task][c] = "none" BY <1>h, <2>3, <2>2 DEF Knows, AgentPcs, InCall
  <2>q. QED BY <1>s, <1>c, <2>1, <2>2, <2>3, <2>4, UpsertSeen
<1>3. ASSUME NEW r \in Results, ToolDone(w, r) PROVE ContractStep(t)
  <2>1. /\ Checkpoint(w, "tool_done", Messages(w, wk[w].asked, wk[w].done \cup {wk[w].cur}))
        /\ StepUpsert(w, wk[w].cur, OutcomeOf(r))
    BY <1>3 DEF ToolDone
  <2>2. wk[w].pc = "executed" /\ effects' = effects BY <1>3 DEF ToolDone
  <2>3. Holds(w) /\ Decision(t)' = Decision(t) BY <1>s, <2>1, SavedOpen DEF Checkpoint
  <2>4. step[wk[w].task][wk[w].cur] = "running" BY <1>h, <2>2, <2>3 DEF Knows
  <2>5. wk[w].cur \in Calls BY <2>2 DEF Inv, MemoryShape, InCall
  <2>6. OutcomeOf(r) \in {"completed", "failed"} BY DEF OutcomeOf
  <2>q. QED BY <1>s, <1>c, <2>1, <2>2, <2>3, <2>4, <2>5, <2>6, UpsertSeen
<1>4. ASSUME NEW r \in Results, ToolObserved(w, r) PROVE ContractStep(t)
  <2>1. PICK x : x = (IF wk[w].result = "success" THEN OutcomeOf(r) ELSE "failed") OBVIOUS
  <2>2. /\ Checkpoint(w, "tool_done", Messages(w, wk[w].asked, wk[w].done \cup {wk[w].cur}))
        /\ StepUpsert(w, wk[w].cur, x)
    BY <1>4, <2>1 DEF ToolObserved
  <2>3. wk[w].pc = "observed" /\ effects' = effects BY <1>4 DEF ToolObserved
  <2>4. Holds(w) /\ Decision(t)' = Decision(t) BY <1>s, <2>2, SavedOpen DEF Checkpoint
  <2>5. step[wk[w].task][wk[w].cur] = OutcomeOf(wk[w].result) BY <2>3, <2>4 DEF DataInv, AsksOK
  <2>6. wk[w].cur \in Calls BY <2>3 DEF Inv, MemoryShape, InCall
  <2>7. x \in {"completed", "failed"} /\ OutcomeOf(wk[w].result) \in {"completed", "failed"}
    BY <2>1 DEF OutcomeOf
  <2>q. QED BY <1>s, <1>c, <2>2, <2>3, <2>4, <2>5, <2>6, <2>7, UpsertSeen
<1>5. ASSUME SkillStarted(w) PROVE ContractStep(t)
  <2>1. Checkpoint(w, "skill_started", Saved(w)) /\ StepUpsert(w, SkillStep, "running") BY <1>5 DEF SkillStarted
  <2>2. wk[w].pc = "skill_start" /\ effects' = effects BY <1>5 DEF SkillStarted
  <2>3. Holds(w) /\ Decision(t)' = Decision(t) BY <1>s, <2>1, SavedOpen DEF Checkpoint
  <2>4. step[wk[w].task][SkillStep] = "none" BY <1>h, <2>2, <2>3 DEF Knows, StepsOK
  <2>q. QED BY <1>s, <1>k, <2>1, <2>2, <2>3, <2>4, UpsertSeen
<1>6. ASSUME SkillExecuted(w) PROVE ContractStep(t)
  <2>1. /\ Checkpoint(w, "skill_executed", [Saved(w) EXCEPT !.skill = wk[w].result])
        /\ StepUpsert(w, SkillStep, OutcomeOf(wk[w].result))
    BY <1>6 DEF SkillExecuted
  <2>2. wk[w].pc = "skill_ran" /\ effects' = effects BY <1>6 DEF SkillExecuted
  <2>3. Holds(w) /\ Decision(t)' = Decision(t) BY <1>s, <2>1, SavedOpen DEF Checkpoint
  <2>4. step[wk[w].task][SkillStep] = "running" BY <1>h, <2>2, <2>3 DEF Knows, StepsOK
  <2>5. SkillStep \in Executed(wk[w].task) BY <1>h, <1>k, <2>2, <2>3 DEF Knows, Executed
  <2>6. OutcomeOf(wk[w].result) \in {"completed", "failed"} BY DEF OutcomeOf
  <2>q. QED BY <1>s, <1>k, <2>1, <2>2, <2>3, <2>4, <2>5, <2>6, UpsertSeen
<1>7. ASSUME NEW v \in Verdicts, SkillDone(w, v) PROVE ContractStep(t)
  <2>1. PICK r : r = (IF v = "fail" THEN "failure" ELSE wk[w].result) OBVIOUS
  <2>2. /\ Checkpoint(w, "skill_done", [Saved(w) EXCEPT !.skill = r, !.eval = v])
        /\ StepUpsert(w, SkillStep, OutcomeOf(r))
    BY <1>7, <2>1 DEF SkillDone
  <2>3. wk[w].pc = "skill_verify" /\ effects' = effects BY <1>7 DEF SkillDone
  <2>4. Holds(w) /\ Decision(t)' = Decision(t) BY <1>s, <2>2, SavedOpen DEF Checkpoint
  <2>5. step[wk[w].task][SkillStep] \in {"completed", "failed"} BY <1>h, <2>3, <2>4 DEF Knows, StepsOK
  <2>6. OutcomeOf(r) \in {"completed", "failed"} BY DEF OutcomeOf
  <2>q. QED BY <1>s, <1>k, <2>2, <2>3, <2>4, <2>5, <2>6, UpsertSeen
<1>q. QED BY <1>1, <1>2, <1>3, <1>4, <1>5, <1>6, <1>7

\* With no step written and nothing executed, the task may be decided once.
LEMMA RowSeen ==
  ASSUME Inv, NEW t \in Tasks, step' = step, effects' = effects,
         task[t].state \in Terminal => task'[t].state = task[t].state,
         task'[t].state = "completed" => task[t].state = "completed" \/ task[t].phase \notin Started
  PROVE  ContractStep(t)
<1>1. Executed(t)' = Executed(t) /\ SameRecorded(t) BY DEF Executed, SameRecorded, Recorded
<1>2. CASE Decision(t)' = Decision(t) BY <1>1, <1>2, Unseen
<1>3. CASE Decision(t)' # Decision(t)
  <2>1. Decision(t) = "open" /\ task[t].state \notin Terminal /\ Decision(t)' = task'[t].state /\ Decision(t)' \in Terminal
    BY <1>3 DEF Decision
  <2>2. ASSUME Decision(t)' = "completed" PROVE Executed(t) \subseteq Recorded(t)
    <3>1. task[t].phase \notin Started BY <2>1, <2>2 DEF Terminal
    <3>2. StepsOK(t) BY DEF Inv, SafeInv
    <3>3. step[t] \in [StepIds -> StepStates] BY DEF Inv, TypeOK
    <3>4. ASSUME NEW s \in Executed(t) PROVE s \in Recorded(t)
      <4>1. s \in StepIds /\ effects[t][s] > 0 BY DEF Executed
      <4>2. step[t][s] # "none" BY <3>2, <4>1 DEF StepsOK
      <4>3. step[t][s] # "running" BY <3>1, <3>2, <4>1 DEF StepsOK, Started, StepIds
      <4>q. QED BY <3>3, <4>1, <4>2, <4>3 DEF Recorded, StepStates
    <3>q. QED BY <3>4
  <2>q. QED BY <1>1, <2>1, <2>2, TaskDecided
<1>q. QED BY <1>2, <1>3

\* Only a worker that returns completes a task, and it has closed its last step.
LEMMA CompletedBy ==
  ASSUME Inv, Next, NEW t \in Tasks, step' = step, effects' = effects,
         task[t].state # "completed", task'[t].state = "completed"
  PROVE  task[t].phase \notin Started
<1>s. TaskTyped /\ CpTyped BY DEF Inv, TypeOK, TaskTyped, CpTyped
<1>1. ASSUME task'[t].state = task[t].state PROVE FALSE BY <1>1
<1>2. ASSUME NEW w \in Workers, NEW p, NEW d, Checkpoint(w, p, d) PROVE FALSE
  <2>1. PICK u \in Tasks : u = wk[w].task BY <1>2 DEF Checkpoint, Holds
  <2>2. task'[u].state = task[u].state /\ \A v \in Tasks : v # u => task'[v] = task[v]
    BY <1>s, <1>2, <2>1, CheckpointRow
  <2>q. QED BY <1>1, <2>2
<1>3. ASSUME NEW w \in Workers, NEW x, FinishRow(w, x)
      PROVE  t = wk[w].task /\ x = "completed" /\ Holds(w)
  <2>1. PICK u \in Tasks : u = wk[w].task BY <1>3 DEF FinishRow, MayFinish
  <2>2. task' = [task EXCEPT ![u] = [task[u] EXCEPT !.state = x, !.reply = "text",
                   !.verification = Verification(u, x), !.owner = 0, !.lease = "null"]]
    BY <1>3, <2>1 DEF FinishRow
  <2>3. \A v \in Tasks : v # u => task'[v] = task[v] BY <1>s, <2>2 DEF TaskTyped
  <2>4. t = u BY <2>3
  <2>5. task'[u] = [task[u] EXCEPT !.state = x, !.reply = "text",
                   !.verification = Verification(u, x), !.owner = 0, !.lease = "null"]
    BY <1>s, <2>2 DEF TaskTyped
  <2>6. task[u] \in Rows BY <1>s DEF TaskTyped
  <2>7. task'[u].state = x BY <2>5, <2>6 DEF Rows
  <2>8. LeaseOK(u) BY DEF Inv, SafeInv
  <2>9. Holds(w) BY <1>3, <2>1, <2>8 DEF FinishRow, MayFinish, Holds, LeaseOK
  <2>q. QED BY <2>1, <2>4, <2>7, <2>9
<1>4. ASSUME NEW w \in Workers, Finish(w) PROVE task[t].phase \notin Started
  <2>1. PICK x : x = (IF wk[w].lost = "yes" THEN "cancelled" ELSE wk[w].outcome) OBVIOUS
  <2>2. FinishRow(w, x) /\ wk[w].pc = "finishing" BY <1>4, <2>1 DEF Finish
  <2>3. t = wk[w].task /\ Holds(w) BY <1>3, <2>2
  <2>4. Knows(w) BY <2>3 DEF Inv, SafeInv, WorkerOK
  <2>q. QED BY <2>2, <2>3, <2>4 DEF Knows
<1>5. ASSUME NEW w \in Workers, FinishSuspended(w) \/ HandleError(w) PROVE FALSE
  <2>1. PICK x : FinishRow(w, x) /\ x \in {"suspended", "uncertain", "failed", "pending"}
    BY <1>5 DEF FinishSuspended, HandleError
  <2>q. QED BY <1>3, <2>1
<1>6. ASSUME NEW w \in Workers, AgentStep(w) \/ SkillAction(w) PROVE FALSE
  <2>1. CASE task' = task BY <1>1, <2>1
  <2>2. CASE \E p, d : Checkpoint(w, p, d) BY <1>2, <2>2
  <2>3. task' = task \/ \E p, d : Checkpoint(w, p, d)
    BY <1>6 DEF AgentStep, SkillAction, ModelPending, ModelReceived, ModelFeedback, ToolRefused, AskUser,
       ToolStarted, ExecuteTool, ReuseResult, ToolDone, ToolObserved, Suspend, EvaluationPending, EvaluationDone,
       CriticRetry, Conclude, Stopped, LimitReached, ReturnEarly, Finishing,
       SkillStarted, RunSkill, SkillExecuted, SkillDone
  <2>q. QED BY <2>1, <2>2, <2>3
<1>7. ASSUME NEW w \in Workers, EntryStep(w) \/ Fault(w) \/ FinishRefused(w) \/ RaiseBusy(w) PROVE FALSE
  <2>1. ASSUME NEW u \in Tasks, NEW mode \in Modes, Claim(w, u, mode) PROVE FALSE
    <3>1. PICK row : task' = [task EXCEPT ![u] = row] /\ row.state = "running"
      <4>1. PICK n : n = (IF task[u].state = "running" \/ task[u].reply # "null" THEN task[u].recoveries + 1 ELSE task[u].recoveries)
        OBVIOUS
      <4>2. task' = [task EXCEPT ![u] = [task[u] EXCEPT !.state = "running", !.owner = NewToken(u), !.lease = "live",
                      !.attempts = task[u].attempts + 1, !.recoveries = n]]
        BY <2>1, <4>1 DEF Claim
      <4>3. [task[u] EXCEPT !.state = "running", !.owner = NewToken(u), !.lease = "live",
                      !.attempts = task[u].attempts + 1, !.recoveries = n].state = "running"
        BY <1>s DEF TaskTyped, Rows
      <4>q. QED BY <4>2, <4>3
    <3>q. QED BY <1>s, <3>1 DEF TaskTyped
  <2>2. ASSUME Answer(w) PROVE FALSE
    <3>1. PICK u : u = wk[w].task OBVIOUS
    <3>2. task' = [task EXCEPT ![u] = [task[u] EXCEPT !.state = "pending", !.phase = "tool_done", !.reply = "null"]]
      BY <2>2, <3>1 DEF Answer
    <3>3. t # u \/ task'[t] = [task[t] EXCEPT !.state = "pending", !.phase = "tool_done", !.reply = "null"]
      BY <1>s, <3>2 DEF TaskTyped
    <3>4. t # u => task'[t] = task[t] BY <1>s, <3>2 DEF TaskTyped
    <3>5. task[t] \in Rows BY <1>s DEF TaskTyped
    <3>q. QED BY <1>1, <3>3, <3>4, <3>5 DEF Rows
  <2>3. CASE task' = task BY <1>1, <2>3
  <2>4. \/ task' = task \/ Answer(w)
        \/ \E u \in Tasks, mode \in Modes : Claim(w, u, mode)
    BY <1>7 DEF EntryStep, Fault, FinishRefused, RaiseBusy, ReadWait, ClaimRefused, AnswerRefused, Raise, Crash, SetLost
  <2>q. QED BY <2>1, <2>2, <2>3, <2>4
<1>8. ASSUME NEW u \in Tasks, Cancel(u) \/ (\E i \in Tasks \cup {NoTask} : RetireExpiredWait(u, i)) \/ CancelSession
      PROVE  FALSE
  <2>1. task'[t] = task[t] \/ task'[t] = Cancelled(task[t])
    BY <1>s, <1>8 DEF Cancel, RetireExpiredWait, CancelSession, TaskTyped
  <2>2. Cancelled(task[t]).state = "cancelled" BY <1>s DEF Cancelled, TaskTyped, Rows
  <2>q. QED BY <1>1, <2>1, <2>2
<1>9. ASSUME NEW u \in Tasks, ClaimUncertain(u) \/ MarkUncertain(u) \/ LeaseExpires(u) PROVE FALSE
  <2>1. task[t] \in Rows BY <1>s DEF TaskTyped
  <2>2. CASE ClaimUncertain(u)
    <3>1. task'[t] = task[t] \/ task'[t] = [task[t] EXCEPT !.state = "uncertain"]
      BY <1>s, <2>2 DEF ClaimUncertain, TaskTyped
    <3>q. QED BY <1>1, <2>1, <3>1 DEF Rows
  <2>3. CASE MarkUncertain(u)
    <3>1. task'[t] = task[t] \/ task'[t] = [task[t] EXCEPT !.state = "uncertain", !.owner = 0, !.lease = "null"]
      BY <1>s, <2>3 DEF MarkUncertain, TaskTyped
    <3>q. QED BY <1>1, <2>1, <3>1 DEF Rows
  <2>4. CASE LeaseExpires(u)
    <3>1. task'[t] = task[t] \/ task'[t] = [task[t] EXCEPT !.lease = "expired"]
      BY <1>s, <2>4 DEF LeaseExpires, TaskTyped
    <3>q. QED BY <1>1, <2>1, <3>1 DEF Rows
  <2>q. QED BY <1>9, <2>2, <2>3, <2>4
<1>10. ASSUME NEW u \in Tasks, NEW c \in Calls, Resolve(u, c) PROVE FALSE
  <2>1. step[u][c] = "running" /\ step' = [step EXCEPT ![u] = [step[u] EXCEPT ![c] = "resolved_by_human"]]
    BY <1>10 DEF Resolve
  <2>2. step \in [Tasks -> [StepIds -> StepStates]] /\ c \in StepIds BY DEF Inv, TypeOK, StepIds
  <2>3. step'[u] = [step[u] EXCEPT ![c] = "resolved_by_human"] /\ step[u] \in [StepIds -> StepStates] BY <2>1, <2>2
  <2>4. step'[u][c] = "resolved_by_human" BY <2>2, <2>3
  <2>q. QED BY <2>1, <2>4
<1>q. QED BY <1>4, <1>5, <1>6, <1>7, <1>8, <1>9, <1>10 DEF Next, WorkerStep, EndStep, HumanStep, ScanStep

\* /resolve settles the call it was asked about.
LEMMA ResolutionSeen ==
  ASSUME Inv, NEW t \in Tasks, NEW u \in Tasks, NEW c \in Calls, Resolve(u, c)
  PROVE  ContractStep(t)
<1>s. TaskTyped /\ StepTyped BY DEF Inv, TypeOK, TaskTyped, StepTyped
<1>1. Executed(t)' = Executed(t) BY DEF Resolve, Executed
<1>2. task' = [task EXCEPT ![u] = [task[u] EXCEPT !.state = "pending", !.phase = "tool_done", !.owner = 0, !.lease = "null"]]
  BY DEF Resolve
<1>3. /\ task'[u] = [task[u] EXCEPT !.state = "pending", !.phase = "tool_done", !.owner = 0, !.lease = "null"]
      /\ \A v \in Tasks : v # u => task'[v] = task[v]
  BY <1>s, <1>2 DEF TaskTyped
<1>4. task'[u].state = "pending" /\ task[u].state = "uncertain"
  <2>1. task[u] \in Rows BY <1>s DEF TaskTyped
  <2>2. task'[u].state = "pending" BY <1>3, <2>1 DEF Rows
  <2>q. QED BY <2>2 DEF Resolve
<1>5. Decision(t)' = Decision(t) /\ Decision(u) = "open" BY <1>3, <1>4 DEF Decision, Terminal
<1>6. step' = [step EXCEPT ![u] = [step[u] EXCEPT ![c] = "resolved_by_human"]] /\ step[u][c] = "running" BY DEF Resolve
<1>7. c \in StepIds /\ step[u] \in [StepIds -> StepStates] BY <1>s DEF StepTyped, StepIds
<1>8. step'[u] = [step[u] EXCEPT ![c] = "resolved_by_human"] /\ \A v \in Tasks : v # u => step'[v] = step[v]
  BY <1>s, <1>6 DEF StepTyped
<1>9. step'[u][c] = "resolved_by_human" /\ \A r \in StepIds : r # c => step'[u][r] = step[u][r]
  BY <1>7, <1>8
<1>10. CASE t = u
  <2>1. c \notin Recorded(t) BY <1>6, <1>10 DEF Recorded
  <2>2. Recorded(t)' = Recorded(t) \cup {c} BY <1>7, <1>9, <1>10 DEF Recorded
  <2>q. QED BY <1>1, <1>5, <1>7, <1>10, <2>1, <2>2, ResultSettled
<1>11. CASE t # u
  <2>1. SameRecorded(t) BY <1>8, <1>11 DEF SameRecorded, Recorded
  <2>q. QED BY <1>1, <1>5, <2>1, Unseen
<1>q. QED BY <1>10, <1>11

\* Only the saves with a step and /resolve write the step table.
LEMMA StepsBy ==
  ASSUME Next
  PROVE  \/ step' = step
         \/ \E w \in Workers :
              \/ \E c \in Calls : ToolRefused(w, c) \/ ToolStarted(w, c)
              \/ \E r \in Results : ToolDone(w, r) \/ ToolObserved(w, r)
              \/ SkillStarted(w) \/ SkillExecuted(w)
              \/ \E v \in Verdicts : SkillDone(w, v)
         \/ \E u \in Tasks, c \in Calls : Resolve(u, c)
<1>1. ASSUME NEW w \in Workers, AgentStep(w)
      PROVE  \/ step' = step
             \/ \E c \in Calls : ToolRefused(w, c) \/ ToolStarted(w, c)
             \/ \E r \in Results : ToolDone(w, r) \/ ToolObserved(w, r)
  BY <1>1 DEF AgentStep, ModelPending, ModelReceived, ModelFeedback, AskUser, ExecuteTool, ReuseResult, Suspend,
     EvaluationPending, EvaluationDone, CriticRetry, Conclude, Stopped, LimitReached, ReturnEarly, Finishing
<1>2. ASSUME NEW w \in Workers, SkillAction(w)
      PROVE  \/ step' = step
             \/ SkillStarted(w) \/ SkillExecuted(w)
             \/ \E v \in Verdicts : SkillDone(w, v)
  BY <1>2 DEF SkillAction, RunSkill
<1>3. ASSUME NEW w \in Workers, EndStep(w) \/ EntryStep(w) \/ Fault(w) PROVE step' = step
  BY <1>3 DEF EndStep, EntryStep, Fault, Finish, FinishSuspended, FinishRefused, RaiseBusy, HandleError, FinishRow,
     Claim, ReadWait, ClaimRefused, Answer, AnswerRefused, Raise, Crash, SetLost
<1>4. ASSUME NEW u \in Tasks, HumanStep(u) \/ ScanStep(u) \/ LeaseExpires(u)
      PROVE  step' = step \/ \E c \in Calls : Resolve(u, c)
  BY <1>4 DEF HumanStep, ScanStep, LeaseExpires, Cancel, RetireExpiredWait, ClaimUncertain, MarkUncertain
<1>5. CancelSession => step' = step BY DEF CancelSession
<1>q. QED BY <1>1, <1>2, <1>3, <1>4, <1>5 DEF Next, WorkerStep

\* Every step of the lease protocol is, for every task, a step of the contract or unseen.
LEMMA ContractNextStep ==
  ASSUME Inv, DataInv, [Next]_vars, NEW t \in Tasks
  PROVE  ContractStep(t)
<1>1. CASE UNCHANGED vars
  BY <1>1, Unseen DEF vars, Executed, SameRecorded, Recorded, Decision
<1>2. CASE Next
  <2>1. ASSUME NEW w \in Workers, ExecuteTool(w) \/ \E r \in Results : RunSkill(w, r) PROVE ContractStep(t)
    BY <2>1, ExecutionSeen
  <2>2. ASSUME NEW w \in Workers,
               \/ \E c \in Calls : ToolRefused(w, c) \/ ToolStarted(w, c)
               \/ \E r \in Results : ToolDone(w, r) \/ ToolObserved(w, r)
               \/ SkillStarted(w) \/ SkillExecuted(w)
               \/ \E v \in Verdicts : SkillDone(w, v)
        PROVE  ContractStep(t)
    BY <2>2, ResultsSeen
  <2>3. ASSUME NEW u \in Tasks, NEW c \in Calls, Resolve(u, c) PROVE ContractStep(t)
    BY <2>3, ResolutionSeen
  <2>4. ASSUME step' = step, effects' = effects PROVE ContractStep(t)
    <3>1. SafeInv /\ TaskTyped /\ CpTyped /\ StepTyped BY DEF Inv, TypeOK, TaskTyped, CpTyped, StepTyped
    <3>2. task[t].state \in Terminal => task'[t].state = task[t].state
      BY <1>2, <3>1, TerminalStep DEF Row
    <3>3. task'[t].state = "completed" => task[t].state = "completed" \/ task[t].phase \notin Started
      BY <1>2, <2>4, CompletedBy
    <3>q. QED BY <2>4, <3>2, <3>3, RowSeen
  <2>q. QED BY <1>2, <2>1, <2>2, <2>3, <2>4, EffectsBy, StepsBy
<1>q. QED BY <1>1, <1>2

\* Before anything was claimed nothing was called, learnt or decided.
LEMMA ContractStart == Init => \A t \in Tasks : Contract(t)!ContractInit
BY DEF Init, NoRow, Contract!ContractInit, Executed, Recorded, Decision, Terminal

\* Whatever the crashes, lease expiries, recoveries, paused workers, resolutions and
\* cancellations, a task run by TaskStore, durable_invoke and run_agent keeps the
\* contract that the Temporal backend keeps too: each call made once, settled once and
\* only while the task is open, one outcome, and no success over a call that was made
\* and whose result nobody recorded.
THEOREM ContractsHonoured == Spec => ContractHonoured
<1>1. Inv /\ DataInv /\ [Next]_vars =>
        [\A t \in Tasks : [Contract(t)!ContractNext]_(Contract(t)!contractVars)]_vars
  BY ContractNextStep DEF ContractStep
<1>q. QED BY <1>1, ContractStart, Invariance, DataAlways, PTL DEF Spec, ContractHonoured

\* The same as a refinement: for every task, the lease protocol implements the abstract
\* specification.
THEOREM LocalContract == Spec => \A t \in Tasks : Contract(t)!ContractSpec
<1> SUFFICES ASSUME NEW t \in Tasks PROVE Spec => Contract(t)!ContractSpec OBVIOUS
<1>1. Init => Contract(t)!ContractInit BY ContractStart
<1>2. Inv /\ DataInv /\ [Next]_vars => [Contract(t)!ContractNext]_(Contract(t)!contractVars)
  BY ContractNextStep DEF ContractStep
<1>q. QED BY <1>1, <1>2, Invariance, DataAlways, PTL DEF Spec, Contract!ContractSpec

-----------------------------------------------------------------------------
(* The row of a task takes the steps of TaskRow.                             *)

TurnPcs == AgentPcs \cup SkillPcs

\* A started tool belongs to the worker that started it, or to a human.
StartedOK == \A t \in Tasks : task[t].phase \in Started => task[t].state \in {"running", "uncertain", "cancelled"}

\* An answered question has a result, in the row and for the worker that holds it;
\* whoever answers has read a question.
AnswersOK ==
  /\ \A t \in Tasks : Answered(t) \subseteq cp[t].done
  /\ \A w \in Workers : /\ Holds(w) /\ wk[w].pc \in TurnPcs => Answered(wk[w].task) \subseteq wk[w].done
                        /\ wk[w].pc = "answering" => wk[w].cur # NoCall

\* What a step may do to the row of u.  Nothing that the queue sees:
RowKept(u) == task'[u] = task[u] /\ cp'[u] = cp[u] /\ answerOf'[u] = answerOf[u]

\* Its holder saves a checkpoint and loses no result:
RowSaved(u) ==
  /\ \E w \in Workers : Holds(w) /\ wk[w].task = u /\ wk[w].pc \in TurnPcs /\ wk[w].done \subseteq cp'[u].done
  /\ task'[u].state = task[u].state /\ task'[u].lease = task[u].lease /\ task'[u].owner = task[u].owner
  /\ answerOf'[u] = answerOf[u]

\* The columns beside the checkpoint change: from state, lease and phase as they are to x and l.
RowPut(u, x, l) ==
  /\ task'[u].state = x /\ task'[u].lease = l /\ task'[u].phase = task[u].phase
  /\ cp'[u] = cp[u] /\ answerOf'[u] = answerOf[u]

RowClaimed(u) ==
  /\ task[u].state \in {"absent", "pending", "running"} /\ task[u].lease # "live" /\ task[u].phase \notin Started
  /\ RowPut(u, "running", "live") /\ task'[u].owner = task[u].attempts + 1

\* finish, after a return, a question or an error:
RowLeft(u) ==
  /\ task[u].state = "running" /\ task[u].lease = "live"
  /\ \/ task[u].phase \notin Started /\ \E x \in Terminal \cup {"pending"} : RowPut(u, x, "null")
     \/ task[u].phase = "waiting_user" /\ RowPut(u, "suspended", "null")
     \/ task[u].phase \in Started /\ RowPut(u, "uncertain", "null")

RowAnswered(u) ==
  /\ task[u].state = "suspended" /\ task[u].phase = "waiting_user" /\ cp[u].wait \in Calls
  /\ task'[u].state = "pending" /\ task'[u].lease = task[u].lease /\ task'[u].phase = "tool_done"
  /\ cp'[u].done = cp[u].done \cup {cp[u].wait}
  /\ Answered(u)' = Answered(u) \cup {cp[u].wait}

RowResolved(u) ==
  /\ task[u].state = "uncertain" /\ task[u].phase = "tool_started"
  /\ task'[u].state = "pending" /\ task'[u].lease = "null" /\ task'[u].phase = "tool_done"
  /\ cp[u].done \subseteq cp'[u].done /\ answerOf'[u] = answerOf[u]

RowCancelled(u) == task[u].state \notin Terminal \cup {"absent"} /\ RowPut(u, "cancelled", "null")

RowGivenUp(u) ==
  /\ task[u].state = "running" /\ task[u].lease # "live"
  /\ task[u].phase \in Started \/ task[u].lease = "expired"
  /\ \E l \in {task[u].lease, "null"} : RowPut(u, "uncertain", l)

RowExpired(u) == task[u].lease = "live" /\ RowPut(u, task[u].state, "expired")

RowBy(u) ==
  \/ RowKept(u) \/ RowSaved(u) \/ RowClaimed(u) \/ RowLeft(u) \/ RowAnswered(u)
  \/ RowResolved(u) \/ RowCancelled(u) \/ RowGivenUp(u) \/ RowExpired(u)

\* A checkpoint of the worker's turn.
LEMMA SavedBy ==
  ASSUME TaskTyped, CpTyped, NEW w \in Workers, wk[w].pc \in TurnPcs, answerOf' = answerOf,
         NEW p, NEW d, wk[w].done \subseteq d.done, Checkpoint(w, p, d), NEW u \in Tasks
  PROVE  RowBy(u)
<1>1. PICK t \in Tasks : t = wk[w].task BY DEF Checkpoint, Holds
<1>2. /\ Holds(w) /\ cp'[t] = d
      /\ task'[t].state = task[t].state /\ task'[t].owner = task[t].owner /\ task'[t].lease = task[t].lease
      /\ \A v \in Tasks : v # t => task'[v] = task[v] /\ cp'[v] = cp[v]
  BY <1>1, CheckpointRow
<1>3. CASE u = t BY <1>1, <1>2, <1>3 DEF RowBy, RowSaved
<1>4. CASE u # t BY <1>2, <1>4 DEF RowBy, RowKept
<1>q. QED BY <1>3, <1>4

\* The claim.
LEMMA ClaimedBy ==
  ASSUME TaskTyped, NEW w \in Workers, NEW t \in Tasks, NEW mode \in Modes, Claim(w, t, mode), NEW u \in Tasks
  PROVE  RowBy(u)
<1>1. PICK n : n = task[t].attempts + 1 OBVIOUS
<1>2. PICK rec : task' = [task EXCEPT ![t] = [task[t] EXCEPT !.state = "running", !.owner = n, !.lease = "live",
                                                           !.attempts = n, !.recoveries = rec]]
  BY <1>1 DEF Claim, NewToken
<1>3. task'[t] = [task[t] EXCEPT !.state = "running", !.owner = n, !.lease = "live", !.attempts = n, !.recoveries = rec]
  BY <1>2 DEF TaskTyped
<1>4. task[t] \in Rows BY DEF TaskTyped
<1>5. /\ task'[t].state = "running" /\ task'[t].lease = "live" /\ task'[t].owner = n
      /\ task'[t].phase = task[t].phase
  BY <1>3, <1>4 DEF Rows
<1>6. cp' = cp /\ answerOf' = answerOf /\ Claimable(t) BY DEF Claim
<1>7. CASE u = t BY <1>1, <1>5, <1>6, <1>7 DEF RowBy, RowClaimed, RowPut, Claimable
<1>8. CASE u # t BY <1>2, <1>6, <1>8 DEF RowBy, RowKept, TaskTyped
<1>q. QED BY <1>7, <1>8

\* The endings: what was started is given up, a question is left with the task.
LEMMA LeftBy ==
  ASSUME Inv, NEW w \in Workers, Finish(w) \/ FinishSuspended(w) \/ HandleError(w), NEW u \in Tasks
  PROVE  RowBy(u)
<1>1. PICK x : /\ FinishRow(w, x)
               /\ \/ wk[w].pc = "finishing" /\ x \in Terminal
                  \/ wk[w].pc = "suspending" /\ x = "suspended"
                  \/ task[wk[w].task].phase \in Started /\ x = "uncertain"
                  \/ task[wk[w].task].phase \notin Started /\ x \in {"failed", "pending"}
  <2>1. CASE Finish(w)
    <3>1. wk[w].pc = "finishing" /\ wk[w].outcome \in {"completed", "failed"} BY <2>1 DEF Finish, Inv, MemoryShape
    <3>q. QED BY <2>1, <3>1 DEF Finish, Terminal
  <2>2. CASE FinishSuspended(w) BY <2>2 DEF FinishSuspended
  <2>3. CASE HandleError(w) BY <2>3 DEF HandleError
  <2>q. QED BY <2>1, <2>2, <2>3
<1>2. PICK t \in Tasks : t = wk[w].task BY <1>1 DEF FinishRow, MayFinish
<1>3. PICK y : y = Verification(t, x) OBVIOUS
<1>4. task' = [task EXCEPT ![t] = [task[t] EXCEPT !.state = x, !.reply = "text", !.verification = y,
                                                  !.owner = 0, !.lease = "null"]]
  BY <1>1, <1>2, <1>3 DEF FinishRow
<1>5. task \in [Tasks -> Rows] BY DEF Inv, TypeOK
<1>6. task'[t] = [task[t] EXCEPT !.state = x, !.reply = "text", !.verification = y, !.owner = 0, !.lease = "null"]
  BY <1>4, <1>5
<1>7. task'[t].state = x /\ task'[t].lease = "null" /\ task'[t].phase = task[t].phase
  BY <1>5, <1>6 DEF Rows
<1>8. cp' = cp /\ answerOf' = answerOf BY <1>1 DEF FinishRow
<1>9. RowPut(t, x, "null") BY <1>7, <1>8 DEF RowPut
<1>10. task[t].state = "running" /\ task[t].lease = "live" /\ Holds(w)
  <2>1. LeaseOK(t) BY DEF Inv, SafeInv
  <2>q. QED BY <1>1, <1>2, <2>1 DEF FinishRow, MayFinish, LeaseOK, Holds
<1>11. Knows(w) BY <1>10 DEF Inv, SafeInv, WorkerOK
<1>12. RowLeft(t)
  <2>1. wk[w].pc = "finishing" => task[t].phase \notin Started BY <1>2, <1>11 DEF Knows
  <2>2. wk[w].pc = "suspending" => task[t].phase = "waiting_user" BY <1>2, <1>11 DEF Knows
  <2>q. QED BY <1>1, <1>2, <1>9, <1>10, <2>1, <2>2 DEF RowLeft, Terminal
<1>13. CASE u = t BY <1>12, <1>13 DEF RowBy
<1>14. CASE u # t BY <1>4, <1>5, <1>8, <1>14 DEF RowBy, RowKept
<1>q. QED BY <1>13, <1>14

\* An answer, to the question that the row holds.
LEMMA AnsweredBy ==
  ASSUME Inv, DataInv, AnswersOK, NEW w \in Workers, Answer(w), NEW u \in Tasks
  PROVE  RowBy(u)
<1>1. PICK t \in Tasks : t = wk[w].task
  <2>1. WorkerOK(w) BY DEF Inv, SafeInv
  <2>q. QED BY <2>1 DEF WorkerOK, Answer
<1>s. task \in [Tasks -> Rows] /\ cp \in [Tasks -> Checkpoints] /\ answerOf \in [Tasks -> [Calls -> StepIds \cup {NoCall}]]
  BY DEF Inv, TypeOK
<1>2. task' = [task EXCEPT ![t] = [task[t] EXCEPT !.state = "pending", !.phase = "tool_done", !.reply = "null"]]
  BY <1>1 DEF Answer
<1>3. task'[t] = [task[t] EXCEPT !.state = "pending", !.phase = "tool_done", !.reply = "null"] BY <1>2, <1>s
<1>4. task'[t].state = "pending" /\ task'[t].phase = "tool_done" /\ task'[t].lease = task[t].lease
  BY <1>s, <1>3 DEF Rows
<1>5. cp' = [cp EXCEPT ![t] = [cp[t] EXCEPT !.done = cp[t].done \cup {cp[t].wait}, !.wait = NoCall]]
  BY <1>1 DEF Answer
<1>6. cp'[t] = [cp[t] EXCEPT !.done = cp[t].done \cup {cp[t].wait}, !.wait = NoCall] BY <1>5, <1>s
<1>7. cp'[t].done = cp[t].done \cup {cp[t].wait} BY <1>s, <1>6 DEF Checkpoints
<1>8. task[t].state = "suspended" /\ task[t].phase = "waiting_user"
  <2>1. LeaseOK(t) BY DEF Inv, SafeInv
  <2>q. QED BY <1>1, <2>1 DEF Answer, LeaseOK
<1>9. cp[t].wait \in Calls
  <2>1. RowOK(t) BY DEF DataInv
  <2>q. QED BY <1>s, <1>8, <2>1 DEF RowOK, Checkpoints
<1>10. PICK q \in Calls : q = cp[t].wait BY <1>9
<1>11. wk[w].cur # NoCall BY DEF AnswersOK, Answer
<1>12. answerOf' = [answerOf EXCEPT ![t] = [answerOf[t] EXCEPT ![q] = wk[w].cur]] BY <1>1, <1>10 DEF Answer
<1>13. answerOf'[t] = [answerOf[t] EXCEPT ![q] = wk[w].cur] BY <1>s, <1>12
<1>14. answerOf'[t][q] = wk[w].cur /\ \A c \in Calls : c # q => answerOf'[t][c] = answerOf[t][c] BY <1>s, <1>13
<1>15. Answered(t)' = Answered(t) \cup {q} BY <1>11, <1>14 DEF Answered
<1>16. CASE u = t BY <1>4, <1>7, <1>8, <1>9, <1>10, <1>15, <1>16 DEF RowBy, RowAnswered
<1>17. CASE u # t BY <1>2, <1>5, <1>12, <1>s, <1>17 DEF RowBy, RowKept
<1>q. QED BY <1>16, <1>17

\* /resolve.
LEMMA ResolvedBy ==
  ASSUME TaskTyped, CpTyped, NEW t \in Tasks, NEW c \in Calls, Resolve(t, c), NEW u \in Tasks
  PROVE  RowBy(u)
<1>1. task' = [task EXCEPT ![t] = [task[t] EXCEPT !.state = "pending", !.phase = "tool_done", !.owner = 0, !.lease = "null"]]
  BY DEF Resolve
<1>2. task'[t] = [task[t] EXCEPT !.state = "pending", !.phase = "tool_done", !.owner = 0, !.lease = "null"]
  BY <1>1 DEF TaskTyped
<1>3. task[t] \in Rows BY DEF TaskTyped
<1>4. task'[t].state = "pending" /\ task'[t].phase = "tool_done" /\ task'[t].lease = "null" BY <1>2, <1>3 DEF Rows
<1>5. cp'[t] = [cp[t] EXCEPT !.done = @ \cup {c}] /\ cp[t] \in Checkpoints BY DEF Resolve, CpTyped
<1>6. cp[t].done \subseteq cp'[t].done BY <1>5 DEF Checkpoints
<1>7. task[t].state = "uncertain" /\ task[t].phase = "tool_started" /\ answerOf' = answerOf BY DEF Resolve
<1>8. CASE u = t BY <1>4, <1>6, <1>7, <1>8 DEF RowBy, RowResolved
<1>9. CASE u # t BY <1>1, <1>7, <1>9 DEF RowBy, RowKept, Resolve, TaskTyped, CpTyped
<1>q. QED BY <1>8, <1>9

\* Cancellation, time and the recovery scan.
LEMMA TakenBy ==
  ASSUME TaskTyped, StartedOK, NEW u \in Tasks,
         \/ \E t \in Tasks : \/ Cancel(t) \/ LeaseExpires(t) \/ ClaimUncertain(t) \/ MarkUncertain(t)
                             \/ \E i \in Tasks \cup {NoTask} : RetireExpiredWait(t, i)
         \/ CancelSession
  PROVE  RowBy(u)
<1>1. cp' = cp /\ answerOf' = answerOf
  BY DEF Cancel, LeaseExpires, ClaimUncertain, MarkUncertain, RetireExpiredWait, CancelSession
<1>2. task[u] \in Rows BY DEF TaskTyped
<1>3. ASSUME task'[u] = Cancelled(task[u]), task[u].state \notin Terminal \cup {"absent"} PROVE RowBy(u)
  BY <1>1, <1>2, <1>3, CancelledFields DEF RowBy, RowCancelled, RowPut
<1>4. ASSUME task'[u] = task[u] PROVE RowBy(u) BY <1>1, <1>4 DEF RowBy, RowKept
<1>5. ASSUME CancelSession PROVE RowBy(u) BY <1>3, <1>4, <1>5 DEF CancelSession
<1>6. ASSUME NEW t \in Tasks, Cancel(t) \/ \E i \in Tasks \cup {NoTask} : RetireExpiredWait(t, i) PROVE RowBy(u)
  <2>1. task' = [task EXCEPT ![t] = Cancelled(@)] /\ task[t].state \notin Terminal \cup {"absent"}
    BY <1>6 DEF Cancel, RetireExpiredWait, Terminal
  <2>q. QED BY <1>3, <1>4, <2>1 DEF TaskTyped
<1>7. ASSUME LeaseExpires(u) PROVE RowBy(u)
  <2>1. task'[u] = [task[u] EXCEPT !.lease = "expired"] /\ task[u].lease = "live" BY <1>7 DEF LeaseExpires, TaskTyped
  <2>2. task'[u].state = task[u].state /\ task'[u].lease = "expired" /\ task'[u].phase = task[u].phase
    BY <1>2, <2>1 DEF Rows
  <2>q. QED BY <1>1, <2>1, <2>2 DEF RowBy, RowExpired, RowPut
<1>8. ASSUME ClaimUncertain(u) PROVE RowBy(u)
  <2>1. task'[u] = [task[u] EXCEPT !.state = "uncertain"] BY <1>8 DEF ClaimUncertain, TaskTyped
  <2>2. task'[u].state = "uncertain" /\ task'[u].lease = task[u].lease /\ task'[u].phase = task[u].phase
    BY <1>2, <2>1 DEF Rows
  <2>3. task[u].phase \in Started /\ task[u].lease # "live" /\ task[u].state = "running"
    BY <1>8 DEF ClaimUncertain, StartedOK, Terminal
  <2>q. QED BY <1>1, <2>2, <2>3 DEF RowBy, RowGivenUp, RowPut
<1>9. ASSUME MarkUncertain(u) PROVE RowBy(u)
  <2>1. task'[u] = [task[u] EXCEPT !.state = "uncertain", !.owner = 0, !.lease = "null"] BY <1>9 DEF MarkUncertain, TaskTyped
  <2>2. task'[u].state = "uncertain" /\ task'[u].lease = "null" /\ task'[u].phase = task[u].phase
    BY <1>2, <2>1 DEF Rows
  <2>q. QED BY <1>1, <1>9, <2>2 DEF RowBy, RowGivenUp, RowPut, MarkUncertain
<1>10. ASSUME NEW t \in Tasks, t # u, LeaseExpires(t) \/ ClaimUncertain(t) \/ MarkUncertain(t) PROVE RowBy(u)
  BY <1>4, <1>10 DEF LeaseExpires, ClaimUncertain, MarkUncertain, TaskTyped
<1>q. QED BY <1>5, <1>6, <1>7, <1>8, <1>9, <1>10

\* Of a worker's turn only the saves touch a row, and they lose no result.
LEMMA TurnBy ==
  ASSUME CpTyped, NEW w \in Workers, AgentStep(w) \/ SkillAction(w)
  PROVE  /\ answerOf' = answerOf
         /\ \/ UNCHANGED <<task, cp>>
            \/ wk[w].pc \in TurnPcs /\ \E p, d : wk[w].done \subseteq d.done /\ Checkpoint(w, p, d)
<1>1. CASE ModelPending(w) \/ EvaluationPending(w) \/ CriticRetry(w) \/ (\E v \in Verdicts : EvaluationDone(w, v))
           \/ (\E c \in Calls : ToolStarted(w, c))
  BY <1>1, SavedDone DEF ModelPending, LoopHead, EvaluationPending, CriticRetry, EvaluationDone, ToolStarted, InBatch,
     TurnPcs, AgentPcs
<1>m. ASSUME NEW p, NEW a, NEW e, wk[w].done \subseteq e, Checkpoint(w, p, Messages(w, a, e)), answerOf' = answerOf,
             wk[w].pc \in TurnPcs
      PROVE  /\ answerOf' = answerOf
             /\ wk[w].pc \in TurnPcs /\ \E q, d : wk[w].done \subseteq d.done /\ Checkpoint(w, q, d)
  <2>1. PICK d : d = Messages(w, a, e) OBVIOUS
  <2>2. d.done = e BY <2>1, SavedDone
  <2>q. QED BY <1>m, <2>1, <2>2
<1>2. CASE (\E cs \in SUBSET Calls : ModelReceived(w, cs)) \/ (\E c \in Calls : ToolRefused(w, c))
           \/ \E r \in Results : ToolDone(w, r) \/ ToolObserved(w, r)
  <2>1. ASSUME NEW cs \in SUBSET Calls, ModelReceived(w, cs)
        PROVE  /\ Checkpoint(w, "model_received", Messages(w, cs, wk[w].done)) /\ answerOf' = answerOf
               /\ wk[w].pc \in TurnPcs
    BY <2>1 DEF ModelReceived, TurnPcs, AgentPcs
  <2>2. ASSUME NEW c \in Calls, ToolRefused(w, c)
        PROVE  /\ Checkpoint(w, "tool_done", Messages(w, wk[w].asked, wk[w].done \cup {c})) /\ answerOf' = answerOf
               /\ wk[w].pc \in TurnPcs
    BY <2>2 DEF ToolRefused, InBatch, TurnPcs, AgentPcs
  <2>3. ASSUME NEW r \in Results, ToolDone(w, r) \/ ToolObserved(w, r)
        PROVE  /\ Checkpoint(w, "tool_done", Messages(w, wk[w].asked, wk[w].done \cup {wk[w].cur})) /\ answerOf' = answerOf
               /\ wk[w].pc \in TurnPcs
    BY <2>3 DEF ToolDone, ToolObserved, TurnPcs, AgentPcs
  <2>4. CASE \E cs \in SUBSET Calls : ModelReceived(w, cs) BY <1>m, <2>1, <2>4
  <2>5. CASE \E c \in Calls : ToolRefused(w, c)
    <3>1. PICK c \in Calls : ToolRefused(w, c) BY <2>5
    <3>2. wk[w].done \subseteq wk[w].done \cup {c} OBVIOUS
    <3>q. QED BY <1>m, <2>2, <3>1, <3>2
  <2>6. CASE \E r \in Results : ToolDone(w, r) \/ ToolObserved(w, r)
    <3>1. wk[w].done \subseteq wk[w].done \cup {wk[w].cur} OBVIOUS
    <3>q. QED BY <1>m, <2>3, <2>6, <3>1
  <2>q. QED BY <1>2, <2>4, <2>5, <2>6
<1>3. CASE SkillStarted(w) \/ SkillExecuted(w) \/ \E v \in Verdicts : SkillDone(w, v)
  <2>1. ASSUME SkillStarted(w)
        PROVE  Checkpoint(w, "skill_started", Saved(w)) /\ answerOf' = answerOf /\ wk[w].pc \in TurnPcs
    BY <2>1 DEF SkillStarted, TurnPcs, SkillPcs
  <2>2. ASSUME SkillExecuted(w)
        PROVE  /\ Checkpoint(w, "skill_executed", [Saved(w) EXCEPT !.skill = wk[w].result]) /\ answerOf' = answerOf
               /\ wk[w].pc \in TurnPcs
    BY <2>2 DEF SkillExecuted, TurnPcs, SkillPcs
  <2>3. ASSUME NEW v \in Verdicts, SkillDone(w, v)
        PROVE  /\ \E r : Checkpoint(w, "skill_done", [Saved(w) EXCEPT !.skill = r, !.eval = v])
               /\ answerOf' = answerOf /\ wk[w].pc \in TurnPcs
    BY <2>3 DEF SkillDone, TurnPcs, SkillPcs
  <2>4. CASE SkillStarted(w) BY <2>1, <2>4, SavedDone
  <2>5. CASE SkillExecuted(w)
    <3>1. PICK d : d = [Saved(w) EXCEPT !.skill = wk[w].result] OBVIOUS
    <3>2. d.done = wk[w].done BY <3>1, SavedDone
    <3>q. QED BY <2>2, <2>5, <3>1, <3>2
  <2>6. CASE \E v \in Verdicts : SkillDone(w, v)
    <3>1. PICK v \in Verdicts : SkillDone(w, v) BY <2>6
    <3>2. PICK r : Checkpoint(w, "skill_done", [Saved(w) EXCEPT !.skill = r, !.eval = v]) BY <2>3, <3>1
    <3>3. PICK d : d = [Saved(w) EXCEPT !.skill = r, !.eval = v] OBVIOUS
    <3>4. d.done = wk[w].done BY <3>3, SavedDone
    <3>q. QED BY <2>3, <3>1, <3>2, <3>3, <3>4
  <2>q. QED BY <1>3, <2>4, <2>5, <2>6
<1>4. CASE Suspend(w)
  <2>1. PICK d : d = [cp[wk[w].task] EXCEPT !.asked = wk[w].asked, !.done = wk[w].done, !.wait = wk[w].ask] OBVIOUS
  <2>2. Checkpoint(w, "waiting_user", d) BY <1>4, <2>1 DEF Suspend
  <2>3. cp[wk[w].task] \in Checkpoints BY <2>2 DEF Checkpoint, Holds, CpTyped
  <2>4. d.done = wk[w].done BY <2>1, <2>3 DEF Checkpoints
  <2>q. QED BY <1>4, <2>2, <2>4 DEF Suspend, TurnPcs, AgentPcs
<1>5. CASE (\E cs \in SUBSET Calls : ModelFeedback(w, cs)) \/ (\E c \in Calls : AskUser(w, c)) \/ ExecuteTool(w)
           \/ ReuseResult(w) \/ Conclude(w) \/ Stopped(w) \/ LimitReached(w)
           \/ (\E o \in {"completed", "failed"} : ReturnEarly(w, o)) \/ \E r \in Results : RunSkill(w, r)
  BY <1>5 DEF ModelFeedback, AskUser, ExecuteTool, ReuseResult, Conclude, Stopped, LimitReached, ReturnEarly, Finishing,
     RunSkill
<1>q. QED BY <1>1, <1>2, <1>3, <1>4, <1>5 DEF AgentStep, SkillAction

\* Every step does one of these things to every row.
LEMMA NextBy ==
  ASSUME Inv, DataInv, AnswersOK, StartedOK, [Next]_vars, NEW u \in Tasks
  PROVE  RowBy(u)
<1>s. TaskTyped /\ CpTyped BY DEF Inv, TypeOK, TaskTyped, CpTyped
<1>1. ASSUME UNCHANGED <<task, cp, answerOf>> PROVE RowBy(u) BY <1>1 DEF RowBy, RowKept
<1>2. ASSUME NEW w \in Workers, AgentStep(w) \/ SkillAction(w) PROVE RowBy(u)
  BY <1>s, <1>1, <1>2, TurnBy, SavedBy
<1>3. ASSUME NEW w \in Workers, EndStep(w) \/ EntryStep(w) \/ Fault(w) PROVE RowBy(u)
  <2>1. CASE Finish(w) \/ FinishSuspended(w) \/ HandleError(w) BY <2>1, LeftBy
  <2>2. CASE Answer(w) BY <2>2, AnsweredBy
  <2>3. CASE \E t \in Tasks, mode \in Modes : Claim(w, t, mode) BY <1>s, <2>3, ClaimedBy
  <2>4. CASE UNCHANGED <<task, cp, answerOf>> BY <1>1, <2>4
  <2>q. QED BY <1>3, <2>1, <2>2, <2>3, <2>4 DEF EndStep, EntryStep, Fault, FinishRefused, RaiseBusy, ReadWait,
        ClaimRefused, AnswerRefused, Raise, Crash, SetLost
<1>4. ASSUME NEW t \in Tasks, HumanStep(t) \/ ScanStep(t) \/ LeaseExpires(t) PROVE RowBy(u)
  BY <1>s, <1>4, TakenBy, ResolvedBy DEF HumanStep, ScanStep
<1>5. ASSUME CancelSession PROVE RowBy(u) BY <1>s, <1>5, TakenBy
<1>6. CASE UNCHANGED vars BY <1>1, <1>6 DEF vars
<1>q. QED BY <1>2, <1>3, <1>4, <1>5, <1>6 DEF Next, WorkerStep

\* The worker goes on with its turn, keeps its token and loses no result.
GoesOn(w) ==
  /\ wk[w].pc \in TurnPcs /\ wk'[w].task = wk[w].task /\ wk'[w].token = wk[w].token
  /\ wk[w].done \subseteq wk'[w].done /\ wk'[w].pc # "answering"

\* It leaves the turn, or was in none.
Leaves(w) == wk'[w].pc \notin TurnPcs \cup {"answering"}

\* A step of the turn.
LEMMA TurnMemory ==
  ASSUME WkTyped, NEW w \in Workers, AgentStep(w) \/ SkillAction(w)
  PROVE  Others(w) /\ (GoesOn(w) \/ Leaves(w))
<1>s. wk[w] \in Memories BY DEF WkTyped
<1>1. ASSUME NEW m, wk' = [wk EXCEPT ![w] = m], wk[w].pc \in TurnPcs, m.task = wk[w].task, m.token = wk[w].token,
             wk[w].done \subseteq m.done, m.pc # "answering"
      PROVE  Others(w) /\ GoesOn(w)
  BY <1>1 DEF WkTyped, Others, GoesOn
<1>2. ASSUME NEW p \in {"finishing", "raising", "suspending"}, NEW o, wk' = [wk EXCEPT ![w] = Leaving(w, p, o)]
      PROVE  Others(w) /\ Leaves(w)
  <2>1. Leaving(w, p, o).pc = p BY LeavingFields
  <2>q. QED BY <1>2, <2>1 DEF WkTyped, Others, Leaves, TurnPcs, AgentPcs, SkillPcs
<1>3. ASSUME ModelPending(w) PROVE Others(w) /\ GoesOn(w)
  <2>1. PICK m : m = [wk[w] EXCEPT !.pc = "calling", !.iter = wk[w].iter + 1,
                                   !.resume = IF wk[w].pc = "model" THEN wk[w].resume ELSE "no"]
    OBVIOUS
  <2>2. wk' = [wk EXCEPT ![w] = m] BY <1>3, <2>1 DEF ModelPending
  <2>3. m.pc = "calling" /\ m.task = wk[w].task /\ m.token = wk[w].token /\ m.done = wk[w].done
    BY <1>s, <2>1 DEF Memories
  <2>q. QED BY <1>1, <1>3, <2>2, <2>3 DEF ModelPending, LoopHead, TurnPcs, AgentPcs
<1>4. ASSUME NEW cs \in SUBSET Calls, ModelReceived(w, cs) \/ ModelFeedback(w, cs) PROVE Others(w) /\ GoesOn(w)
  <2>1. PICK p \in {"final", "tools", "model"} : wk' = [wk EXCEPT ![w].pc = p, ![w].asked = cs, ![w].todo = cs]
    BY <1>4 DEF ModelReceived, ModelFeedback
  <2>2. PICK m : m = [wk[w] EXCEPT !.pc = p, !.asked = cs, !.todo = cs] OBVIOUS
  <2>3. wk' = [wk EXCEPT ![w] = m] BY <2>1, <2>2
  <2>4. m.pc = p /\ m.task = wk[w].task /\ m.token = wk[w].token /\ m.done = wk[w].done
    BY <1>s, <2>2 DEF Memories
  <2>q. QED BY <1>1, <1>4, <2>3, <2>4 DEF ModelReceived, ModelFeedback, TurnPcs, AgentPcs
<1>5. ASSUME NEW c \in Calls, ToolRefused(w, c) PROVE Others(w) /\ GoesOn(w)
  <2>1. PICK m : m = [wk[w] EXCEPT !.todo = wk[w].todo \ {c}, !.done = wk[w].done \cup {c}] OBVIOUS
  <2>2. wk' = [wk EXCEPT ![w] = m] BY <1>5, <2>1 DEF ToolRefused
  <2>3. m.pc = wk[w].pc /\ m.task = wk[w].task /\ m.token = wk[w].token /\ m.done = wk[w].done \cup {c}
    BY <1>s, <2>1 DEF Memories
  <2>q. QED BY <1>1, <1>5, <2>2, <2>3 DEF ToolRefused, InBatch, TurnPcs, AgentPcs
<1>6. ASSUME NEW c \in Calls, AskUser(w, c) PROVE Others(w) /\ GoesOn(w)
  <2>1. PICK m : m = [wk[w] EXCEPT !.todo = wk[w].todo \ {c}, !.ask = IF wk[w].ask = NoCall THEN c ELSE wk[w].ask] OBVIOUS
  <2>2. wk' = [wk EXCEPT ![w] = m] BY <1>6, <2>1 DEF AskUser
  <2>3. m.pc = wk[w].pc /\ m.task = wk[w].task /\ m.token = wk[w].token /\ m.done = wk[w].done
    BY <1>s, <2>1 DEF Memories
  <2>q. QED BY <1>1, <1>6, <2>2, <2>3 DEF AskUser, InBatch, TurnPcs, AgentPcs
<1>7. ASSUME NEW c \in StepIds, NEW p \in {"executing", "skill_run"}, wk' = [wk EXCEPT ![w].pc = p, ![w].cur = c],
             wk[w].pc \in TurnPcs
      PROVE  Others(w) /\ GoesOn(w)
  <2>1. PICK m : m = [wk[w] EXCEPT !.pc = p, !.cur = c] OBVIOUS
  <2>2. m.pc = p /\ m.task = wk[w].task /\ m.token = wk[w].token /\ m.done = wk[w].done BY <1>s, <2>1 DEF Memories
  <2>q. QED BY <1>1, <1>7, <2>1, <2>2
<1>8. ASSUME NEW p \in {"executed", "judging", "skill_verify"}, wk' = [wk EXCEPT ![w].pc = p], wk[w].pc \in TurnPcs
      PROVE  Others(w) /\ GoesOn(w)
  <2>1. PICK m : m = [wk[w] EXCEPT !.pc = p] OBVIOUS
  <2>2. m.pc = p /\ m.task = wk[w].task /\ m.token = wk[w].token /\ m.done = wk[w].done BY <1>s, <2>1 DEF Memories
  <2>q. QED BY <1>1, <1>8, <2>1, <2>2
<1>9. ASSUME NEW r, NEW p \in {"observed", "skill_ran"}, wk' = [wk EXCEPT ![w].pc = p, ![w].result = r],
             wk[w].pc \in TurnPcs
      PROVE  Others(w) /\ GoesOn(w)
  <2>1. PICK m : m = [wk[w] EXCEPT !.pc = p, !.result = r] OBVIOUS
  <2>2. m.pc = p /\ m.task = wk[w].task /\ m.token = wk[w].token /\ m.done = wk[w].done BY <1>s, <2>1 DEF Memories
  <2>q. QED BY <1>1, <1>9, <2>1, <2>2
<1>10. ASSUME NEW r \in Results, ToolObserved(w, r) PROVE Others(w) /\ GoesOn(w)
  <2>1. PICK m : m = [wk[w] EXCEPT !.pc = "tools", !.cur = NoCall, !.result = "none",
                                   !.todo = wk[w].todo \ {wk[w].cur}, !.done = wk[w].done \cup {wk[w].cur}]
    OBVIOUS
  <2>2. wk' = [wk EXCEPT ![w] = m] BY <1>10, <2>1 DEF ToolObserved
  <2>3. m.pc = "tools" /\ m.task = wk[w].task /\ m.token = wk[w].token /\ wk[w].done \subseteq m.done
    BY <1>s, <2>1 DEF Memories
  <2>q. QED BY <1>1, <1>10, <2>2, <2>3 DEF ToolObserved, TurnPcs, AgentPcs
<1>11. ASSUME NEW v \in Verdicts, EvaluationDone(w, v) PROVE Others(w) /\ GoesOn(w)
  <2>1. PICK m : m = [wk[w] EXCEPT !.pc = "verdict", !.eval = v, !.resume = "no"] OBVIOUS
  <2>2. wk' = [wk EXCEPT ![w] = m] BY <1>11, <2>1 DEF EvaluationDone
  <2>3. m.pc = "verdict" /\ m.task = wk[w].task /\ m.token = wk[w].token /\ m.done = wk[w].done
    BY <1>s, <2>1 DEF Memories
  <2>q. QED BY <1>1, <1>11, <2>2, <2>3 DEF EvaluationDone, TurnPcs, AgentPcs
<1>12. ASSUME CriticRetry(w) PROVE Others(w) /\ GoesOn(w)
  <2>1. PICK m : m = [wk[w] EXCEPT !.pc = "model", !.retries = wk[w].retries + 1, !.eval = "none"] OBVIOUS
  <2>2. wk' = [wk EXCEPT ![w] = m] BY <1>12, <2>1 DEF CriticRetry
  <2>3. m.pc = "model" /\ m.task = wk[w].task /\ m.token = wk[w].token /\ m.done = wk[w].done
    BY <1>s, <2>1 DEF Memories
  <2>q. QED BY <1>1, <1>12, <2>2, <2>3 DEF CriticRetry, TurnPcs, AgentPcs
<1>13. CASE (\E c \in Calls : ToolStarted(w, c)) \/ SkillStarted(w)
  BY <1>7, <1>13 DEF ToolStarted, InBatch, SkillStarted, StepIds, TurnPcs, AgentPcs, SkillPcs
<1>14. CASE ExecuteTool(w) \/ ReuseResult(w) \/ EvaluationPending(w) \/ SkillExecuted(w)
  BY <1>8, <1>14 DEF ExecuteTool, ReuseResult, EvaluationPending, SkillExecuted, TurnPcs, AgentPcs, SkillPcs
<1>15. CASE (\E r \in Results : ToolDone(w, r)) \/ \E r \in Results : RunSkill(w, r)
  BY <1>9, <1>15 DEF ToolDone, RunSkill, TurnPcs, AgentPcs, SkillPcs
<1>16. CASE Suspend(w) \/ Conclude(w) \/ Stopped(w) \/ LimitReached(w)
            \/ (\E o \in {"completed", "failed"} : ReturnEarly(w, o)) \/ \E v \in Verdicts : SkillDone(w, v)
  BY <1>2, <1>16 DEF Suspend, Conclude, Stopped, LimitReached, ReturnEarly, Finishing, SkillDone
<1>q. QED BY <1>3, <1>4, <1>5, <1>6, <1>10, <1>11, <1>12, <1>13, <1>14, <1>15, <1>16 DEF AgentStep, SkillAction

\* Every step does one of these things to every worker.
LEMMA MemoryBy ==
  ASSUME WkTyped, [Next]_vars, NEW v \in Workers
  PROVE  \/ wk'[v] = wk[v] \/ GoesOn(v) \/ Leaves(v)
         \/ \E t \in Tasks : ReadWait(v, t) \/ \E mode \in Modes : Claim(v, t, mode)
<1>1. CASE UNCHANGED vars BY <1>1 DEF vars
<1>2. ASSUME NEW w \in Workers, AgentStep(w) \/ SkillAction(w) PROVE wk'[v] = wk[v] \/ GoesOn(v) \/ Leaves(v)
  BY <1>2, TurnMemory DEF Others
<1>3. ASSUME NEW w \in Workers, wk' = [wk EXCEPT ![w] = Idle] PROVE wk'[v] = wk[v] \/ Leaves(v)
  BY <1>3 DEF WkTyped, Leaves, Idle, TurnPcs, AgentPcs, SkillPcs
<1>4. ASSUME NEW w \in Workers, EndStep(w) PROVE wk'[v] = wk[v] \/ Leaves(v)
  <2>1. CASE Finish(w) \/ FinishSuspended(w) \/ HandleError(w) \/ FinishRefused(w)
    BY <1>3, <2>1 DEF Finish, FinishSuspended, HandleError, FinishRow, FinishRefused
  <2>2. CASE RaiseBusy(w)
    <3>1. wk' = [wk EXCEPT ![w] = Leaving(w, "raising", "none")] BY <2>2 DEF RaiseBusy
    <3>2. Leaving(w, "raising", "none").pc = "raising" BY LeavingFields
    <3>q. QED BY <3>1, <3>2 DEF WkTyped, Leaves, TurnPcs, AgentPcs, SkillPcs
  <2>q. QED BY <1>4, <2>1, <2>2 DEF EndStep
<1>5. ASSUME NEW w \in Workers, Fault(w) PROVE wk'[v] = wk[v] \/ GoesOn(v) \/ Leaves(v)
  <2>1. CASE Crash(w) BY <1>3, <2>1 DEF Crash
  <2>2. ASSUME NEW o, Raise(w, o) PROVE wk'[v] = wk[v] \/ Leaves(v)
    <3>1. wk' = [wk EXCEPT ![w] = Leaving(w, "raising", o)] BY <2>2 DEF Raise
    <3>2. Leaving(w, "raising", o).pc = "raising" BY LeavingFields
    <3>q. QED BY <3>1, <3>2 DEF WkTyped, Leaves, TurnPcs, AgentPcs, SkillPcs
  <2>3. CASE SetLost(w)
    <3>1. wk'[w] = [wk[w] EXCEPT !.lost = "yes"] /\ \A x \in Workers : x # w => wk'[x] = wk[x]
      BY <2>3 DEF SetLost, WkTyped
    <3>2. wk[w] \in Memories BY DEF WkTyped
    <3>3. /\ wk'[w].pc = wk[w].pc /\ wk'[w].task = wk[w].task /\ wk'[w].token = wk[w].token
          /\ wk'[w].done = wk[w].done
      BY <3>1, <3>2 DEF Memories
    <3>4. wk[w].pc \in TurnPcs \cup {"finishing"} BY <2>3 DEF SetLost, TurnPcs
    <3>q. QED BY <3>1, <3>3, <3>4 DEF GoesOn, Leaves, TurnPcs, AgentPcs, SkillPcs
  <2>q. QED BY <1>5, <2>1, <2>2, <2>3 DEF Fault
<1>6. ASSUME NEW w \in Workers, EntryStep(w)
      PROVE  \/ wk'[v] = wk[v] \/ Leaves(v)
             \/ \E t \in Tasks : ReadWait(v, t) \/ \E mode \in Modes : Claim(v, t, mode)
  <2>1. CASE ClaimRefused(w) \/ AnswerRefused(w) BY <1>3, <2>1 DEF ClaimRefused, AnswerRefused
  <2>2. CASE Answer(w)
    <3>1. wk'[w] = [wk[w] EXCEPT !.pc = "claiming", !.cur = NoCall] /\ \A x \in Workers : x # w => wk'[x] = wk[x]
      BY <2>2 DEF Answer, WkTyped
    <3>2. wk[w] \in Memories BY DEF WkTyped
    <3>3. wk'[w].pc = "claiming" BY <3>1, <3>2 DEF Memories
    <3>q. QED BY <3>1, <3>3 DEF Leaves, TurnPcs, AgentPcs, SkillPcs
  <2>3. ASSUME NEW t \in Tasks, ReadWait(w, t) PROVE wk'[v] = wk[v] \/ w = v BY <2>3 DEF ReadWait, WkTyped
  <2>4. ASSUME NEW t \in Tasks, NEW mode \in Modes, Claim(w, t, mode) PROVE wk'[v] = wk[v] \/ w = v
    BY <2>4 DEF Claim, WkTyped
  <2>q. QED BY <1>6, <2>1, <2>2, <2>3, <2>4 DEF EntryStep
<1>7. ASSUME NEW t \in Tasks, HumanStep(t) \/ ScanStep(t) \/ LeaseExpires(t) PROVE wk' = wk
  BY <1>7 DEF HumanStep, ScanStep, LeaseExpires, Cancel, Resolve, RetireExpiredWait, ClaimUncertain, MarkUncertain
<1>8. CancelSession => wk' = wk BY DEF CancelSession
<1>q. QED BY <1>1, <1>2, <1>4, <1>5, <1>6, <1>7, <1>8 DEF Next, WorkerStep

\* Whoever holds the row after a step, and was in its turn before, held it already.
LEMMA HeldBefore ==
  ASSUME Inv, NEW u \in Tasks, RowBy(u), NEW v \in Workers, wk[v].pc \in TurnPcs, wk[v].task = u,
         wk'[v].task = wk[v].task, wk'[v].token = wk[v].token, Holds(v)'
  PROVE  Holds(v) /\ answerOf'[u] = answerOf[u]
<1>1. task'[u].owner = wk[v].token /\ task'[u].state = "running" /\ task'[u].lease = "live" BY DEF Holds
<1>2. wk[v].token <= task[u].attempts /\ wk[v].token \in Nat /\ task[u].attempts \in Nat
  <2>1. WorkerOK(v) /\ Numbers BY NumbersTyped DEF Inv, SafeInv
  <2>q. QED BY <2>1 DEF WorkerOK, ActivePcs, TurnPcs, Numbers
<1>3. ~RowClaimed(u)
  <2>1. task'[u].owner # task[u].attempts + 1 BY <1>1, <1>2
  <2>q. QED BY <2>1 DEF RowClaimed
<1>4. ~(RowLeft(u) \/ RowAnswered(u) \/ RowResolved(u) \/ RowCancelled(u) \/ RowGivenUp(u) \/ RowExpired(u))
  BY <1>1 DEF RowLeft, RowAnswered, RowResolved, RowCancelled, RowGivenUp, RowExpired, RowPut
<1>5. CASE RowKept(u) BY <1>1, <1>5 DEF RowKept, Holds
<1>6. CASE RowSaved(u) BY <1>1, <1>6 DEF RowSaved, Holds
<1>q. QED BY <1>3, <1>4, <1>5, <1>6 DEF RowBy

\* Every answer is a result, after the step too.
LEMMA AnswersKept ==
  ASSUME Inv, DataInv, AnswersOK, StartedOK, [Next]_vars
  PROVE  AnswersOK'
<1>s. WkTyped BY DEF Inv, TypeOK, WkTyped
<1>1. ASSUME NEW u \in Tasks PROVE Answered(u)' \subseteq cp'[u].done
  <2>1. RowBy(u) /\ Answered(u) \subseteq cp[u].done BY NextBy DEF AnswersOK
  <2>2. answerOf'[u] = answerOf[u] => Answered(u)' = Answered(u) BY DEF Answered
  <2>3. CASE RowKept(u) BY <2>1, <2>2, <2>3 DEF RowKept
  <2>4. CASE RowSaved(u)
    <3>1. PICK w \in Workers : Holds(w) /\ wk[w].task = u /\ wk[w].pc \in TurnPcs /\ wk[w].done \subseteq cp'[u].done
      BY <2>4 DEF RowSaved
    <3>2. Answered(u) \subseteq wk[w].done BY <3>1 DEF AnswersOK
    <3>q. QED BY <2>2, <2>4, <3>1, <3>2 DEF RowSaved
  <2>5. CASE RowClaimed(u) \/ RowLeft(u) \/ RowCancelled(u) \/ RowGivenUp(u) \/ RowExpired(u)
    <3>1. cp'[u] = cp[u] /\ answerOf'[u] = answerOf[u]
      BY <2>5 DEF RowClaimed, RowLeft, RowCancelled, RowGivenUp, RowExpired, RowPut
    <3>q. QED BY <2>1, <2>2, <3>1
  <2>6. CASE RowAnswered(u) BY <2>1, <2>6 DEF RowAnswered
  <2>7. CASE RowResolved(u) BY <2>1, <2>2, <2>7 DEF RowResolved
  <2>q. QED BY <2>1, <2>3, <2>4, <2>5, <2>6, <2>7 DEF RowBy
<1>2. ASSUME NEW v \in Workers
      PROVE  /\ Holds(v)' /\ wk'[v].pc \in TurnPcs => Answered(wk[v].task)' \subseteq wk'[v].done
             /\ wk'[v].pc = "answering" => wk'[v].cur # NoCall
  <2>1. ASSUME Holds(v)', wk[v].pc \in TurnPcs, wk'[v].task = wk[v].task, wk'[v].token = wk[v].token,
               wk[v].done \subseteq wk'[v].done
        PROVE  Answered(wk[v].task)' \subseteq wk'[v].done
    <3>1. PICK u \in Tasks : u = wk[v].task BY <2>1 DEF Holds
    <3>2. Holds(v) /\ answerOf'[u] = answerOf[u] BY <2>1, <3>1, NextBy, HeldBefore
    <3>3. Answered(u) \subseteq wk[v].done BY <2>1, <3>1, <3>2 DEF AnswersOK
    <3>4. Answered(u)' = Answered(u) BY <3>2 DEF Answered
    <3>5. Answered(wk[v].task)' = Answered(u)' BY <2>1, <3>1 DEF Answered
    <3>q. QED BY <2>1, <3>3, <3>4, <3>5
  <2>2. CASE wk'[v] = wk[v] BY <2>1, <2>2 DEF AnswersOK
  <2>3. CASE GoesOn(v) BY <2>1, <2>3 DEF GoesOn
  <2>4. CASE Leaves(v) BY <2>4 DEF Leaves
  <2>5. ASSUME NEW t \in Tasks, ReadWait(v, t)
        PROVE  wk'[v].pc \notin TurnPcs /\ wk'[v].cur # NoCall
    <3>1. PICK m : m = [Idle EXCEPT !.pc = "answering", !.task = t, !.cur = cp[t].wait] OBVIOUS
    <3>2. wk'[v] = m BY <1>s, <2>5, <3>1 DEF ReadWait, WkTyped
    <3>3. m.pc = "answering" /\ m.cur = cp[t].wait BY <3>1 DEF Idle
    <3>4. LeaseOK(t) /\ RowOK(t) /\ cp[t] \in Checkpoints BY DEF Inv, SafeInv, DataInv, TypeOK
    <3>5. cp[t].wait \in Calls BY <2>5, <3>4 DEF ReadWait, LeaseOK, RowOK, Checkpoints
    <3>q. QED BY <3>2, <3>3, <3>5, ConstantsAssumption DEF TurnPcs, AgentPcs, SkillPcs
  <2>6. ASSUME NEW t \in Tasks, NEW mode \in Modes, Claim(v, t, mode)
        PROVE  Answered(wk[v].task)' \subseteq wk'[v].done /\ wk'[v].pc # "answering"
    <3>1. PICK m : m = Loaded(t, mode) OBVIOUS
    <3>2. wk'[v] = m BY <1>s, <2>6, <3>1 DEF Claim, WkTyped
    <3>3. m.pc = EntryPc(t, mode) /\ m.task = t /\ m.done = cp[t].done BY <3>1 DEF Loaded
    <3>4. EntryPc(t, mode) # "answering" BY EntryOf
    <3>5. answerOf' = answerOf /\ Answered(t) \subseteq cp[t].done BY <2>6 DEF Claim, AnswersOK
    <3>6. Answered(t)' = Answered(t) BY <3>5 DEF Answered
    <3>7. Answered(wk[v].task)' = Answered(t)' BY <3>2, <3>3 DEF Answered
    <3>q. QED BY <3>2, <3>3, <3>4, <3>5, <3>6, <3>7
  <2>q. QED BY <1>s, <2>2, <2>3, <2>4, <2>5, <2>6, MemoryBy
<1>q. QED BY <1>1, <1>2 DEF AnswersOK

\* A started tool stays with its worker or a human.
LEMMA StartedKept ==
  ASSUME Inv, DataInv, AnswersOK, StartedOK, [Next]_vars
  PROVE  StartedOK'
<1> SUFFICES ASSUME NEW u \in Tasks, task'[u].phase \in Started
             PROVE  task'[u].state \in {"running", "uncertain", "cancelled"}
  BY DEF StartedOK
<1>1. RowBy(u) /\ (task[u].phase \in Started => task[u].state \in {"running", "uncertain", "cancelled"})
  BY NextBy DEF StartedOK
<1>2. CASE RowKept(u) BY <1>1, <1>2 DEF RowKept
<1>3. CASE RowSaved(u) BY <1>3 DEF RowSaved, Holds
<1>4. CASE RowClaimed(u) \/ RowCancelled(u) \/ RowGivenUp(u)
  BY <1>4 DEF RowClaimed, RowCancelled, RowGivenUp, RowPut
<1>5. CASE RowLeft(u) BY <1>5 DEF RowLeft, RowPut, Started
<1>6. CASE RowAnswered(u) \/ RowResolved(u) BY <1>6 DEF RowAnswered, RowResolved, Started
<1>7. CASE RowExpired(u) BY <1>1, <1>7 DEF RowExpired, RowPut
<1>q. QED BY <1>1, <1>2, <1>3, <1>4, <1>5, <1>6, <1>7 DEF RowBy

RowMove(u) == [TableRow(u)!RowNext]_(TableRow(u)!rowVars)

\* What a change of the columns looks like: the state of the row, seen and unseen, is not
\* absent after it.
LEMMA PutSeen ==
  ASSUME NEW u \in Tasks, task[u] \in Rows, NEW x \in States \ {"absent"}, NEW l, RowPut(u, x, l)
  PROVE  /\ State(u)' = x /\ task'[u].lease = l
         /\ (task'[u].phase \in Started) = (task[u].phase \in Started)
         /\ Question(u)' = (IF x = "suspended" THEN cp[u].wait ELSE NoCall)
         /\ Closed(u)' = (IF x \in Terminal THEN {} ELSE Answered(u))
         /\ State(u) \in {"none"} \cup States /\ (State(u) = "none" <=> task[u].state = "absent")
         /\ task[u].state # "absent" => State(u) = task[u].state
<1>1. task'[u].state = x /\ task'[u].lease = l /\ task'[u].phase = task[u].phase /\ cp'[u] = cp[u]
  BY DEF RowPut
<1>2. Answered(u)' = Answered(u) BY DEF RowPut, Answered
<1>3. task[u].state \in States /\ "none" \notin States BY DEF Rows, States, Terminal
<1>4. State(u)' = x BY <1>1 DEF State
<1>5. Question(u)' = (IF x = "suspended" THEN cp[u].wait ELSE NoCall) BY <1>1 DEF Question
<1>6. Closed(u)' = (IF x \in Terminal THEN {} ELSE Answered(u)) BY <1>1, <1>2 DEF Closed
<1>7. (task'[u].phase \in Started) = (task[u].phase \in Started) BY <1>1
<1>8. State(u) \in {"none"} \cup States /\ (State(u) = "none" <=> task[u].state = "absent")
  BY <1>3 DEF State
<1>q. QED BY <1>1, <1>4, <1>5, <1>6, <1>7, <1>8 DEF State

\* Claim, cancellation and time.
LEMMA ColumnMoves ==
  ASSUME NEW u \in Tasks, task[u] \in Rows, LeaseOK(u), RowClaimed(u) \/ RowCancelled(u) \/ RowExpired(u)
  PROVE  RowMove(u)
<1>1. CASE RowClaimed(u)
  <2>1. RowPut(u, "running", "live") /\ "running" \in States \ {"absent"} BY <1>1 DEF RowClaimed, States, Terminal
  <2>2. /\ State(u)' = "running" /\ task'[u].lease = "live"
        /\ (task'[u].phase \in Started) = (task[u].phase \in Started)
        /\ Question(u)' = NoCall /\ Closed(u)' = Answered(u)
    BY <2>1, PutSeen DEF Terminal
  <2>3. State(u) \in {"none", "pending", "running"} /\ Question(u) = NoCall /\ Closed(u) = Answered(u)
    BY <1>1 DEF RowClaimed, State, Question, Closed, Terminal
  <2>4. TableRow(u)!Claim BY <1>1, <2>2, <2>3 DEF TableRow!Claim, RowClaimed
  <2>q. QED BY <2>4 DEF RowMove, TableRow!RowNext
<1>2. CASE RowCancelled(u)
  <2>1. RowPut(u, "cancelled", "null") /\ "cancelled" \in States \ {"absent"} BY <1>2 DEF RowCancelled, States, Terminal
  <2>2. /\ State(u)' = "cancelled" /\ task'[u].lease = "null"
        /\ (task'[u].phase \in Started) = (task[u].phase \in Started)
        /\ Question(u)' = NoCall /\ Closed(u)' = {}
    BY <2>1, PutSeen DEF Terminal
  <2>3. State(u) \notin Terminal \cup {"none"}
    BY <1>2, <2>1, PutSeen DEF RowCancelled
  <2>4. TableRow(u)!Cancel BY <2>2, <2>3 DEF TableRow!Cancel, TableRow!Over, Terminal
  <2>q. QED BY <2>4 DEF RowMove, TableRow!RowNext
<1>3. CASE RowExpired(u)
  <2>1. task[u].state = "running" /\ task[u].lease = "live" BY <1>3 DEF RowExpired, LeaseOK
  <2>2. RowPut(u, "running", "expired") /\ "running" \in States \ {"absent"} BY <1>3, <2>1 DEF RowExpired, States, Terminal
  <2>3. /\ State(u)' = "running" /\ task'[u].lease = "expired"
        /\ (task'[u].phase \in Started) = (task[u].phase \in Started)
        /\ Question(u)' = NoCall /\ Closed(u)' = Answered(u)
    BY <2>2, PutSeen DEF Terminal
  <2>4. State(u) = "running" /\ Question(u) = NoCall /\ Closed(u) = Answered(u)
    BY <2>1 DEF State, Question, Closed, Terminal
  <2>5. TableRow(u)!LeaseExpires BY <2>1, <2>3, <2>4 DEF TableRow!LeaseExpires
  <2>q. QED BY <2>5 DEF RowMove, TableRow!RowNext
<1>q. QED BY <1>1, <1>2, <1>3

\* The ends of an attempt.
LEMMA LeavingMoves ==
  ASSUME NEW u \in Tasks, task[u] \in Rows, cp[u] \in Checkpoints, RowOK(u), Answered(u) \subseteq cp[u].done,
         RowLeft(u) \/ RowGivenUp(u)
  PROVE  RowMove(u)
<1>1. task[u].state = "running" BY DEF RowLeft, RowGivenUp
<1>2. State(u) = "running" /\ Question(u) = NoCall /\ Closed(u) = Answered(u)
  BY <1>1 DEF State, Question, Closed, Terminal
<1>3. ASSUME NEW x \in Terminal \cup {"pending"}, RowPut(u, x, "null"), task[u].phase \notin Started,
             task[u].lease = "live"
      PROVE  RowMove(u)
  <2>1. x \in States \ {"absent"} /\ x # "suspended" BY <1>3 DEF States, Terminal
  <2>2. /\ State(u)' = x /\ task'[u].lease = "null"
        /\ (task'[u].phase \in Started) = (task[u].phase \in Started)
        /\ Question(u)' = NoCall /\ Closed(u)' = (IF x \in Terminal THEN {} ELSE Answered(u))
    BY <1>3, <2>1, PutSeen
  <2>3. TableRow(u)!Finish(x)
    BY <1>2, <1>3, <2>2 DEF TableRow!Finish, TableRow!Held, TableRow!Over, Terminal
  <2>q. QED BY <2>3 DEF RowMove, TableRow!RowNext, TableRow!Over, Terminal
<1>4. ASSUME RowPut(u, "suspended", "null"), task[u].phase = "waiting_user", task[u].lease = "live"
      PROVE  RowMove(u)
  <2>1. "suspended" \in States \ {"absent"} BY DEF States, Terminal
  <2>2. /\ State(u)' = "suspended" /\ task'[u].lease = "null"
        /\ (task'[u].phase \in Started) = (task[u].phase \in Started)
        /\ Question(u)' = cp[u].wait /\ Closed(u)' = Answered(u)
    BY <1>4, <2>1, PutSeen DEF Terminal
  <2>3. cp[u].wait \in Calls /\ cp[u].wait \notin Answered(u) BY <1>4 DEF RowOK, Checkpoints
  <2>4. task[u].phase \notin Started BY <1>4 DEF Started
  <2>5. TableRow(u)!Suspend(cp[u].wait)
    BY <1>2, <1>4, <2>2, <2>3, <2>4 DEF TableRow!Suspend, TableRow!Held
  <2>q. QED BY <2>3, <2>5 DEF RowMove, TableRow!RowNext
<1>5. ASSUME NEW l, RowPut(u, "uncertain", l), task[u].phase \in Started \/ task[u].lease = "expired",
             l \in IF task[u].lease = "live" THEN {"null"} ELSE {task[u].lease, "null"}
      PROVE  RowMove(u)
  <2>1. "uncertain" \in States \ {"absent"} BY DEF States, Terminal
  <2>2. /\ State(u)' = "uncertain" /\ task'[u].lease = l
        /\ (task'[u].phase \in Started) = (task[u].phase \in Started)
        /\ Question(u)' = NoCall /\ Closed(u)' = Answered(u)
    BY <1>5, <2>1, PutSeen DEF Terminal
  <2>3. TableRow(u)!GiveUp BY <1>2, <1>5, <2>2 DEF TableRow!GiveUp
  <2>q. QED BY <2>3 DEF RowMove, TableRow!RowNext
<1>6. CASE RowLeft(u) BY <1>3, <1>4, <1>5, <1>6 DEF RowLeft
<1>7. CASE RowGivenUp(u) BY <1>5, <1>7 DEF RowGivenUp
<1>q. QED BY <1>6, <1>7

\* The checkpoints of a turn, and what humans add to one.
LEMMA SavingMoves ==
  ASSUME NEW u \in Tasks, RowSaved(u) \/ RowAnswered(u) \/ RowResolved(u)
  PROVE  RowMove(u)
<1>1. CASE RowSaved(u)
  <2>1. task[u].state = "running" /\ task[u].lease = "live" BY <1>1 DEF RowSaved, Holds
  <2>2. task'[u].state = "running" /\ task'[u].lease = "live" /\ answerOf'[u] = answerOf[u] BY <1>1, <2>1 DEF RowSaved
  <2>3. Answered(u)' = Answered(u) BY <2>2 DEF Answered
  <2>4. State(u) = "running" /\ Question(u) = NoCall /\ Closed(u) = Answered(u)
    BY <2>1 DEF State, Question, Closed, Terminal
  <2>5. State(u)' = "running" /\ Question(u)' = NoCall /\ Closed(u)' = Answered(u)
    BY <2>2, <2>3 DEF State, Question, Closed, Terminal
  <2>6. CASE (task'[u].phase \in Started) = (task[u].phase \in Started)
    <3>1. UNCHANGED TableRow(u)!rowVars BY <2>1, <2>2, <2>4, <2>5, <2>6 DEF TableRow!rowVars
    <3>q. QED BY <3>1 DEF RowMove
  <2>7. CASE (task'[u].phase \in Started) # (task[u].phase \in Started)
    <3>1. (task'[u].phase \in Started) = ~(task[u].phase \in Started) BY <2>7
    <3>2. TableRow(u)!Checkpoint BY <2>1, <2>2, <2>4, <2>5, <3>1 DEF TableRow!Checkpoint, TableRow!Held
    <3>q. QED BY <3>2 DEF RowMove, TableRow!RowNext
  <2>q. QED BY <2>6, <2>7
<1>2. CASE RowAnswered(u)
  <2>1. /\ task[u].state = "suspended" /\ task'[u].state = "pending" /\ task'[u].lease = task[u].lease
        /\ Answered(u)' = Answered(u) \cup {cp[u].wait}
    BY <1>2 DEF RowAnswered
  <2>2. task[u].phase \notin Started /\ task'[u].phase \notin Started BY <1>2 DEF RowAnswered, Started
  <2>3. State(u) = "suspended" /\ Question(u) = cp[u].wait /\ Closed(u) = Answered(u)
    BY <2>1 DEF State, Question, Closed, Terminal
  <2>4. State(u)' = "pending" /\ Question(u)' = NoCall /\ Closed(u)' = Answered(u)'
    BY <2>1 DEF State, Question, Closed, Terminal
  <2>5. TableRow(u)!Answer BY <2>1, <2>2, <2>3, <2>4 DEF TableRow!Answer
  <2>q. QED BY <2>5 DEF RowMove, TableRow!RowNext
<1>3. CASE RowResolved(u)
  <2>1. /\ task[u].state = "uncertain" /\ task'[u].state = "pending" /\ task'[u].lease = "null"
        /\ answerOf'[u] = answerOf[u]
    BY <1>3 DEF RowResolved
  <2>2. task[u].phase \in Started /\ task'[u].phase \notin Started BY <1>3 DEF RowResolved, Started
  <2>3. (task'[u].phase \in Started) = FALSE BY <2>2
  <2>4. Answered(u)' = Answered(u) BY <2>1 DEF Answered
  <2>5. State(u) = "uncertain" /\ Question(u) = NoCall /\ Closed(u) = Answered(u)
    BY <2>1 DEF State, Question, Closed, Terminal
  <2>6. State(u)' = "pending" /\ Question(u)' = NoCall /\ Closed(u)' = Answered(u)
    BY <2>1, <2>4 DEF State, Question, Closed, Terminal
  <2>7. TableRow(u)!Resolve BY <2>1, <2>2, <2>3, <2>5, <2>6 DEF TableRow!Resolve
  <2>q. QED BY <2>7 DEF RowMove, TableRow!RowNext
<1>q. QED BY <1>1, <1>2, <1>3

\* Every step moves every row as TaskRow says, or leaves it.
LEMMA NextMoves ==
  ASSUME Inv, DataInv, AnswersOK, StartedOK, [Next]_vars
  PROVE  \A u \in Tasks : RowMove(u)
<1> SUFFICES ASSUME NEW u \in Tasks PROVE RowMove(u) OBVIOUS
<1>1. RowBy(u) BY NextBy
<1>2. task[u] \in Rows /\ cp[u] \in Checkpoints /\ LeaseOK(u) /\ RowOK(u) /\ Answered(u) \subseteq cp[u].done
  BY DEF Inv, TypeOK, SafeInv, DataInv, AnswersOK
<1>3. CASE RowKept(u)
  <2>1. task'[u] = task[u] /\ Answered(u)' = Answered(u) /\ cp'[u] = cp[u] BY <1>3 DEF RowKept, Answered
  <2>2. State(u)' = State(u) /\ Question(u)' = Question(u) /\ Closed(u)' = Closed(u)
    BY <2>1 DEF State, Question, Closed
  <2>3. (task'[u].phase \in Started) = (task[u].phase \in Started) BY <2>1
  <2>4. UNCHANGED TableRow(u)!rowVars BY <2>1, <2>2, <2>3 DEF TableRow!rowVars
  <2>q. QED BY <2>4 DEF RowMove
<1>q. QED BY <1>1, <1>2, <1>3, ColumnMoves, LeavingMoves, SavingMoves DEF RowBy

\* Before anything was claimed.
LEMMA RowsStart ==
  ASSUME Init
  PROVE  AnswersOK /\ StartedOK /\ \A t \in Tasks : TableRow(t)!RowInit
<1>1. \A t \in Tasks : Answered(t) = {} /\ task[t] = NoRow BY DEF Init, Answered
<1>2. AnswersOK BY <1>1 DEF Init, AnswersOK, Idle, TurnPcs, AgentPcs, SkillPcs
<1>3. StartedOK BY <1>1 DEF StartedOK, NoRow, Started
<1>4. ASSUME NEW t \in Tasks PROVE TableRow(t)!RowInit
  <2>1. State(t) = "none" /\ Question(t) = NoCall /\ Closed(t) = {}
    BY <1>1 DEF NoRow, State, Question, Closed, Terminal
  <2>2. task[t].lease = "null" /\ task[t].phase \notin Started BY <1>1 DEF NoRow, Started
  <2>3. (task[t].phase \in Started) = FALSE BY <2>2
  <2>q. QED BY <2>1, <2>2, <2>3 DEF TableRow!RowInit
<1>q. QED BY <1>2, <1>3, <1>4

\* Every answer is a result its worker knows, and a started tool has a worker or a human.
LEMMA AnswersAlways == Spec => [](AnswersOK /\ StartedOK)
<1>1. Init => AnswersOK /\ StartedOK BY RowsStart
<1>2. Inv /\ DataInv /\ AnswersOK /\ StartedOK /\ [Next]_vars => (AnswersOK /\ StartedOK)'
  BY AnswersKept, StartedKept
<1>q. QED BY <1>1, <1>2, Invariance, DataAlways, PTL DEF Spec

\* Whatever TaskStore, durable_invoke, the agent loop, humans and the recovery scan do to
\* a row of table tasks, the row takes only the steps of TaskRow, which also bound the
\* task of a command in the queue: a started tool is never taken up again without a human,
\* an answered question is not asked again, and what is over stays over.
THEOREM DurableTasksAsRows == Spec => \A t \in Tasks : TableRow(t)!RowSpec
<1> SUFFICES ASSUME NEW t \in Tasks PROVE Spec => TableRow(t)!RowSpec OBVIOUS
<1>1. Init => TableRow(t)!RowInit BY RowsStart
<1>2. Inv /\ DataInv /\ AnswersOK /\ StartedOK /\ [Next]_vars => [TableRow(t)!RowNext]_(TableRow(t)!rowVars)
  BY NextMoves DEF RowMove
<1>q. QED BY <1>1, <1>2, Invariance, DataAlways, AnswersAlways, PTL DEF Spec, TableRow!RowSpec
=============================================================================
