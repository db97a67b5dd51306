------------------------ MODULE TemporalStepsProofs ------------------------
(****************************************************************************)
(* The step protocol of the Temporal backend for any number of steps,       *)
(* recoveries and provider attempts: its rows are well formed, a logical    *)
(* operation is executed at most once, nothing of a late Activity is        *)
(* accepted after the submission was decided against it, and the protocol   *)
(* implements the contract of a durable task.                               *)
(****************************************************************************)
EXTENDS TemporalSteps, TLAPS

StepKinds == IOKinds \union {"human", "finalize"}
Tasks == [st : SubStates \union {"suspended"}, ph : TaskPhases, nx : StepKinds \union {"none"},
          att : 1..MaxAttempts, lease : Acts \union {NoAct}]
Runs == [st : {"none", "ready", "running", "completed"}, kind : StepKinds, fence : Acts \union {NoAct}]
OpStates == {"none", "prepared", "running", "completed", "uncertain", "rejected_no_effect"}
Waits == [st : {"none", "waiting", "answered", "consumed", "expired"}, sent : {"none", "pending", "sent"},
          late : BOOLEAN]
Activities == [pc : ActPcs, rev : Revs, next : StepKinds \union {"none"}, att : 1..MaxAttempts, asks : BOOLEAN]
Workflows == [st : {"none", "open", "completed", "failed", "canceled"}, pc : WfPcs, rev : Revs, rec : 0..RecoveryLimit,
              act : Acts \union {NoAct}, note : BOOLEAN, cancel : BOOLEAN]

SubTyped == sub \in SubStates /\ fenced \in BOOLEAN /\ box \in {"none", "pending", "sent"} /\ disp \in {"idle", "checked"}
\* A step_ready checkpoint names the kind that comes next.
TkTyped == tk \in Tasks /\ (tk.ph = "step_ready" => tk.nx \in IOKinds)
\* Only a revision below the limit has a successor.
RunTyped == run \in [Revs -> Runs] /\ \A r \in Revs : run[r].st = "completed" => r < StepLimit
OpsTyped == ops \in [StepIds -> OpStates]
EffectsTyped == effects \in [StepIds -> Nat]
AnsTyped == ans \in [Revs -> Waits]
ActTyped == act \in [Acts -> Activities]
\* An Activity is only scheduled for a revision below the limit.
WfTyped == wf \in Workflows /\ (wf.pc \in {"await", "recover"} => wf.rev < StepLimit)

StepsInv == SubTyped /\ TkTyped /\ RunTyped /\ OpsTyped /\ EffectsTyped /\ AnsTyped /\ ActTyped /\ WfTyped

\* What the constants are, and that a revision below the limit has a successor.
LEMMA Numbers ==
  /\ StepLimit \in Nat /\ RecoveryLimit \in Nat /\ MaxAttempts \in Nat /\ MaxAttempts >= 1
  /\ 0 \in Revs /\ 1 \in 1..MaxAttempts
  /\ \A r \in Revs : r < StepLimit => r + 1 \in Revs
BY StepsAssumption DEF Revs

\* An Activity without a turn is a well-formed one.
LEMMA IdleActivity ==
  ASSUME NEW pc \in ActPcs, NEW r \in Revs
  PROVE  Activity(pc, r) \in Activities
BY Numbers DEF Activity, Activities, StepKinds, IOKinds

----------------------------------------------------------------------------
(* The helpers keep their rows well formed *)

\* A program counter that moves on keeps the Activities well formed.
LEMMA GotoTyped ==
  ASSUME ActTyped, NEW a \in Acts, NEW pc \in ActPcs, Goto(a, pc)
  PROVE  ActTyped'
<1>1. Activity(pc, 0) \in Activities
  BY IdleActivity, Numbers
<1>2. [act[a] EXCEPT !.pc = pc] \in Activities
  BY DEF ActTyped, Activities
<1> QED
  BY <1>1, <1>2 DEF Goto, ActTyped

\* So does a turn that goes on to commit.
LEMMA CommitNextTyped ==
  ASSUME ActTyped, NEW a \in Acts, NEW kind \in StepKinds \union {"none"}, CommitNext(a, kind)
  PROVE  ActTyped'
<1>1. [act[a] EXCEPT !.pc = "commit", !.next = kind] \in Activities
  BY DEF ActTyped, Activities, ActPcs
<1> QED
  BY <1>1 DEF CommitNext, ActTyped

\* A checkpoint keeps the task and the Activities well formed.
LEMMA SavesTyped ==
  ASSUME TkTyped, ActTyped, NEW a \in Acts, NEW ph \in TaskPhases, NEW nx \in StepKinds \union {"none"}, NEW pc \in ActPcs,
         ph = "step_ready" => nx \in IOKinds, Saves(a, ph, nx, pc)
  PROVE  TkTyped' /\ ActTyped'
<1>1. "busy" \in ActPcs
  BY DEF ActPcs
<1>2. ActTyped'
  BY <1>1, GotoTyped DEF Saves
<1>3. act[a].att \in 1..MaxAttempts
  BY DEF ActTyped, Activities
<1>4. TkTyped'
  BY <1>3 DEF Saves, TkTyped, Tasks
<1> QED
  BY <1>2, <1>4

\* TaskStore.finish keeps the task and the Activities well formed.
LEMMA FinishesTyped ==
  ASSUME TkTyped, ActTyped, NEW a \in Acts, NEW st \in SubStates \union {"suspended"}, NEW next \in StepKinds \union {"none"},
         Finishes(a, st, next)
  PROVE  TkTyped' /\ ActTyped'
<1>1. "busy" \in ActPcs
  BY DEF ActPcs
<1>2. ActTyped'
  BY <1>1, GotoTyped, CommitNextTyped DEF Finishes
<1>3. TkTyped'
  BY DEF Finishes, TkTyped, Tasks
<1> QED
  BY <1>2, <1>3

\* So does a returned reply.
LEMMA ReturnsTyped ==
  ASSUME TkTyped, ActTyped, NEW a \in Acts, NEW st \in SubStates \union {"suspended"}, Returns(a, st)
  PROVE  TkTyped' /\ ActTyped'
<1>1. "finalize" \in StepKinds
  BY DEF StepKinds
<1>2. CASE tk.st = "cancelled"
  <2>1. CommitNext(a, "finalize") /\ tk' = tk
    BY <1>2 DEF Returns
  <2> QED
    BY <2>1, <1>1, CommitNextTyped DEF TkTyped
<1>3. CASE tk.st # "cancelled"
  BY <1>3, <1>1, FinishesTyped DEF Returns
<1> QED
  BY <1>2, <1>3

\* So does the except branch of durable_invoke.
LEMMA RaiseTyped ==
  ASSUME TkTyped, ActTyped, NEW a \in Acts, NEW how \in {"busy", "fatal"}, Raise(a, how)
  PROVE  TkTyped' /\ ActTyped'
<1>1. "busy" \in ActPcs /\ how \in ActPcs
  BY DEF ActPcs
<1>2. ActTyped'
  BY <1>1, GotoTyped DEF Raise
<1>3. TkTyped'
  BY DEF Raise, TkTyped, Tasks, SubStates
<1> QED
  BY <1>2, <1>3

\* Fencing the ledger keeps its states.
LEMMA FencedTyped ==
  ASSUME OpsTyped
  PROVE  FencedOps \in [StepIds -> OpStates]
BY DEF FencedOps, OpsTyped, OpStates

\* The statements of a cancellation keep their rows well formed.
LEMMA CancelRowsTyped ==
  ASSUME SubTyped, TkTyped, OpsTyped, CancelRows
  PROVE  /\ TkTyped' /\ OpsTyped'
         /\ sub' \in SubStates /\ box' \in {"none", "pending", "sent"}
<1>1. TkTyped'
  BY DEF CancelRows, TkTyped, Tasks, SubStates
<1>2. OpsTyped'
  BY FencedTyped DEF CancelRows, OpsTyped
<1>3. sub' \in SubStates /\ box' \in {"none", "pending", "sent"}
  BY DEF CancelRows, SubTyped, SubStates
<1> QED
  BY <1>1, <1>2, <1>3

\* The statements of workflow_failed keep their rows well formed.
LEMMA FailRowsTyped ==
  ASSUME SubTyped, TkTyped, OpsTyped, FailRows
  PROVE  TkTyped' /\ OpsTyped' /\ sub' \in SubStates
<1>1. TkTyped'
  BY DEF FailRows, TkTyped, Tasks, SubStates
<1>2. OpsTyped'
  BY FencedTyped DEF FailRows, OpsTyped
<1>3. sub' \in SubStates
  BY DEF FailRows, SubTyped, SubStates
<1> QED
  BY <1>1, <1>2, <1>3

\* The commit of a revision below the limit keeps the cursors well formed.
LEMMA ChainTyped ==
  ASSUME RunTyped, NEW r \in Revs, r < StepLimit, NEW kind \in StepKinds, Chain(r, kind)
  PROVE  RunTyped'
<1> DEFINE row == [st |-> "ready", kind |-> kind, fence |-> NoAct]
<1>1. r + 1 \in Revs /\ row \in Runs /\ r + 1 # r
  BY Numbers DEF Runs, Revs
<1>2. [run[r] EXCEPT !.st = "completed"] \in Runs
  BY DEF RunTyped, Runs
<1>3. run' = [run EXCEPT ![r] = [run[r] EXCEPT !.st = "completed"], ![r + 1] = row]
  BY DEF Chain
<1>4. run' \in [Revs -> Runs]
  <2> HIDE DEF row
  <2> QED
    BY <1>1, <1>2, <1>3 DEF RunTyped
<1>5. \A i \in Revs : run'[i].st = "completed" => i < StepLimit
  <2>1. run'[r + 1].st = "ready"
    BY <1>1, <1>3 DEF RunTyped
  <2>2. \A i \in Revs : i # r + 1 => run'[i] = IF i = r THEN [run[r] EXCEPT !.st = "completed"] ELSE run[i]
    BY <1>1, <1>3 DEF RunTyped
  <2> QED
    BY <2>1, <2>2 DEF RunTyped
<1> QED
  BY <1>4, <1>5 DEF RunTyped

\* Opening a wait keeps the answers well formed.
LEMMA OpenWaitTyped ==
  ASSUME AnsTyped, NEW r \in Revs, NEW kind, OpenWait(r, kind)
  PROVE  AnsTyped'
BY DEF OpenWait, AnsTyped, Waits

\* Putting the task back keeps its row well formed.
LEMMA PutBackTyped ==
  ASSUME TkTyped, PutBack
  PROVE  TkTyped'
BY DEF PutBack, TkTyped, Tasks, SubStates

\* What a completed phase leads to is a kind of I/O step.
LEMMA NextKindsTyped ==
  ASSUME TkTyped, NEW kind \in NextKinds(tk.ph)
  PROVE  kind \in IOKinds
BY DEF TkTyped, NextKinds, IOKinds
----------------------------------------------------------------------------
(* Type correctness, one lemma per party *)

\* The program counters and the phases that the actions name.
LEMMA PcNames ==
  /\ {"claim", "lease", "run", "preparing", "request", "io", "prepared", "started", "executed", "failed", "recorded",
      "saved", "asking", "yielding", "commit", "ok", "busy", "fatal", "dead"} \subseteq ActPcs
  /\ {"step_preparing", "model_pending", "model_received", "tool_started", "tool_done", "evaluation_pending",
      "evaluation_done", "step_ready", "waiting_user"} \subseteq TaskPhases
BY DEF ActPcs, TaskPhases

\* The cursor of an Activity is a row of a known kind.
LEMMA KindTyped ==
  ASSUME RunTyped, ActTyped, NEW a \in Acts
  PROVE  Kind(a) \in StepKinds /\ Rev(a) \in Revs
BY DEF RunTyped, ActTyped, Activities, Runs, Kind, Rev

\* An Activity between its claim and its commit.
LEMMA InvocationTyped ==
  ASSUME StepsInv, NEW a \in Acts,
         \/ TakeLease(a) \/ Stop(a) \/ Enter(a) \/ Prepare(a) \/ Request(a) \/ Execute(a) \/ ExecuteFails(a)
         \/ RetryModel(a) \/ RaiseFailed(a) \/ Save(a) \/ Suspend(a)
         \/ (\E next \in IOKinds : Yield(a, next)) \/ Yielded(a) \/ (\E st \in {"completed", "failed"} : End(a, st))
         \/ PrepareOp(a) \/ ClaimOp(a) \/ Record(a) \/ Die(a)
  PROVE  StepsInv'
<1>0. TkTyped /\ RunTyped /\ OpsTyped /\ EffectsTyped /\ ActTyped
  BY DEF StepsInv
<1>1. SubTyped' /\ RunTyped' /\ AnsTyped' /\ WfTyped'
  BY DEF StepsInv, SubTyped, RunTyped, AnsTyped, WfTyped, OnlyAct, TakeLease, Stop, Enter, Prepare, Request, Execute,
         ExecuteFails, RetryModel, RaiseFailed, Save, Suspend, Yield, Yielded, End, PrepareOp, ClaimOp, Record, Die
<1>2. EffectsTyped'
  <2>1. CASE Execute(a) \/ ExecuteFails(a)
    BY <1>0, <2>1 DEF EffectsTyped, Execute, ExecuteFails
  <2>2. CASE ~(Execute(a) \/ ExecuteFails(a))
    BY <1>0, <2>2 DEF EffectsTyped, TakeLease, Stop, Enter, Prepare, Request, RetryModel, RaiseFailed, Save, Suspend,
       Yield, Yielded, End, PrepareOp, ClaimOp, Record, Die
  <2> QED
    BY <2>1, <2>2
<1>3. OpsTyped'
  <2>1. CASE PrepareOp(a) \/ ClaimOp(a) \/ Record(a) \/ ExecuteFails(a)
    BY <1>0, <2>1 DEF OpsTyped, OpStates, PrepareOp, ClaimOp, Record, ExecuteFails, UncertainOp
  <2>2. CASE ~(PrepareOp(a) \/ ClaimOp(a) \/ Record(a) \/ ExecuteFails(a))
    BY <1>0, <2>2 DEF OpsTyped, TakeLease, Stop, Enter, Prepare, Request, Execute, RetryModel, RaiseFailed, Save,
       Suspend, Yield, Yielded, End, Die
  <2> QED
    BY <2>1, <2>2
<1>4. TkTyped' /\ ActTyped'
  <2>0. tk' = tk => TkTyped'
    BY <1>0 DEF TkTyped
  <2>1. CASE TakeLease(a)
    <3>1. TkTyped'
      BY <1>0, <2>1 DEF TakeLease, TkTyped, Tasks, SubStates
    <3>2. ActTyped'
      BY <1>0, <2>1, PcNames, GotoTyped, CommitNextTyped DEF TakeLease, StepKinds
    <3> QED
      BY <3>1, <3>2
  <2>2. CASE Stop(a)
    BY <1>0, <2>2, ReturnsTyped DEF Stop, SubStates
  <2>3. CASE Enter(a)
    <3>1. CASE tk.ph = "evaluation_done"
      <4>1. Goto(a, "saved") /\ tk' = tk
        BY <2>3, <3>1, Zenon DEF Enter
      <4> QED
        BY <1>0, <4>1, PcNames, GotoTyped DEF TkTyped
    <3>2. CASE tk.ph = "model_pending"
      <4>1. tk' = tk /\ act' = [act EXCEPT ![a].pc = "request", ![a].att = tk.att]
        BY <2>3, <3>2, Zenon DEF Enter
      <4>2. tk.att \in 1..MaxAttempts
        BY <1>0 DEF TkTyped, Tasks
      <4>3. [act[a] EXCEPT !.pc = "request", !.att = tk.att] \in Activities
        BY <1>0, <4>2, PcNames DEF ActTyped, Activities
      <4> QED
        BY <1>0, <4>1, <4>3 DEF TkTyped, ActTyped
    <3>3. CASE tk.ph \notin {"evaluation_done", "model_pending"} /\ Kind(a) = "evaluation"
      <4>1. Saves(a, "evaluation_pending", "none", "io")
        BY <2>3, <3>3 DEF Enter
      <4> QED
        BY <1>0, <4>1, PcNames, SavesTyped DEF StepKinds
    <3>4. CASE tk.ph \notin {"evaluation_done", "model_pending"} /\ Kind(a) # "evaluation"
      <4>1. Saves(a, "step_preparing", Kind(a), "preparing")
        BY <2>3, <3>4 DEF Enter
      <4> QED
        BY <1>0, <4>1, PcNames, KindTyped, SavesTyped
    <3> QED
      BY <3>1, <3>2, <3>3, <3>4
  <2>4. CASE Prepare(a)
    <3>1. CASE Goto(a, "request") /\ tk' = tk
      BY <1>0, <2>0, <3>1, PcNames, GotoTyped
    <3>2. CASE Saves(a, "tool_started", "none", "io") \/ Saves(a, "tool_done", "none", "saved")
      BY <1>0, <3>2, PcNames, SavesTyped
    <3>3. CASE act' = [act EXCEPT ![a].pc = "io", ![a].asks = TRUE] /\ tk' = tk
      <4>1. [act[a] EXCEPT !.pc = "io", !.asks = TRUE] \in Activities
        BY <1>0, PcNames DEF ActTyped, Activities
      <4> QED
        BY <1>0, <2>0, <3>3, <4>1 DEF ActTyped
    <3> QED
      BY <2>4, <3>1, <3>2, <3>3 DEF Prepare
  <2>5. CASE Request(a)
    <3>1. Saves(a, "model_pending", "none", "io")
      BY <2>5 DEF Request
    <3> QED
      BY <1>0, <3>1, PcNames, SavesTyped
  <2>6. CASE Execute(a) \/ ExecuteFails(a)
    <3>1. tk' = tk /\ (Goto(a, "executed") \/ Goto(a, "failed"))
      BY <2>6 DEF Execute, ExecuteFails
    <3> QED
      BY <1>0, <2>0, <3>1, PcNames, GotoTyped
  <2>7. CASE RetryModel(a)
    <3>1. tk' = tk /\ act' = [act EXCEPT ![a].pc = "request", ![a].att = act[a].att + 1] /\ act[a].att < MaxAttempts
      BY <2>7 DEF RetryModel, AttemptLeft
    <3>2. act[a] \in Activities /\ act[a].att + 1 \in 1..MaxAttempts
      BY <1>0, <3>1, Numbers DEF ActTyped, Activities
    <3>3. [act[a] EXCEPT !.pc = "request", !.att = act[a].att + 1] \in Activities
      BY <3>2, PcNames DEF Activities
    <3> QED
      BY <1>0, <2>0, <3>1, <3>3 DEF ActTyped
  <2>8. CASE RaiseFailed(a)
    BY <1>0, <2>8, RaiseTyped DEF RaiseFailed
  <2>9. CASE Save(a)
    <3>1. Done(Kind(a)) \in TaskPhases \ {"step_ready"}
      BY PcNames DEF Done
    <3>2. Saves(a, "waiting_user", "none", "asking") \/ Saves(a, Done(Kind(a)), "none", "saved")
      BY <2>9 DEF Save
    <3> QED
      BY <1>0, <3>1, <3>2, PcNames, SavesTyped
  <2>10. CASE Suspend(a)
    <3>1. Finishes(a, "suspended", "human")
      BY <2>10 DEF Suspend
    <3> QED
      BY <1>0, <3>1, FinishesTyped DEF StepKinds
  <2>11. ASSUME NEW next \in IOKinds, Yield(a, next) PROVE TkTyped' /\ ActTyped'
    <3>1. Saves(a, "step_ready", next, "yielding")
      BY <2>11 DEF Yield
    <3> QED
      BY <1>0, <3>1, PcNames, SavesTyped DEF StepKinds
  <2>12. CASE Yielded(a)
    <3>1. Finishes(a, "pending", tk.nx) /\ tk.nx \in StepKinds \union {"none"}
      BY <1>0, <2>12 DEF Yielded, TkTyped, Tasks
    <3> QED
      BY <1>0, <3>1, FinishesTyped DEF SubStates
  <2>13. ASSUME NEW st \in {"completed", "failed"}, End(a, st) PROVE TkTyped' /\ ActTyped'
    <3>1. Returns(a, IF MustStop(a) THEN "cancelled" ELSE st)
      BY <2>13 DEF End
    <3> QED
      BY <1>0, <3>1, ReturnsTyped DEF SubStates
  <2>14. CASE PrepareOp(a) \/ ClaimOp(a) \/ Record(a)
    <3>1. \/ tk' = tk /\ (Goto(a, "prepared") \/ Goto(a, "started") \/ Goto(a, "recorded"))
          \/ Raise(a, "fatal")
      BY <2>14 DEF PrepareOp, ClaimOp, Record
    <3> QED
      BY <1>0, <2>0, <3>1, PcNames, GotoTyped, RaiseTyped
  <2>15. CASE Die(a)
    <3>1. tk' = tk /\ Goto(a, "dead")
      BY <2>15 DEF Die
    <3> QED
      BY <1>0, <2>0, <3>1, PcNames, GotoTyped
  <2> QED
    BY <2>1, <2>2, <2>3, <2>4, <2>5, <2>6, <2>7, <2>8, <2>9, <2>10, <2>11, <2>12, <2>13, <2>14, <2>15
<1> QED
  BY <1>1, <1>2, <1>3, <1>4 DEF StepsInv

\* Claiming and committing a cursor keeps every row well formed.
LEMMA CursorTyped ==
  ASSUME StepsInv, NEW a \in Acts, StepClaim(a) \/ Commit(a)
  PROVE  StepsInv'
<1>0. TkTyped /\ RunTyped /\ OpsTyped /\ EffectsTyped /\ ActTyped /\ AnsTyped
  BY DEF StepsInv
<1>1. SubTyped' /\ TkTyped' /\ OpsTyped' /\ EffectsTyped' /\ WfTyped'
  BY DEF StepsInv, SubTyped, TkTyped, OpsTyped, EffectsTyped, WfTyped, StepClaim, Commit
<1>2. ActTyped'
  BY <1>0, PcNames, GotoTyped DEF StepClaim, Commit
<1>3. Rev(a) \in Revs
  BY <1>0 DEF ActTyped, Activities, Rev
<1>4. CASE StepClaim(a)
  <2>1. RunTyped'
    BY <1>0, <1>3, <1>4 DEF StepClaim, RunTyped, Runs
  <2>2. AnsTyped'
    BY <1>0, <1>4 DEF StepClaim, AnsTyped
  <2> QED
    BY <1>1, <1>2, <2>1, <2>2 DEF StepsInv
<1>5. CASE Commit(a)
  <2>1. CASE UNCHANGED <<run, ans>>
    BY <1>0, <1>1, <1>2, <2>1 DEF StepsInv, RunTyped, AnsTyped
  <2>2. CASE Fits(tk, act[a].next) /\ Rev(a) < StepLimit /\ Chain(Rev(a), act[a].next) /\ OpenWait(Rev(a), act[a].next)
    <3>1. act[a].next \in StepKinds
      <4>1. act[a].next \in {"human", "finalize"} \/ act[a].next \in NextKinds(tk.ph)
        BY <2>2 DEF Fits
      <4> QED
        BY <1>0, <4>1, NextKindsTyped DEF StepKinds
    <3>2. RunTyped' /\ AnsTyped'
      BY <1>0, <1>3, <2>2, <3>1, ChainTyped, OpenWaitTyped
    <3> QED
      BY <1>1, <1>2, <3>2 DEF StepsInv
  <2> QED
    BY <1>5, <2>1, <2>2 DEF Commit
<1> QED
  BY <1>4, <1>5

\* The client's transactions and the clock keep every row well formed.
LEMMA ClientTyped ==
  ASSUME StepsInv, Client \/ Cancel \/ DispatchExpired \/ DispatchLost \/ (\E r \in Revs : Answer(r))
  PROVE  StepsInv'
<1>0. SubTyped /\ TkTyped /\ RunTyped /\ OpsTyped /\ EffectsTyped /\ AnsTyped /\ ActTyped /\ WfTyped
  BY DEF StepsInv
<1> DEFINE Rest == RunTyped' /\ EffectsTyped' /\ ActTyped'
<1>1. Rest
  BY <1>0 DEF RunTyped, EffectsTyped, ActTyped, Client, Submit, DispatchCheck, DispatchStart, DispatchCancel, Reconcile,
     Signal, Expire, Cancel, DispatchExpired, DispatchLost, Answer, rows
<1>2. CASE Submit
  <2>1. TkTyped'
    BY <1>0, <1>2 DEF Submit, TkTyped, Tasks, SubStates
  <2> QED
    BY <1>0, <1>1, <1>2, <2>1 DEF Submit, StepsInv, SubTyped, SubStates, OpsTyped, AnsTyped, WfTyped
<1>3. CASE DispatchCheck \/ Cancel \/ Reconcile
  <2>1. TkTyped' /\ OpsTyped' /\ sub' \in SubStates /\ box' \in {"none", "pending", "sent"}
    <3>1. CancelRows \/ (FailRows /\ box' = box) \/ UNCHANGED <<sub, box, tk, ops>>
      BY <1>3 DEF DispatchCheck, Cancel, Reconcile
    <3> QED
      BY <1>0, <3>1, CancelRowsTyped, FailRowsTyped DEF SubTyped, TkTyped, OpsTyped
  <2>2. fenced' \in BOOLEAN /\ disp' \in {"idle", "checked"} /\ AnsTyped' /\ WfTyped'
    BY <1>0, <1>3 DEF DispatchCheck, Cancel, Reconcile, SubTyped, AnsTyped, WfTyped
  <2> QED
    BY <1>1, <2>1, <2>2 DEF StepsInv, SubTyped
<1>4. CASE DispatchStart
  <2>1. WfTyped'
    BY <1>0, <1>4 DEF DispatchStart, WfTyped, Workflows
  <2> QED
    BY <1>0, <1>1, <1>4, <2>1 DEF DispatchStart, StepsInv, SubTyped, SubStates, TkTyped, OpsTyped, AnsTyped
<1>5. CASE DispatchExpired
  <2>1. TkTyped'
    BY <1>0, <1>5 DEF DispatchExpired, TkTyped, Tasks, SubStates
  <2>2. OpsTyped'
    BY <1>0, <1>5, FencedTyped DEF DispatchExpired, OpsTyped
  <2> QED
    BY <1>0, <1>1, <1>5, <2>1, <2>2 DEF DispatchExpired, StepsInv, SubTyped, SubStates, AnsTyped, WfTyped
<1>6. CASE DispatchLost
  BY <1>0, <1>1, <1>6 DEF DispatchLost, rows, StepsInv, SubTyped, TkTyped, OpsTyped, AnsTyped, WfTyped
<1>7. CASE DispatchCancel
  <2>1. WfTyped'
    BY <1>0, <1>7 DEF DispatchCancel, WfTyped, Workflows
  <2> QED
    BY <1>0, <1>1, <1>7, <2>1 DEF DispatchCancel, StepsInv, SubTyped, TkTyped, OpsTyped, AnsTyped
<1>8. ASSUME NEW r \in Revs, Answer(r) \/ Signal(r) \/ Expire(r) PROVE StepsInv'
  <2>1. AnsTyped'
    <3>1. ans[r] \in Waits
      BY <1>0 DEF AnsTyped
    <3>2. /\ [ans[r] EXCEPT !.st = "answered", !.sent = "pending"] \in Waits
          /\ [ans[r] EXCEPT !.sent = "sent"] \in Waits
      BY <3>1 DEF Waits
    <3>3. [ans[r] EXCEPT !.late = TRUE] \in Waits
      BY <3>1 DEF Waits
    <3>4. \/ ans' = [ans EXCEPT ![r] = [ans[r] EXCEPT !.st = "answered", !.sent = "pending"]]
          \/ ans' = [ans EXCEPT ![r] = [ans[r] EXCEPT !.sent = "sent"]]
          \/ ans' = [ans EXCEPT ![r] = [ans[r] EXCEPT !.late = TRUE]]
          \/ ans' = ans
      BY <1>8 DEF Answer, Signal, Expire
    <3> QED
      BY <1>0, <3>2, <3>3, <3>4 DEF AnsTyped
  <2>2. WfTyped'
    BY <1>0, <1>8 DEF Answer, Signal, Expire, WfTyped, Workflows
  <2> QED
    BY <1>0, <1>1, <1>8, <2>1, <2>2 DEF Answer, Signal, Expire, StepsInv, SubTyped, TkTyped, OpsTyped
<1> QED
  BY <1>2, <1>3, <1>4, <1>5, <1>6, <1>7, <1>8 DEF Client

\* A Workflow that closes stays well formed.
LEMMA WorkflowCloses ==
  ASSUME WfTyped, NEW st \in {"none", "open", "completed", "failed", "canceled"}
  PROVE  /\ (wf' = [wf EXCEPT !.st = st] => WfTyped')
         /\ (wf' = wf => WfTyped')
BY DEF WfTyped, Workflows

\* A Workflow that goes on at the same cursor stays well formed.
LEMMA WorkflowMoves ==
  ASSUME WfTyped, NEW pc \in WfPcs \ {"await", "recover"}
  PROVE  /\ (wf' = [wf EXCEPT !.pc = pc] => WfTyped')
         /\ (wf' = [wf EXCEPT !.pc = pc, !.note = FALSE] => WfTyped')
BY DEF WfTyped, Workflows

\* A Workflow that goes on to the next cursor stays below the limit.
LEMMA WorkflowAdvances ==
  ASSUME WfTyped, wf.rev < StepLimit, wf' = [wf EXCEPT !.pc = "step", !.rev = wf.rev + 1]
  PROVE  WfTyped'
<1>1. wf.rev + 1 \in Revs
  BY Numbers DEF WfTyped, Workflows
<1> QED
  BY <1>1 DEF WfTyped, Workflows, WfPcs

\* The recovery keeps every row well formed.
LEMMA RecoverTyped ==
  ASSUME StepsInv, WfRecover
  PROVE  StepsInv'
<1> DEFINE r == wf.rev
           next == [wf EXCEPT !.pc = "step"]
           onward == [wf EXCEPT !.pc = "step", !.rev = r + 1]
<1>0. SubTyped /\ TkTyped /\ RunTyped /\ OpsTyped /\ EffectsTyped /\ AnsTyped /\ ActTyped /\ WfTyped
  BY DEF StepsInv
<1>1. fenced' \in BOOLEAN /\ box' \in {"none", "pending", "sent"} /\ disp' \in {"idle", "checked"} /\ EffectsTyped' /\ ActTyped'
  BY <1>0 DEF WfRecover, SubTyped, EffectsTyped, ActTyped
<1>2. r \in Revs /\ r < StepLimit
  BY <1>0 DEF WfRecover, Working, WfTyped, Workflows
<1>3. wf' \in {[wf EXCEPT !.st = "failed"], next, onward, wf} => WfTyped'
  <2>1. "step" \in WfPcs \ {"await", "recover"}
    BY DEF WfPcs
  <2> QED
    BY <1>0, <1>2, <2>1, WorkflowMoves, WorkflowCloses, WorkflowAdvances
<1>4. CASE UNCHANGED <<sub, tk, run, ops, ans>> /\ wf' \in {[wf EXCEPT !.st = "failed"], next, onward, wf}
  BY <1>0, <1>1, <1>3, <1>4 DEF StepsInv, SubTyped, TkTyped, RunTyped, OpsTyped, AnsTyped
<1>5. CASE FailRows /\ wf' \in {[wf EXCEPT !.st = "failed"], wf} /\ UNCHANGED <<run, ans>>
  <2>1. RunTyped' /\ AnsTyped'
    BY <1>0, <1>5 DEF RunTyped, AnsTyped
  <2>2. TkTyped' /\ OpsTyped' /\ sub' \in SubStates
    BY <1>0, <1>5, FailRowsTyped
  <2> QED
    BY <1>1, <1>3, <1>5, <2>1, <2>2 DEF StepsInv, SubTyped
<1>6. CASE PutBack /\ run' = [run EXCEPT ![r].st = "ready", ![r].fence = NoAct] /\ wf' \in {next, wf} /\ UNCHANGED <<sub, ops, ans>>
  <2>1. [run[r] EXCEPT !.st = "ready", !.fence = NoAct] \in Runs
    BY <1>0, <1>2 DEF RunTyped, Runs
  <2>2. run' = [run EXCEPT ![r] = [run[r] EXCEPT !.st = "ready", !.fence = NoAct]]
    BY <1>6
  <2>3. RunTyped'
    BY <1>0, <1>2, <2>1, <2>2 DEF RunTyped
  <2>4. TkTyped'
    BY <1>0, <1>6, PutBackTyped
  <2> QED
    BY <1>0, <1>1, <1>3, <1>6, <2>3, <2>4 DEF StepsInv, SubTyped, OpsTyped, AnsTyped
<1>7. ASSUME NEW kind \in Recovery(r) \ {"again"},
             PutBack, Chain(r, kind), OpenWait(r, kind), wf' \in {onward, wf}, UNCHANGED <<sub, ops>>
      PROVE  StepsInv'
  <2>1. kind \in StepKinds
    <3>1. kind \in {"finalize", "human", "again"} \/ kind \in NextKinds(tk.ph)
      BY <1>7 DEF Recovery, PhaseRecovery
    <3> QED
      BY <1>0, <1>7, <3>1, NextKindsTyped DEF StepKinds
  <2>2. RunTyped' /\ AnsTyped' /\ TkTyped'
    BY <1>0, <1>2, <1>7, <2>1, ChainTyped, OpenWaitTyped, PutBackTyped
  <2> QED
    BY <1>0, <1>1, <1>3, <1>7, <2>2 DEF StepsInv, SubTyped, OpsTyped
<1> QED
  BY <1>2, <1>4, <1>5, <1>6, <1>7 DEF WfRecover, Closes, Answers

\* The probe of a human wait keeps every row well formed.
LEMMA ProbeTyped ==
  ASSUME StepsInv, WfProbe
  PROVE  StepsInv'
<1> DEFINE r == wf.rev
           onward == [wf EXCEPT !.pc = "step", !.rev = r + 1]
<1>0. SubTyped /\ TkTyped /\ RunTyped /\ OpsTyped /\ EffectsTyped /\ AnsTyped /\ ActTyped /\ WfTyped
  BY DEF StepsInv
<1>1. SubTyped' /\ OpsTyped' /\ EffectsTyped' /\ ActTyped'
  BY <1>0 DEF WfProbe, SubTyped, OpsTyped, EffectsTyped, ActTyped
<1>2. r \in Revs /\ "step" \in WfPcs \ {"await", "recover"} /\ "wait" \in WfPcs \ {"await", "recover"}
  BY <1>0 DEF WfTyped, Workflows, WfPcs
<1>3. CASE UNCHANGED <<tk, run, ans>> /\ (\/ wf' \in {[wf EXCEPT !.st = "failed"], [wf EXCEPT !.pc = "wait"], wf}
                                          \/ wf' = onward /\ run[r].st = "completed")
  <2>1. WfTyped'
    BY <1>0, <1>2, <1>3, WorkflowMoves, WorkflowCloses, WorkflowAdvances DEF RunTyped
  <2> QED
    BY <1>0, <1>1, <1>3, <2>1 DEF StepsInv, TkTyped, RunTyped, AnsTyped
<1>4. ASSUME NEW st \in {"consumed", "expired"}, NEW kind \in StepKinds, r < StepLimit,
             TkTyped', Chain(r, kind), ans' = [ans EXCEPT ![r].st = st], wf' \in {onward, wf}
      PROVE  StepsInv'
  <2>1. RunTyped'
    BY <1>0, <1>2, <1>4, ChainTyped
  <2>2. AnsTyped'
    BY <1>0, <1>2, <1>4 DEF AnsTyped, Waits
  <2>3. WfTyped'
    BY <1>0, <1>2, <1>4, WorkflowMoves, WorkflowCloses, WorkflowAdvances
  <2> QED
    BY <1>1, <1>4, <2>1, <2>2, <2>3 DEF StepsInv
<1>5. [tk EXCEPT !.st = "failed"] \in Tasks /\ [tk EXCEPT !.st = "pending", !.ph = "tool_done"] \in Tasks
  BY <1>0, PcNames DEF TkTyped, Tasks, SubStates
<1>6. tk' \in {[tk EXCEPT !.st = "failed"], [tk EXCEPT !.st = "pending", !.ph = "tool_done"]} => TkTyped'
  BY <1>0, <1>5 DEF TkTyped, Tasks
<1>7. "finalize" \in StepKinds /\ "tool" \in StepKinds /\ "model" \in StepKinds
  BY DEF StepKinds, IOKinds
<1> QED
  BY <1>3, <1>4, <1>6, <1>7 DEF WfProbe, Closes, Answers

\* Every step of the Workflow keeps every row well formed.
LEMMA WorkflowTyped ==
  ASSUME StepsInv, Workflow \/ WfGivesUp \/ WfDies
  PROVE  StepsInv'
<1>0. SubTyped /\ TkTyped /\ RunTyped /\ OpsTyped /\ EffectsTyped /\ AnsTyped /\ ActTyped /\ WfTyped
  BY DEF StepsInv
<1>1. {"bootstrap", "step", "before", "probe", "wait", "finalize"} \subseteq WfPcs \ {"await", "recover"}
  BY DEF WfPcs
<1>2. UNCHANGED rows => TkTyped' /\ RunTyped' /\ OpsTyped' /\ AnsTyped'
  BY <1>0 DEF rows, TkTyped, RunTyped, OpsTyped, AnsTyped
<1>3. OnlyWf => SubTyped' /\ TkTyped' /\ RunTyped' /\ OpsTyped' /\ EffectsTyped' /\ AnsTyped' /\ ActTyped'
  BY <1>0 DEF OnlyWf, rows, SubTyped, TkTyped, RunTyped, OpsTyped, EffectsTyped, AnsTyped, ActTyped
<1>4. CASE WfAdopt
  <2>1. WfTyped'
    BY <1>0, <1>1, <1>4, WorkflowMoves, WorkflowCloses DEF WfAdopt, Closes
  <2> QED
    BY <1>0, <1>4, <2>1 DEF WfAdopt, StepsInv, SubTyped, SubStates, TkTyped, RunTyped, OpsTyped, EffectsTyped, AnsTyped, ActTyped
<1>5. CASE WfBootstrap
  <2>1. WfTyped'
    BY <1>0, <1>1, <1>5, WorkflowMoves, WorkflowCloses DEF WfBootstrap, Closes, Answers
  <2>2. RunTyped'
    BY <1>0, <1>5, Numbers DEF WfBootstrap, RunTyped, Runs
  <2> QED
    BY <1>0, <1>5, <2>1, <2>2 DEF WfBootstrap, StepsInv, SubTyped, TkTyped, OpsTyped, EffectsTyped, AnsTyped, ActTyped
<1>6. CASE WfStep
  <2>1. wf.rev \in Revs /\ run[wf.rev].kind \in StepKinds
    BY <1>0 DEF WfTyped, Workflows, RunTyped, Runs
  <2>2. CASE act' = act /\ wf' \in {[wf EXCEPT !.pc = "before"], [wf EXCEPT !.pc = "finalize"], [wf EXCEPT !.st = "failed"]}
    <3>1. WfTyped'
      BY <1>0, <1>1, <2>2, WorkflowMoves, WorkflowCloses
    <3> QED
      BY <1>0, <1>2, <1>6, <2>2, <3>1 DEF WfStep, rows, StepsInv, SubTyped, EffectsTyped, ActTyped
  <2>3. CASE /\ wf.rev < StepLimit /\ wf.act + 1 \in Acts
             /\ wf' = [wf EXCEPT !.pc = "await", !.act = wf.act + 1]
             /\ act' = [act EXCEPT ![wf.act + 1] = Activity("claim", wf.rev)]
    <3>1. WfTyped'
      BY <1>0, <2>3 DEF WfTyped, Workflows, WfPcs
    <3>2. Activity("claim", wf.rev) \in Activities
      BY <2>1, PcNames, IdleActivity
    <3>3. ActTyped'
      BY <1>0, <2>3, <3>2 DEF ActTyped
    <3> QED
      BY <1>0, <1>2, <1>6, <3>1, <3>3 DEF WfStep, rows, StepsInv, SubTyped, EffectsTyped
  <2>4. wf.rev >= StepLimit \/ wf.rev < StepLimit
    BY <2>1, Numbers DEF Revs
  <2> QED
    BY <1>6, <2>1, <2>2, <2>3, <2>4 DEF WfStep, Closes, StepKinds
<1>7. CASE WfResult
  <2>1. WfTyped'
    BY <1>0, <1>7, WorkflowAdvances DEF WfResult, Working, WfTyped
  <2> QED
    BY <1>3, <1>7, <2>1 DEF WfResult, StepsInv
<1>8. CASE WfFails \/ WfCanceled \/ WfDies
  <2>1. WfTyped'
    BY <1>0, <1>8, WorkflowMoves, WorkflowCloses DEF WfFails, WfCanceled, WfDies, Closes
  <2> QED
    BY <1>3, <1>8, <2>1 DEF WfFails, WfCanceled, WfDies, StepsInv
<1>9. CASE WfRetries \/ WfGivesUp
  <2>1. Retried /\ wf.rev < StepLimit
    BY <1>0, <1>9 DEF WfRetries, WfGivesUp, Working, WfTyped
  <2>2. CASE wf.rec < RecoveryLimit
    <3>1. wf.rec + 1 \in 0..RecoveryLimit
      BY <1>0, <2>2, Numbers DEF WfTyped, Workflows
    <3> QED
      BY <1>0, <1>3, <1>9, <2>1, <2>2, <3>1 DEF Retried, WfRetries, WfGivesUp, StepsInv, WfTyped, Workflows, WfPcs
  <2>3. CASE ~(wf.rec < RecoveryLimit)
    <3>1. WfTyped'
      BY <1>0, <2>1, <2>3, WorkflowMoves, WorkflowCloses DEF Retried
    <3> QED
      BY <1>3, <1>9, <3>1 DEF WfRetries, WfGivesUp, StepsInv
  <2> QED
    BY <2>2, <2>3
<1>10. CASE WfBefore \/ WfWakes
  <2>1. WfTyped'
    BY <1>0, <1>1, <1>10, WorkflowMoves, WorkflowCloses DEF WfBefore, WfWakes
  <2> QED
    BY <1>3, <1>10, <2>1 DEF WfBefore, WfWakes, StepsInv
<1>11. CASE WfFinalize
  <2>1. WfTyped'
    BY <1>0, <1>11, WorkflowMoves, WorkflowCloses DEF WfFinalize, Closes
  <2> QED
    BY <1>0, <1>11, <2>1 DEF WfFinalize, StepsInv, SubTyped, SubStates, TkTyped, RunTyped, OpsTyped, EffectsTyped, AnsTyped, ActTyped
<1> QED
  BY <1>4, <1>5, <1>6, <1>7, <1>8, <1>9, <1>10, <1>11, RecoverTyped, ProbeTyped DEF Workflow

\* The initial rows are well formed.
LEMMA StepsInitial == StepsInit => StepsInv
<1> SUFFICES ASSUME StepsInit PROVE StepsInv
  OBVIOUS
<1>1. SubTyped
  BY Zenon DEF StepsInit, SubTyped, SubStates
<1>2. TkTyped /\ RunTyped /\ OpsTyped /\ EffectsTyped
  BY Numbers DEF StepsInit, TkTyped, Tasks, SubStates, TaskPhases, RunTyped, Runs, StepKinds, IOKinds, OpsTyped, OpStates, EffectsTyped
<1>3. AnsTyped
  BY DEF StepsInit, AnsTyped, Waits
<1>4. ActTyped
  <2>1. "unused" \in ActPcs
    BY DEF ActPcs
  <2>2. Activity("unused", 0) \in Activities
    BY <2>1, Numbers, IdleActivity
  <2> QED
    BY <2>2 DEF StepsInit, ActTyped
<1>5. WfTyped
  BY Numbers DEF StepsInit, WfTyped, Workflows, WfPcs
<1> QED
  BY <1>1, <1>2, <1>3, <1>4, <1>5 DEF StepsInv

\* Every step keeps the rows well formed.
LEMMA StepsInductive == StepsInv /\ [StepsNext]_stepsVars => StepsInv'
<1> SUFFICES ASSUME StepsInv, [StepsNext]_stepsVars PROVE StepsInv'
  OBVIOUS
<1>1. CASE UNCHANGED stepsVars
  BY <1>1 DEF stepsVars, StepsInv, SubTyped, TkTyped, RunTyped, OpsTyped, EffectsTyped, AnsTyped, ActTyped, WfTyped
<1>2. CASE StepsNext
  BY <1>2, ClientTyped, WorkflowTyped, InvocationTyped, CursorTyped DEF StepsNext, Faults, Advance
<1> QED
  BY <1>1, <1>2

----------------------------------------------------------------------------
(* An operation is executed once *)

Claimed(o) == ops[o] \in {"running", "uncertain", "completed"}
Started(a) == act[a].pc = "started"

\* A call was claimed before it was made; the Activity about to make it is the only one.
CalledClaimed == \A o \in StepIds : effects[o] \in {0, 1} /\ (effects[o] = 1 => Claimed(o))
StartedFresh == \A a \in Acts : Started(a) => effects[StepOf(a)] = 0 /\ Claimed(StepOf(a))
StartedAlone == \A a, b \in Acts : Started(a) /\ Started(b) /\ StepOf(a) = StepOf(b) => a = b
OnceInv == CalledClaimed /\ StartedFresh /\ StartedAlone

\* What most steps leave alone: claims stay claims, and nobody starts a call.
ClaimsStay == \A o \in StepIds : Claimed(o) => Claimed(o)'
NobodyStarts == \A a \in Acts : Started(a)' => Started(a) /\ StepOf(a)' = StepOf(a)

\* An Activity works at a logical step of the task.
LEMMA StepOfTyped ==
  ASSUME ActTyped, NEW a \in Acts
  PROVE  StepOf(a) \in StepIds
BY DEF ActTyped, Activities, StepOf, StepIds, Rev

\* A step that makes no call, gives up no claim and starts nobody keeps OnceInv.
LEMMA Quiet ==
  ASSUME OnceInv, ActTyped, effects' = effects, ClaimsStay, NobodyStarts
  PROVE  OnceInv'
<1>1. CalledClaimed'
  BY DEF OnceInv, CalledClaimed, ClaimsStay
<1>2. StartedFresh'
  <2> SUFFICES ASSUME NEW a \in Acts, Started(a)' PROVE (effects[StepOf(a)] = 0 /\ Claimed(StepOf(a)))'
    BY DEF StartedFresh
  <2>1. Started(a) /\ StepOf(a)' = StepOf(a) /\ StepOf(a) \in StepIds
    BY StepOfTyped DEF NobodyStarts
  <2>2. Claimed(StepOf(a)) /\ effects[StepOf(a)] = 0
    BY <2>1 DEF OnceInv, StartedFresh
  <2> QED
    BY <2>1, <2>2 DEF ClaimsStay, Claimed
<1>3. StartedAlone'
  BY DEF OnceInv, StartedAlone, NobodyStarts
<1> QED
  BY <1>1, <1>2, <1>3 DEF OnceInv

\* A program counter that moves on starts nobody, unless it moves to started.
LEMMA GotoQuiet ==
  ASSUME ActTyped, NEW a \in Acts, NEW pc \in ActPcs \ {"started"}, Goto(a, pc)
  PROVE  NobodyStarts
BY DEF Goto, ActTyped, Activities, Activity, NobodyStarts, Started, StepOf, Rev, EndPcs

\* A turn that goes on to commit starts nobody.
LEMMA CommitNextQuiet ==
  ASSUME ActTyped, NEW a \in Acts, NEW kind, CommitNext(a, kind)
  PROVE  NobodyStarts
BY DEF CommitNext, ActTyped, Activities, NobodyStarts, Started, StepOf, Rev

\* Nobody starts when no Activity moves.
LEMMA SameQuiet ==
  ASSUME act' = act
  PROVE  NobodyStarts
BY DEF NobodyStarts, Started, StepOf, Rev

\* Nobody starts in a checkpoint, a finish, a returned reply or the except branch.
LEMMA HelpersQuiet ==
  ASSUME ActTyped, NEW a \in Acts
  PROVE  /\ \A ph, nx : \A pc \in ActPcs \ {"started"} : Saves(a, ph, nx, pc) => NobodyStarts
         /\ \A st, next : Finishes(a, st, next) => NobodyStarts
         /\ \A st : Returns(a, st) => NobodyStarts
         /\ \A how \in {"busy", "fatal"} : Raise(a, how) => NobodyStarts
<1>1. "busy" \in ActPcs \ {"started"} /\ "fatal" \in ActPcs \ {"started"}
  BY DEF ActPcs
<1>2. \A st, next : Finishes(a, st, next) => NobodyStarts
  BY <1>1, GotoQuiet, CommitNextQuiet DEF Finishes
<1> QED
  BY <1>1, <1>2, GotoQuiet, CommitNextQuiet DEF Saves, Returns, Raise

\* Fencing gives up no claim.
LEMMA FencedStay ==
  ASSUME OpsTyped, ops' \in {ops, FencedOps}
  PROVE  ClaimsStay
BY DEF OpsTyped, FencedOps, ClaimsStay, Claimed

\* Everything but the ledger's claim and the call itself is quiet.
LEMMA InvocationQuiet ==
  ASSUME StepsInv, OnceInv, NEW a \in Acts, Advance(a) \/ Die(a),
         ~ClaimOp(a), ~Execute(a), ~ExecuteFails(a)
  PROVE  OnceInv'
<1>0. OpsTyped /\ ActTyped /\ RunTyped
  BY DEF StepsInv
<1>1. effects' = effects
  BY DEF Advance, StepClaim, TakeLease, Stop, Enter, Prepare, Request, PrepareOp, RetryModel, RaiseFailed, Record, Save,
     Suspend, Yield, Yielded, End, Commit, Die
<1>2. ClaimsStay
  <2>1. CASE PrepareOp(a) \/ Record(a)
    BY <1>0, <2>1 DEF PrepareOp, Record, Recordable, OpsTyped, ClaimsStay, Claimed
  <2>2. CASE ~(PrepareOp(a) \/ Record(a))
    <3>1. ops' = ops
      BY <2>2 DEF Advance, StepClaim, TakeLease, Stop, Enter, Prepare, Request, RetryModel, RaiseFailed, Save,
         Suspend, Yield, Yielded, End, Commit, Die
    <3> QED
      BY <1>0, <3>1, FencedStay
  <2> QED
    BY <2>1, <2>2
<1>3. NobodyStarts
  <2>0. {"lease", "run", "preparing", "request", "io", "prepared", "executed", "failed", "recorded", "saved", "asking",
         "yielding", "commit", "ok", "busy", "fatal", "dead"} \subseteq ActPcs \ {"started"}
    BY DEF ActPcs
  <2>1. CASE StepClaim(a) \/ Commit(a)
    <3>1. Goto(a, "ok") \/ Goto(a, "lease") \/ Goto(a, "fatal")
      BY <2>1 DEF StepClaim, Commit
    <3> QED
      BY <1>0, <2>0, <3>1, GotoQuiet
  <2>2. CASE TakeLease(a)
    <3>1. CommitNext(a, "finalize") \/ Goto(a, "busy") \/ Goto(a, "run")
      BY <2>2 DEF TakeLease
    <3> QED
      BY <1>0, <2>0, <3>1, GotoQuiet, CommitNextQuiet
  <2>3. CASE Stop(a)
    BY <1>0, <2>3, HelpersQuiet DEF Stop
  <2>4. CASE Enter(a)
    <3>1. \/ Goto(a, "saved")
          \/ act' = [act EXCEPT ![a].pc = "request", ![a].att = tk.att]
          \/ Saves(a, "evaluation_pending", "none", "io")
          \/ Saves(a, "step_preparing", Kind(a), "preparing")
      BY <2>4, Zenon DEF Enter
    <3>2. act' = [act EXCEPT ![a].pc = "request", ![a].att = tk.att] => NobodyStarts
      BY <1>0 DEF ActTyped, Activities, NobodyStarts, Started, StepOf, Rev
    <3> QED
      BY <1>0, <2>0, <3>1, <3>2, GotoQuiet, HelpersQuiet
  <2>5. CASE Prepare(a)
    <3>1. \/ Goto(a, "request")
          \/ Saves(a, "tool_started", "none", "io") \/ Saves(a, "tool_done", "none", "saved")
          \/ act' = [act EXCEPT ![a].pc = "io", ![a].asks = TRUE]
      BY <2>5 DEF Prepare
    <3>2. act' = [act EXCEPT ![a].pc = "io", ![a].asks = TRUE] => NobodyStarts
      BY <1>0 DEF ActTyped, Activities, NobodyStarts, Started, StepOf, Rev
    <3> QED
      BY <1>0, <2>0, <3>1, <3>2, GotoQuiet, HelpersQuiet
  <2>6. CASE Request(a)
    BY <1>0, <2>0, <2>6, HelpersQuiet DEF Request
  <2>7. CASE PrepareOp(a) \/ Record(a)
    <3>1. Goto(a, "prepared") \/ Goto(a, "recorded") \/ Raise(a, "fatal")
      BY <2>7 DEF PrepareOp, Record
    <3> QED
      BY <1>0, <2>0, <3>1, GotoQuiet, HelpersQuiet
  <2>8. CASE RetryModel(a)
    <3>1. act' = [act EXCEPT ![a].pc = "request", ![a].att = act[a].att + 1]
      BY <2>8 DEF RetryModel
    <3> QED
      BY <1>0, <3>1 DEF ActTyped, Activities, NobodyStarts, Started, StepOf, Rev
  <2>9. CASE RaiseFailed(a)
    BY <1>0, <2>9, HelpersQuiet DEF RaiseFailed
  <2>10. CASE Save(a)
    <3>1. Saves(a, "waiting_user", "none", "asking") \/ Saves(a, Done(Kind(a)), "none", "saved")
      BY <2>10 DEF Save
    <3> QED
      BY <1>0, <2>0, <3>1, HelpersQuiet
  <2>11. CASE Suspend(a) \/ Yielded(a)
    BY <1>0, <2>11, HelpersQuiet DEF Suspend, Yielded
  <2>12. ASSUME NEW next \in IOKinds, Yield(a, next) PROVE NobodyStarts
    BY <1>0, <2>0, <2>12, HelpersQuiet DEF Yield
  <2>13. ASSUME NEW st \in {"completed", "failed"}, End(a, st) PROVE NobodyStarts
    BY <1>0, <2>13, HelpersQuiet DEF End
  <2>14. CASE Die(a)
    BY <1>0, <2>0, <2>14, GotoQuiet DEF Die
  <2> QED
    BY <2>1, <2>2, <2>3, <2>4, <2>5, <2>6, <2>7, <2>8, <2>9, <2>10, <2>11, <2>12, <2>13, <2>14 DEF Advance
<1> QED
  BY <1>0, <1>1, <1>2, <1>3, Quiet

\* Only one Activity finds the operation prepared.
LEMMA ClaimOnce ==
  ASSUME StepsInv, OnceInv, NEW a \in Acts, ClaimOp(a)
  PROVE  OnceInv'
<1>0. OpsTyped /\ ActTyped
  BY DEF StepsInv
<1>o. PICK o \in StepIds : o = StepOf(a)
  BY <1>0, StepOfTyped
<1>1. CASE Raise(a, "fatal") /\ ops' = ops
  <2>1. ClaimsStay /\ NobodyStarts
    BY <1>0, <1>1, FencedStay, HelpersQuiet
  <2>2. effects' = effects
    BY DEF ClaimOp
  <2> QED
    BY <1>0, <2>1, <2>2, Quiet
<1>2. CASE ops[o] = "prepared" /\ ops' = [ops EXCEPT ![o] = "running"] /\ Goto(a, "started")
  <2>1. effects' = effects
    BY DEF ClaimOp
  <2>2. effects[o] = 0 /\ \A b \in Acts : Started(b) => StepOf(b) # o
    BY <1>0, <1>o, <1>2 DEF OnceInv, CalledClaimed, StartedFresh, Claimed
  <2>3. /\ Claimed(o)'
        /\ \A i \in StepIds : Claimed(i) => Claimed(i)'
    BY <1>0, <1>o, <1>2 DEF OpsTyped, Claimed
  <2>4. /\ Started(a)' /\ StepOf(a)' = o
        /\ \A b \in Acts : b # a => (Started(b)' <=> Started(b)) /\ StepOf(b)' = StepOf(b)
    BY <1>0, <1>o, <1>2 DEF Goto, EndPcs, ActTyped, Activities, Started, StepOf, Rev
  <2>5. CalledClaimed'
    BY <2>1, <2>3 DEF OnceInv, CalledClaimed
  <2>6. StartedFresh'
    <3> SUFFICES ASSUME NEW b \in Acts, Started(b)' PROVE (effects[StepOf(b)] = 0 /\ Claimed(StepOf(b)))'
      BY DEF StartedFresh
    <3>1. CASE b = a
      BY <2>1, <2>2, <2>3, <2>4, <3>1 DEF Claimed
    <3>2. CASE b # a
      <4>1. Started(b) /\ StepOf(b)' = StepOf(b) /\ StepOf(b) \in StepIds
        BY <1>0, <2>4, <3>2, StepOfTyped
      <4>2. effects[StepOf(b)] = 0 /\ Claimed(StepOf(b))
        BY <4>1 DEF OnceInv, StartedFresh
      <4> QED
        BY <2>1, <2>3, <4>1, <4>2 DEF Claimed
    <3> QED
      BY <3>1, <3>2
  <2>7. StartedAlone'
    <3> SUFFICES ASSUME NEW b \in Acts, NEW c \in Acts, Started(b)', Started(c)', StepOf(b)' = StepOf(c)' PROVE b = c
      BY DEF StartedAlone
    <3> QED
      BY <2>2, <2>4 DEF OnceInv, StartedAlone
  <2> QED
    BY <2>5, <2>6, <2>7 DEF OnceInv
<1> QED
  BY <1>o, <1>1, <1>2 DEF ClaimOp

\* The call is made by the one Activity that claimed it.
LEMMA ExecuteOnce ==
  ASSUME StepsInv, OnceInv, NEW a \in Acts, Execute(a) \/ ExecuteFails(a)
  PROVE  OnceInv'
<1>0. OpsTyped /\ ActTyped /\ EffectsTyped /\ Started(a)
  BY DEF StepsInv, Execute, ExecuteFails, Started
<1>o. PICK o \in StepIds : o = StepOf(a)
  BY <1>0, StepOfTyped
<1>1. effects' \in {effects, [effects EXCEPT ![o] = effects[o] + 1]}
  BY <1>o DEF Execute, ExecuteFails
<1>2. effects[o] = 0 /\ Claimed(o)
  BY <1>0, <1>o DEF OnceInv, StartedFresh
<1>3. ClaimsStay
  BY <1>0 DEF Execute, ExecuteFails, UncertainOp, ClaimsStay, Claimed, OpsTyped
<1>4. \A b \in Acts : Started(b)' => b # a /\ Started(b) /\ StepOf(b)' = StepOf(b)
  BY <1>0 DEF Execute, ExecuteFails, Goto, EndPcs, ActTyped, Activities, Started, StepOf, Rev
<1>5. \A i \in StepIds : effects'[i] = effects[i] \/ (i = o /\ effects'[i] = 1)
  BY <1>0, <1>1, <1>2 DEF EffectsTyped
<1>6. CalledClaimed'
  BY <1>2, <1>3, <1>5 DEF OnceInv, CalledClaimed, ClaimsStay
<1>7. StartedFresh'
  <2> SUFFICES ASSUME NEW b \in Acts, Started(b)' PROVE (effects[StepOf(b)] = 0 /\ Claimed(StepOf(b)))'
    BY DEF StartedFresh
  <2>1. b # a /\ Started(b) /\ StepOf(b)' = StepOf(b) /\ StepOf(b) \in StepIds
    BY <1>0, <1>4, StepOfTyped
  <2>2. StepOf(b) # o
    BY <1>0, <1>o, <2>1 DEF OnceInv, StartedAlone
  <2>3. effects[StepOf(b)] = 0 /\ Claimed(StepOf(b))
    BY <2>1 DEF OnceInv, StartedFresh
  <2> QED
    BY <1>3, <1>5, <2>1, <2>2, <2>3 DEF ClaimsStay, Claimed
<1>8. StartedAlone'
  BY <1>4 DEF OnceInv, StartedAlone
<1> QED
  BY <1>6, <1>7, <1>8 DEF OnceInv

\* The client, the Workflow and the faults make no call.
LEMMA OthersQuiet ==
  ASSUME StepsInv, OnceInv, Client \/ Workflow \/ Cancel \/ DispatchExpired \/ DispatchLost \/ WfGivesUp \/ WfDies
                            \/ (\E r \in Revs : Answer(r))
  PROVE  OnceInv'
<1>0. OpsTyped /\ ActTyped
  BY DEF StepsInv
<1>1. effects' = effects
  BY DEF Client, Submit, DispatchCheck, DispatchStart, DispatchCancel, Reconcile, Signal, Expire, Workflow, WfAdopt,
     WfBootstrap, WfStep, WfResult, WfFails, WfRetries, WfRecover, WfBefore, WfProbe, WfWakes, WfFinalize, WfCanceled,
     Cancel, DispatchExpired, DispatchLost, WfGivesUp, WfDies, Answer, OnlyWf
<1>2. ClaimsStay
  <2>1. ops' \in {ops, FencedOps}
    <3>1. CancelRows \/ FailRows => ops' \in {ops, FencedOps}
      BY DEF CancelRows, FailRows
    <3>2. CASE DispatchCheck \/ Cancel \/ Reconcile \/ WfRecover
      BY <3>1, <3>2 DEF DispatchCheck, Cancel, Reconcile, WfRecover
    <3>3. CASE ~(DispatchCheck \/ Cancel \/ Reconcile \/ WfRecover)
      BY <3>3 DEF Client, Submit, DispatchStart, DispatchCancel, Signal, Expire, Workflow, WfAdopt,
         WfBootstrap, WfStep, WfResult, WfFails, WfRetries, WfBefore, WfProbe, WfWakes, WfFinalize, WfCanceled,
         DispatchExpired, DispatchLost, WfGivesUp, WfDies, Answer, OnlyWf, rows
    <3> QED
      BY <3>2, <3>3
  <2> QED
    BY <1>0, <2>1, FencedStay
<1>3. NobodyStarts
  <2>1. CASE WfStep
    <3>1. act' = act \/ (wf.act + 1 \in Acts /\ act' = [act EXCEPT ![wf.act + 1] = Activity("claim", wf.rev)])
      BY <2>1 DEF WfStep
    <3>2. CASE wf.act + 1 \in Acts /\ act' = [act EXCEPT ![wf.act + 1] = Activity("claim", wf.rev)]
      BY <1>0, <3>2 DEF ActTyped, Activity, NobodyStarts, Started, StepOf, Rev
    <3> QED
      BY <3>1, <3>2, SameQuiet
  <2>2. CASE ~WfStep
    <3>1. act' = act
      BY <2>2 DEF Client, Submit, DispatchCheck, DispatchStart, DispatchCancel, Reconcile, Signal, Expire, Workflow, WfAdopt,
         WfBootstrap, WfResult, WfFails, WfRetries, WfRecover, WfBefore, WfProbe, WfWakes, WfFinalize, WfCanceled,
         Cancel, DispatchExpired, DispatchLost, WfGivesUp, WfDies, Answer, OnlyWf
    <3> QED
      BY <3>1, SameQuiet
  <2> QED
    BY <2>1, <2>2
<1> QED
  BY <1>0, <1>1, <1>2, <1>3, Quiet

\* At first nothing is called and nobody starts.
LEMMA OnceInitial == StepsInit => OnceInv
BY DEF StepsInit, OnceInv, CalledClaimed, StartedFresh, StartedAlone, Started, Activity

\* Every step keeps that a call is made by the one Activity that claimed it.
LEMMA OnceInductive == StepsInv /\ OnceInv /\ [StepsNext]_stepsVars => OnceInv'
<1> SUFFICES ASSUME StepsInv, OnceInv, [StepsNext]_stepsVars PROVE OnceInv'
  OBVIOUS
<1>1. CASE UNCHANGED stepsVars
  BY <1>1 DEF stepsVars, OnceInv, CalledClaimed, StartedFresh, StartedAlone, Claimed, Started, StepOf, Rev
<1>2. CASE StepsNext
  BY <1>2, InvocationQuiet, ClaimOnce, ExecuteOnce, OthersQuiet DEF StepsNext, Faults
<1> QED
  BY <1>1, <1>2

\* However often an Activity is given up, dies or runs on beside its successor, the model, the
\* tool or the evaluator of a logical step is called once (Ledger.claim before every call).
THEOREM CalledOnce == StepsSpec => []OperationOnce
<1>1. OnceInv => OperationOnce
  BY DEF OnceInv, CalledClaimed, OperationOnce
<1> QED
  BY StepsInitial, StepsInductive, OnceInitial, OnceInductive, <1>1, PTL DEF StepsSpec

----------------------------------------------------------------------------
(* Late results are refused *)

\* A submission decided against its Activities has a task nobody can claim.
DecidedAgainst == sub \in {"cancelled", "uncertain"}
TaskFollows == /\ sub = "cancelled" => tk.st = "cancelled"
               /\ sub = "uncertain" => tk.st \in TerminalStates \union {"uncertain"}

OpsRefused == \A o \in StepIds : ops'[o] \in {"running", "completed"} => ops'[o] = ops[o]
Refuses == sub' = sub /\ run' = run /\ OpsRefused /\ (tk' # tk => tk'.st = "cancelled")

\* Fencing makes no row running or completed.
LEMMA FencedRefused ==
  ASSUME OpsTyped, ops' \in {ops, FencedOps}
  PROVE  OpsRefused
BY DEF OpsTyped, OpStates, FencedOps, OpsRefused

\* A decided submission has no scope, and nobody holds its task.
LEMMA NoScope ==
  ASSUME DecidedAgainst, TaskFollows
  PROVE  /\ ~Scoped /\ ~ActiveScope
         /\ \A a \in Acts : ~Holds(a)
         /\ tk.st \in TerminalStates \union {"uncertain"}
BY DEF DecidedAgainst, TaskFollows, Scoped, ActiveScope, Holds, TerminalStates

\* Without the lease, nothing an Activity writes reaches the task.
LEMMA HelpersRefused ==
  ASSUME DecidedAgainst, TaskFollows, NEW a \in Acts
  PROVE  /\ \A ph, nx, pc : Saves(a, ph, nx, pc) => tk' = tk
         /\ \A st, next : Finishes(a, st, next) => tk' = tk
         /\ \A st : Returns(a, st) => tk' = tk
         /\ \A how : Raise(a, how) => tk' = tk
BY NoScope DEF Saves, Finishes, Returns, Raise

\* Nothing of a late Activity is accepted.
LEMMA ActivityRefused ==
  ASSUME StepsInv, DecidedAgainst, TaskFollows, NEW a \in Acts, Advance(a) \/ Die(a)
  PROVE  Refuses
<1>0. OpsTyped
  BY DEF StepsInv
<1>1. sub' = sub
  BY DEF Advance, StepClaim, TakeLease, Stop, Enter, Prepare, Request, PrepareOp, ClaimOp, Execute, ExecuteFails, RetryModel,
     RaiseFailed, Record, Save, Suspend, Yield, Yielded, End, Commit, Die, OnlyAct
<1>2. run' = run
  <2>1. CASE StepClaim(a) \/ Commit(a)
    BY <2>1, NoScope DEF StepClaim, Commit
  <2>2. CASE ~(StepClaim(a) \/ Commit(a))
    BY <2>2 DEF Advance, TakeLease, Stop, Enter, Prepare, Request, PrepareOp, ClaimOp, Execute, ExecuteFails, RetryModel,
       RaiseFailed, Record, Save, Suspend, Yield, Yielded, End, Die, OnlyAct
  <2> QED
    BY <2>1, <2>2
<1>3. OpsRefused
  <2>1. ops' = ops
    BY NoScope DEF Advance, StepClaim, TakeLease, Stop, Enter, Prepare, Request, PrepareOp, ClaimOp, Execute, ExecuteFails,
       UncertainOp, RetryModel, RaiseFailed, Record, Recordable, Save, Suspend, Yield, Yielded, End, Commit, Die
  <2> QED
    BY <1>0, <2>1, FencedRefused
<1>4. tk' = tk
  <2>1. CASE TakeLease(a)
    BY <2>1, NoScope DEF TakeLease
  <2>2. CASE Enter(a)
    <3>1. \/ tk' = tk \/ Saves(a, "evaluation_pending", "none", "io") \/ Saves(a, "step_preparing", Kind(a), "preparing")
      BY <2>2, Zenon DEF Enter
    <3> QED
      BY <3>1, HelpersRefused
  <2>3. CASE StepClaim(a) \/ Commit(a) \/ Execute(a) \/ ExecuteFails(a) \/ RetryModel(a) \/ Die(a)
    BY <2>3 DEF StepClaim, Commit, Execute, ExecuteFails, RetryModel, Die
  <2>4. CASE PrepareOp(a) \/ ClaimOp(a) \/ Record(a) \/ RaiseFailed(a)
    BY <2>4, HelpersRefused DEF PrepareOp, ClaimOp, Record, RaiseFailed
  <2>5. CASE Stop(a) \/ (\E st \in {"completed", "failed"} : End(a, st))
    BY <2>5, HelpersRefused DEF Stop, End
  <2>6. CASE Prepare(a) \/ Request(a) \/ Save(a)
    BY <2>6, HelpersRefused DEF Prepare, Request, Save
  <2>7. CASE Suspend(a) \/ Yielded(a) \/ (\E next \in IOKinds : Yield(a, next))
    BY <2>7, HelpersRefused DEF Suspend, Yielded, Yield
  <2> QED
    BY <2>1, <2>2, <2>3, <2>4, <2>5, <2>6, <2>7 DEF Advance
<1> QED
  BY <1>1, <1>2, <1>3, <1>4 DEF Refuses

\* Nothing of a late Workflow is accepted.
LEMMA WorkflowRefused ==
  ASSUME StepsInv, DecidedAgainst, TaskFollows, Workflow \/ WfGivesUp \/ WfDies
  PROVE  Refuses
<1>0. OpsTyped
  BY DEF StepsInv
<1>1. UNCHANGED <<sub, tk, run, ops>>
  <2>1. CASE WfAdopt
    BY <2>1, NoScope DEF WfAdopt, DecidedAgainst
  <2>2. CASE WfBootstrap
    BY <2>2, NoScope DEF WfBootstrap
  <2>3. CASE WfRecover
    BY <2>3, NoScope DEF WfRecover
  <2>4. CASE WfProbe
    BY <2>4, NoScope, Zenon DEF WfProbe
  <2>5. CASE WfFinalize
    BY <2>5 DEF WfFinalize, DecidedAgainst
  <2>6. CASE WfStep \/ WfResult \/ WfFails \/ WfRetries \/ WfBefore \/ WfWakes \/ WfCanceled \/ WfGivesUp \/ WfDies
    BY <2>6 DEF WfStep, WfResult, WfFails, WfRetries, WfBefore, WfWakes, WfCanceled, WfGivesUp, WfDies, OnlyWf, rows
  <2> QED
    BY <2>1, <2>2, <2>3, <2>4, <2>5, <2>6 DEF Workflow
<1> QED
  BY <1>0, <1>1, FencedRefused DEF Refuses

\* The client's transactions on a decided submission only cancel its task.
LEMMA ClientRefused ==
  ASSUME StepsInv, DecidedAgainst, TaskFollows,
         Client \/ Cancel \/ DispatchExpired \/ DispatchLost \/ (\E r \in Revs : Answer(r))
  PROVE  Refuses
<1>0. OpsTyped /\ run' = run
  BY DEF StepsInv, Client, Submit, DispatchCheck, DispatchStart, DispatchCancel, Reconcile, Signal, Expire, Cancel,
     DispatchExpired, DispatchLost, Answer, rows
<1>1. CASE Cancel
  <2>1. CancelRows
    BY <1>1 DEF Cancel
  <2>2. tk' # tk => tk'.st = "cancelled"
    <3>1. tk \in Tasks
      BY DEF StepsInv, TkTyped
    <3> QED
      BY <2>1, <3>1 DEF CancelRows, Tasks
  <2>3. sub' = sub
    BY <2>1 DEF CancelRows, DecidedAgainst, OpenSub
  <2>4. ops' \in {ops, FencedOps}
    BY <2>1 DEF CancelRows
  <2> QED
    BY <1>0, <2>2, <2>3, <2>4, FencedRefused DEF Refuses
<1>2. CASE ~Cancel
  <2>1. sub' = sub /\ tk' = tk /\ ops' \in {ops, FencedOps}
    BY <1>2 DEF Client, Submit, DispatchCheck, DispatchStart, DispatchCancel, Reconcile, Signal, Expire,
       DispatchExpired, DispatchLost, Answer, rows, DecidedAgainst
  <2> QED
    BY <1>0, <2>1, FencedRefused DEF Refuses
<1> QED
  BY <1>1, <1>2

\* So every step of a decided submission is refused.
LEMMA NextRefused ==
  ASSUME StepsInv, DecidedAgainst, TaskFollows, StepsNext
  PROVE  Refuses
BY ActivityRefused, WorkflowRefused, ClientRefused DEF StepsNext, Faults

\* Nothing is decided yet.
LEMMA FollowsInitial == StepsInit => TaskFollows
BY DEF StepsInit, TaskFollows

\* Every step keeps that the task follows its submission.
LEMMA FollowsInductive == StepsInv /\ TaskFollows /\ [StepsNext]_stepsVars => TaskFollows'
<1> SUFFICES ASSUME StepsInv, TaskFollows, [StepsNext]_stepsVars PROVE TaskFollows'
  OBVIOUS
<1>1. CASE UNCHANGED stepsVars
  BY <1>1 DEF stepsVars, TaskFollows
<1>2. CASE StepsNext /\ DecidedAgainst
  BY <1>2, NextRefused DEF Refuses, TaskFollows, TerminalStates, DecidedAgainst
<1>3. CASE StepsNext /\ ~DecidedAgainst
  <2>0. tk \in Tasks
    BY DEF StepsInv, TkTyped
  <2>1. CASE CancelRows \/ FailRows
    BY <1>3, <2>0, <2>1 DEF CancelRows, FailRows, TaskFollows, DecidedAgainst, Tasks, TerminalStates
  <2>2. CASE ~(CancelRows \/ FailRows)
    <3>1. sub' \notin {"cancelled", "uncertain"}
      <4>1. ASSUME NEW a \in Acts, Advance(a) \/ Die(a) PROVE sub' = sub
        BY <4>1 DEF Advance, StepClaim, TakeLease, Stop, Enter, Prepare, Request, PrepareOp, ClaimOp, Execute, ExecuteFails,
           RetryModel, RaiseFailed, Record, Save, Suspend, Yield, Yielded, End, Commit, Die, OnlyAct
      <4>2. CASE Workflow \/ WfGivesUp \/ WfDies
        BY <1>3, <2>2, <4>2 DEF Workflow, WfAdopt, WfBootstrap, WfStep, WfResult, WfFails, WfRetries, WfRecover, WfBefore, WfProbe,
           WfWakes, WfFinalize, WfCanceled, WfGivesUp, WfDies, OnlyWf, rows, DecidedAgainst
      <4>3. CASE Client \/ Cancel \/ DispatchExpired \/ DispatchLost \/ (\E r \in Revs : Answer(r))
        BY <1>3, <2>2, <4>3 DEF Client, Submit, DispatchCheck, DispatchStart, DispatchCancel, Reconcile, Signal, Expire, Cancel,
           DispatchExpired, DispatchLost, Answer, rows, DecidedAgainst
      <4> QED
        BY <1>3, <4>1, <4>2, <4>3 DEF StepsNext, Faults, DecidedAgainst
    <3> QED
      BY <3>1 DEF TaskFollows
  <2> QED
    BY <2>1, <2>2
<1> QED
  BY <1>1, <1>2, <1>3

\* Once the submission is cancelled or failed over an unknown effect, a late Activity can change
\* neither a cursor nor a result nor the task (Ledger._scope in every transaction).
THEOREM LateRefused == StepsSpec => LateResultsRefused
<1>1. StepsInv /\ TaskFollows /\ [StepsNext]_stepsVars
      => [(sub \in {"cancelled", "uncertain"}) =>
           /\ sub' = sub /\ run' = run
           /\ \A o \in StepIds : ops'[o] \in {"running", "completed"} => ops'[o] = ops[o]
           /\ tk' # tk => tk'.st = "cancelled"]_stepsVars
  BY NextRefused DEF Refuses, OpsRefused, DecidedAgainst
<1> QED
  BY StepsInitial, StepsInductive, FollowsInitial, FollowsInductive, <1>1, PTL DEF StepsSpec, LateResultsRefused
----------------------------------------------------------------------------
(* The contract: who holds the task, and where a tool without a result is *)

Mid == {"preparing", "request", "io", "prepared", "started", "executed", "failed", "recorded", "saved", "asking", "yielding"}
Lost == {"failed", "cancelled", "uncertain"}
Unrecovered == {"tool_started", "step_preparing"}
Live(r) == run[r].st \in {"ready", "running"}

\* The cursor chain: revisions are opened one after the other, and what a revision owns
\* exists only once it is open; the Workflow schedules its Activities in order.
Chained == \A q, r \in Revs : q < r /\ run[r].st # "none" => run[q].st = "completed"
Unopened == \A r \in Revs : run[r].st = "none" => /\ run[r].kind = "model" /\ ans[r].st = "none"
                                                  /\ \A k \in 1..MaxAttempts : ops[<<r, k>>] = "none"
Scheduled == /\ \A a \in Acts : a > wf.act => act[a].pc = "unused"
             /\ \A r \in Revs : run[r].fence <= wf.act
ChainInv == Chained /\ Unopened /\ Scheduled

\* The Activity of the open cursor holds the task from the moment it enters its turn, unless
\* the task was decided without it; nobody else gets past the entry of a turn.
CurrentHolds(a) == Current(a) /\ act[a].pc \in Mid \union {"run"} => Holds(a) \/ tk.st \in TerminalStates \union {"uncertain"}
HolderCurrent(a) == Holds(a) /\ act[a].pc \in Mid => Current(a)
\* The phase of a tool step says that it may have been started.
ToolPhase(a) ==
  /\ Holds(a) /\ act[a].pc = "preparing" => tk.ph = "step_preparing"
  /\ Holds(a) /\ act[a].pc \in {"io", "prepared"} /\ Kind(a) = "tool" => tk.ph \in Unrecovered
  /\ Current(a) /\ act[a].pc = "request" => Kind(a) # "tool"
HolderInv == /\ \A a \in Acts : CurrentHolds(a) /\ HolderCurrent(a) /\ ToolPhase(a)
             /\ \A r \in Revs : Live(r) /\ run[r].kind = "tool" => tk.ph # "model_pending"

\* A tool that may have run and has no result: the task is decided otherwise, or waits, in a
\* phase the recovery refuses, on the Activity that called it.
Loose(o) == run[o[1]].kind = "tool" /\ ops[o] \in {"running", "uncertain"}
Owned(o) == LET b == run[o[1]].fence IN
  /\ tk.st \in {"pending", "running"} /\ tk.ph \in Unrecovered /\ run[o[1]].st = "running"
  /\ b \in Acts /\ act[b].pc \in {"started", "executed", "failed"} \union EndPcs
  /\ act[b].pc \notin EndPcs => StepOf(b) = o
LooseInv == \A o \in StepIds : Loose(o) => tk.st \in Lost \/ Owned(o)

\* What is recorded was called.
ExecutedCalled == \A a \in Acts : act[a].pc = "executed" => effects[StepOf(a)] > 0

\* Before its admission nothing of a submission exists.
Unsubmitted == sub = "none" => /\ tk.st = "none" /\ wf.st = "none" /\ disp = "idle"
                               /\ \A a \in Acts : act[a].pc = "unused"

ContractInv == ChainInv /\ Unsubmitted /\ HolderInv /\ LooseInv /\ ExecutedCalled


----------------------------------------------------------------------------
(* What an Activity's steps do to the task and to its own place *)

\* Only this Activity moves; the cursor chain stays.
Alone(a) == run' = run /\ \A b \in Acts \ {a} : act'[b] = act[b]

\* It goes on in its turn, at a place, with the step it works on.
GoesTo(a, pc) == act'[a].pc = pc /\ act'[a].rev = act[a].rev /\ act'[a].att = act[a].att

\* It leaves its turn: what it held is put back or decided, what it did not hold stays.
InCall == {"started", "executed", "failed"}
LeavesTurn(a) ==
  /\ act'[a].pc \in EndPcs \union {"commit"}
  /\ \/ ~Holds(a) /\ tk' = tk /\ (act'[a].pc = "commit" => tk.st = "cancelled")
     \/ /\ Holds(a) /\ tk'.lease = NoAct /\ tk'.ph = tk.ph /\ tk'.st # "running"
        /\ tk'.st \in Lost \/ (tk'.st = "pending" /\ act'[a].pc \in EndPcs) \/ act[a].pc \in Mid \ InCall

\* Goto changes the place of one Activity.
LEMMA GotoFrame ==
  ASSUME ActTyped, NEW a \in Acts, NEW pc \in ActPcs, Goto(a, pc)
  PROVE  /\ \A b \in Acts \ {a} : act'[b] = act[b]
         /\ act'[a].pc = pc
         /\ pc \notin EndPcs => GoesTo(a, pc)
BY DEF Goto, ActTyped, Activities, Activity, GoesTo

\* An Activity that is about to commit keeps its step.
LEMMA CommitFrame ==
  ASSUME ActTyped, NEW a \in Acts, NEW kind, CommitNext(a, kind)
  PROVE  (\A b \in Acts \ {a} : act'[b] = act[b]) /\ GoesTo(a, "commit")
BY DEF CommitNext, ActTyped, Activities, GoesTo

\* A save is made by the holder of the task, or ends the Activity (TaskStore.checkpoint).
LEMMA SavesFrame ==
  ASSUME ActTyped, TkTyped, NEW a \in Acts, NEW ph, NEW nx, NEW pc \in ActPcs \ EndPcs, Saves(a, ph, nx, pc)
  PROVE  /\ \A b \in Acts \ {a} : act'[b] = act[b]
         /\ \/ /\ Holds(a) /\ tk'.st = "running" /\ tk'.lease = a /\ tk'.ph = ph
               /\ GoesTo(a, pc)
            \/ ~Holds(a) /\ tk' = tk /\ act'[a].pc = "busy"
<1>1. "busy" \in ActPcs
  BY DEF ActPcs
<1>2. CASE Holds(a)
  <2>1. tk' = [tk EXCEPT !.ph = ph, !.nx = nx, !.att = act[a].att] /\ Goto(a, pc)
    BY <1>2 DEF Saves
  <2>2. PICK t1 : t1 = [tk EXCEPT !.ph = ph]
    OBVIOUS
  <2>3. PICK t2 : t2 = [t1 EXCEPT !.nx = nx]
    OBVIOUS
  <2>4. tk' = [t2 EXCEPT !.att = act[a].att]
    BY <2>1, <2>2, <2>3
  <2>5. t1.st = tk.st /\ t1.lease = tk.lease /\ t1.ph = ph
    BY <2>2 DEF TkTyped, Tasks
  <2>6. t2.st = tk.st /\ t2.lease = tk.lease /\ t2.ph = ph
    BY <2>2, <2>3, <2>5 DEF TkTyped, Tasks
  <2>7. tk'.st = tk.st /\ tk'.lease = tk.lease /\ tk'.ph = ph
    BY <2>1 DEF TkTyped, Tasks
  <2> QED
    BY <2>1, <2>7, <1>2, GotoFrame DEF Holds
<1>3. CASE ~Holds(a)
  <2>1. tk' = tk /\ Goto(a, "busy")
    BY <1>3 DEF Saves
  <2> QED
    BY <2>1, <1>1, <1>3, GotoFrame
<1> QED
  BY <1>2, <1>3

\* finish by the holder, or TaskBusy; the end it writes is a lost one, or the Activity was
\* not at its call.
LEMMA FinishesFrame ==
  ASSUME ActTyped, TkTyped, NEW a \in Acts, NEW st, NEW next, Finishes(a, st, next), st # "running",
         st \in Lost \/ act[a].pc \in Mid \ InCall
  PROVE  LeavesTurn(a) /\ \A b \in Acts \ {a} : act'[b] = act[b]
<1>1. "busy" \in ActPcs /\ "busy" \in EndPcs
  BY DEF ActPcs, EndPcs
<1>2. CASE Holds(a)
  <2>1. tk' = [tk EXCEPT !.st = st, !.lease = NoAct] /\ CommitNext(a, next)
    BY <1>2 DEF Finishes
  <2>2. tk'.st = st /\ tk'.lease = NoAct /\ tk'.ph = tk.ph
    BY <2>1 DEF TkTyped, Tasks
  <2>3. (\A b \in Acts \ {a} : act'[b] = act[b]) /\ GoesTo(a, "commit")
    BY <2>1, CommitFrame
  <2> QED
    BY <1>2, <2>2, <2>3 DEF LeavesTurn, GoesTo
<1>3. CASE ~Holds(a)
  <2>1. tk' = tk /\ Goto(a, "busy")
    BY <1>3 DEF Finishes
  <2>2. (\A b \in Acts \ {a} : act'[b] = act[b]) /\ act'[a].pc = "busy"
    BY <2>1, <1>1, GotoFrame
  <2> QED
    BY <1>1, <1>3, <2>1, <2>2 DEF LeavesTurn
<1> QED
  BY <1>2, <1>3

\* A reply that is returned, also to a task that was cancelled meanwhile.
LEMMA ReturnsFrame ==
  ASSUME ActTyped, TkTyped, NEW a \in Acts, NEW st, Returns(a, st), st # "running",
         st \in Lost \/ act[a].pc \in Mid \ InCall
  PROVE  LeavesTurn(a) /\ \A b \in Acts \ {a} : act'[b] = act[b]
<1>1. CASE tk.st = "cancelled"
  <2>1. tk' = tk /\ CommitNext(a, "finalize")
    BY <1>1 DEF Returns
  <2>2. (\A b \in Acts \ {a} : act'[b] = act[b]) /\ GoesTo(a, "commit")
    BY <2>1, CommitFrame
  <2>3. ~Holds(a)
    BY <1>1 DEF Holds
  <2> QED
    BY <1>1, <2>1, <2>2, <2>3 DEF LeavesTurn, GoesTo
<1>2. CASE tk.st # "cancelled"
  BY <1>2, FinishesFrame DEF Returns
<1> QED
  BY <1>1, <1>2

\* An exception puts the task back, unless a tool was started.
LEMMA RaiseFrame ==
  ASSUME ActTyped, TkTyped, NEW a \in Acts, NEW how \in {"busy", "fatal"}, Raise(a, how)
  PROVE  LeavesTurn(a) /\ (\A b \in Acts \ {a} : act'[b] = act[b]) /\ act'[a].pc \in EndPcs
<1>1. {"busy", "fatal"} \subseteq ActPcs /\ {"busy", "fatal"} \subseteq EndPcs
  BY DEF ActPcs, EndPcs
<1>2. PICK pc \in {"busy", "fatal"} : Goto(a, pc)
  BY DEF Raise
<1>3. (\A b \in Acts \ {a} : act'[b] = act[b]) /\ act'[a].pc = pc
  BY <1>1, <1>2, GotoFrame
<1>4. CASE Holds(a)
  <2>1. PICK st \in {"uncertain", "pending"} : tk' = [tk EXCEPT !.st = st, !.lease = NoAct]
    BY <1>4 DEF Raise
  <2>2. tk'.st = st /\ tk'.lease = NoAct /\ tk'.ph = tk.ph
    BY <2>1 DEF TkTyped, Tasks
  <2> QED
    BY <1>1, <1>3, <1>4, <2>2 DEF LeavesTurn, Lost, EndPcs
<1>5. CASE ~Holds(a)
  <2>1. tk' = tk
    BY <1>5 DEF Raise
  <2> QED
    BY <1>1, <1>3, <1>5, <2>1 DEF LeavesTurn, EndPcs
<1> QED
  BY <1>4, <1>5

----------------------------------------------------------------------------
(* The cursor chain *)

\* Of an open revision every later one is still unopened, so only one is open.
LEMMA OneOpen ==
  ASSUME RunTyped, Chained, NEW r \in Revs, run[r].st # "completed", NEW q \in Revs, q # r
  PROVE  /\ q > r => run[q].st = "none"
         /\ run[r].st # "none" /\ q < r => run[q].st = "completed"
         /\ run[r].st # "none" => ~Live(q)
BY Numbers DEF Chained, Revs, Live

\* What keeps the chain: the rows of the cursors stay, and what was not there is not opened
\* for a revision that is not open.
LEMMA ChainStays ==
  ASSUME ChainInv, run' = run, wf'.act = wf.act,
         \A r \in Revs : run[r].st = "none" => ans'[r].st = ans[r].st,
         \A o \in StepIds : run[o[1]].st = "none" /\ ops[o] = "none" => ops'[o] = "none",
         \A a \in Acts : act[a].pc = "unused" => act'[a].pc = "unused"
  PROVE  ChainInv'
<1>1. Unopened'
  <2> SUFFICES ASSUME NEW r \in Revs, run[r].st = "none"
               PROVE  run[r].kind = "model" /\ ans'[r].st = "none" /\ \A k \in 1..MaxAttempts : ops'[<<r, k>>] = "none"
    BY DEF Unopened
  <2>1. \A k \in 1..MaxAttempts : <<r, k>> \in StepIds /\ <<r, k>>[1] = r
    BY DEF StepIds
  <2> QED
    BY <2>1 DEF ChainInv, Unopened
<1>2. Chained' /\ Scheduled'
  BY DEF ChainInv, Chained, Scheduled
<1> QED
  BY <1>1, <1>2 DEF ChainInv

\* Chain completes an open revision and opens the next one.
LEMMA ChainRow ==
  ASSUME RunTyped, Chained, NEW r \in Revs, r < StepLimit, NEW kind \in StepKinds, Chain(r, kind),
         run[r].st \notin {"none", "completed"}
  PROVE  /\ r + 1 \in Revs /\ run[r + 1].st = "none"
         /\ run'[r].st = "completed" /\ run'[r].kind = run[r].kind /\ run'[r].fence = run[r].fence
         /\ run'[r + 1].st = "ready" /\ run'[r + 1].kind = kind /\ run'[r + 1].fence = NoAct
         /\ \A q \in Revs \ {r, r + 1} : run'[q] = run[q]
         /\ \A q \in Revs : run'[q].st # "running"
<1>1. r + 1 \in Revs /\ r + 1 # r /\ r + 1 > r
  BY Numbers DEF Revs
<1>2. run[r + 1].st = "none"
  BY <1>1, OneOpen
<1>3. PICK rows1 : rows1 = [run EXCEPT ![r].st = "completed"]
  OBVIOUS
<1>4. run' = [rows1 EXCEPT ![r + 1] = [st |-> "ready", kind |-> kind, fence |-> NoAct]]
  BY <1>3 DEF Chain
<1>5. /\ rows1[r].st = "completed" /\ rows1[r].kind = run[r].kind /\ rows1[r].fence = run[r].fence
      /\ \A q \in Revs \ {r} : rows1[q] = run[q]
      /\ rows1 = [q \in Revs |-> rows1[q]]
  BY <1>3 DEF RunTyped, Runs
<1>6. /\ run'[r + 1] = [st |-> "ready", kind |-> kind, fence |-> NoAct]
      /\ \A q \in Revs \ {r + 1} : run'[q] = rows1[q]
  BY <1>1, <1>4, <1>5
<1>7. \A q \in Revs \ {r} : run[q].st # "running"
  BY OneOpen DEF Live
<1> QED
  BY <1>1, <1>2, <1>5, <1>6, <1>7

\* A revision that is chained, with the question it may open, keeps the chain in order.
LEMMA ChainOpens ==
  ASSUME StepsInv, ChainInv, NEW r \in Revs, r < StepLimit, NEW kind \in StepKinds, Chain(r, kind),
         run[r].st \notin {"none", "completed"}, wf'.act = wf.act, ops' = ops,
         \A q \in Revs \ {r, r + 1} : ans'[q] = ans[q],
         \A a \in Acts : act[a].pc = "unused" => act'[a].pc = "unused"
  PROVE  ChainInv'
<1>0. RunTyped /\ Chained /\ Unopened /\ Scheduled /\ WfTyped
  BY DEF StepsInv, ChainInv
<1>1. /\ r + 1 \in Revs /\ run[r + 1].st = "none"
      /\ run'[r].st = "completed" /\ run'[r].kind = run[r].kind /\ run'[r].fence = run[r].fence
      /\ run'[r + 1].st = "ready" /\ run'[r + 1].kind = kind /\ run'[r + 1].fence = NoAct
      /\ \A q \in Revs \ {r, r + 1} : run'[q] = run[q]
  BY <1>0, ChainRow
<1>2. Chained'
  <2> SUFFICES ASSUME NEW p \in Revs, NEW q \in Revs, p < q, run'[q].st # "none"
               PROVE  run'[p].st = "completed"
    BY DEF Chained
  <2>1. CASE q = r \/ q = r + 1
    BY <2>1, <1>0, <1>1, OneOpen, Numbers DEF Revs
  <2>2. CASE q # r /\ q # r + 1
    <3>1. run[q].st # "none"
      BY <2>2, <1>1
    <3>2. q < r
      BY <3>1, <2>2, <1>0, OneOpen, Numbers DEF Revs
    <3>3. run[p].st = "completed" /\ p # r /\ p # r + 1
      BY <3>1, <3>2, <1>0, Numbers DEF Chained, Revs
    <3> QED
      BY <3>3, <1>1
  <2> QED
    BY <2>1, <2>2
<1>3. Unopened'
  <2> SUFFICES ASSUME NEW q \in Revs, run'[q].st = "none"
               PROVE  run'[q].kind = "model" /\ ans'[q].st = "none" /\ \A k \in 1..MaxAttempts : ops'[<<q, k>>] = "none"
    BY DEF Unopened
  <2>1. q # r /\ q # r + 1
    BY <1>1
  <2> QED
    BY <2>1, <1>0, <1>1 DEF Unopened
<1>4. Scheduled'
  <2>1. NoAct <= wf.act
    BY <1>0 DEF WfTyped, Workflows, Acts, NoAct
  <2>2. \A q \in Revs : run'[q].fence <= wf'.act
    BY <2>1, <1>0, <1>1 DEF Scheduled
  <2> QED
    BY <2>2, <1>0 DEF Scheduled
<1> QED
  BY <1>2, <1>3, <1>4 DEF ChainInv

\* What a step of an Activity other than its claim and its commit leaves alone.
Invoked(a) == \/ TakeLease(a) \/ Stop(a) \/ Enter(a) \/ Prepare(a) \/ Request(a) \/ PrepareOp(a) \/ ClaimOp(a)
              \/ Execute(a) \/ ExecuteFails(a) \/ RetryModel(a) \/ RaiseFailed(a) \/ Record(a) \/ Save(a) \/ Suspend(a)
              \/ (\E next \in IOKinds : Yield(a, next)) \/ Yielded(a) \/ (\E st \in {"completed", "failed"} : End(a, st)) \/ Die(a)

\* An Activity moves nobody else's place, and none that has ended.
LEMMA InvokedMoves ==
  ASSUME ActTyped, NEW a \in Acts, Invoked(a) \/ StepClaim(a) \/ Commit(a)
  PROVE  act[a].pc \notin EndPcs \union {"unused"} /\ \A b \in Acts \ {a} : act'[b] = act[b]
<1>0. EndPcs \subseteq ActPcs
  BY DEF EndPcs, ActPcs
<1>1. ASSUME NEW pc, Goto(a, pc) PROVE \A b \in Acts \ {a} : act'[b] = act[b]
  BY <1>1 DEF Goto, ActTyped
<1>2. ASSUME NEW kind, CommitNext(a, kind) PROVE \A b \in Acts \ {a} : act'[b] = act[b]
  BY <1>2 DEF CommitNext, ActTyped
<1>3. ASSUME NEW ph, NEW nx, NEW pc, Saves(a, ph, nx, pc) PROVE \A b \in Acts \ {a} : act'[b] = act[b]
  BY <1>3, <1>1 DEF Saves
<1>4. ASSUME NEW st, NEW next, Finishes(a, st, next) PROVE \A b \in Acts \ {a} : act'[b] = act[b]
  BY <1>4, <1>1, <1>2 DEF Finishes
<1>5. ASSUME NEW st, Returns(a, st) PROVE \A b \in Acts \ {a} : act'[b] = act[b]
  BY <1>5, <1>2, <1>4 DEF Returns
<1>6. ASSUME NEW how, Raise(a, how) PROVE \A b \in Acts \ {a} : act'[b] = act[b]
  BY <1>6, <1>1 DEF Raise
<1>7. CASE TakeLease(a) \/ StepClaim(a) \/ Commit(a)
  BY <1>7, <1>1, <1>2 DEF TakeLease, StepClaim, Commit, EndPcs
<1>8. CASE Enter(a)
  BY <1>8, <1>1, <1>3 DEF Enter, EndPcs, ActTyped
<1>9. CASE Prepare(a)
  BY <1>9, <1>1, <1>3 DEF Prepare, EndPcs, ActTyped
<1>10. CASE Request(a) \/ Save(a) \/ (\E next \in IOKinds : Yield(a, next))
  BY <1>10, <1>3 DEF Request, Save, Yield, EndPcs
<1>11. CASE Stop(a) \/ (\E st \in {"completed", "failed"} : End(a, st))
  BY <1>11, <1>5 DEF Stop, End, EndPcs
<1>12. CASE PrepareOp(a) \/ ClaimOp(a) \/ Record(a)
  BY <1>12, <1>1, <1>6 DEF PrepareOp, ClaimOp, Record, EndPcs
<1>13. CASE RaiseFailed(a)
  BY <1>13, <1>6 DEF RaiseFailed, EndPcs
<1>14. CASE Execute(a) \/ ExecuteFails(a) \/ Die(a)
  BY <1>14, <1>1 DEF Execute, ExecuteFails, Die, EndPcs
<1>15. CASE RetryModel(a)
  BY <1>15 DEF RetryModel, EndPcs, ActTyped
<1>16. CASE Suspend(a) \/ Yielded(a)
  BY <1>16, <1>4 DEF Suspend, Yielded, EndPcs
<1> QED
  BY <1>7, <1>8, <1>9, <1>10, <1>11, <1>12, <1>13, <1>14, <1>15, <1>16 DEF Invoked

\* Nor does it change a cursor, a wait or the Workflow; a ledger row is made by the current
\* Activity of an open cursor (Ledger.prepare).
LEMMA InvokedRows ==
  ASSUME OpsTyped, NEW a \in Acts, Invoked(a)
  PROVE  /\ run' = run /\ ans' = ans /\ wf' = wf /\ sub' = sub
         /\ \A o \in StepIds : run[o[1]].st = "none" /\ ops[o] = "none" => ops'[o] = "none"
<1>1. OnlyAct
  BY DEF Invoked, TakeLease, Stop, Enter, Prepare, Request, PrepareOp, ClaimOp, Execute, ExecuteFails, RetryModel, RaiseFailed,
     Record, Save, Suspend, Yield, Yielded, End, Die
<1>2. CASE PrepareOp(a)
  <2>1. ops' = ops \/ (Current(a) /\ ops' = [ops EXCEPT ![StepOf(a)] = "prepared"])
    BY <1>2 DEF PrepareOp, MustStop
  <2> QED
    BY <2>1, <1>1 DEF OpsTyped, Current, StepOf, OnlyAct
<1>3. CASE ClaimOp(a)
  <2>1. ops' = ops \/ (ops[StepOf(a)] = "prepared" /\ ops' = [ops EXCEPT ![StepOf(a)] = "running"])
    BY <1>3 DEF ClaimOp
  <2> QED
    BY <2>1, <1>1 DEF OpsTyped, OnlyAct
<1>4. CASE Record(a) \/ ExecuteFails(a)
  <2>1. ops' = ops \/ (ops[StepOf(a)] = "running" /\ \E st \in OpStates : ops' = [ops EXCEPT ![StepOf(a)] = st])
    BY <1>4 DEF Record, Recordable, ExecuteFails, UncertainOp, OpStates
  <2> QED
    BY <2>1, <1>1 DEF OpsTyped, OnlyAct
<1>5. CASE UNCHANGED ops
  BY <1>5, <1>1 DEF OnlyAct
<1> QED
  BY <1>2, <1>3, <1>4, <1>5 DEF Invoked, TakeLease, Stop, Enter, Prepare, Request, Execute, RetryModel, RaiseFailed,
     Save, Suspend, Yield, Yielded, End, Die

\* A claim makes a ready cursor running, and its Activity was scheduled (step_claim).
LEMMA ClaimRow ==
  ASSUME StepsInv, NEW a \in Acts, StepClaim(a), run' # run
  PROVE  /\ run[Rev(a)].st = "ready" /\ run'[Rev(a)].st = "running" /\ run'[Rev(a)].fence = a
         /\ run'[Rev(a)].kind = run[Rev(a)].kind
         /\ \A q \in Revs \ {Rev(a)} : run'[q] = run[q]
         /\ Rev(a) \in Revs /\ GoesTo(a, "lease")
<1>0. RunTyped /\ ActTyped /\ Rev(a) \in Revs /\ run[Rev(a)] \in Runs
  BY KindTyped DEF StepsInv, RunTyped
<1>1. /\ run[Rev(a)].st = "ready" /\ Goto(a, "lease")
      /\ run' = [run EXCEPT ![Rev(a)].st = "running", ![Rev(a)].fence = a]
  BY DEF StepClaim
<1>2. PICK r1 : r1 = [run EXCEPT ![Rev(a)].st = "running"]
  OBVIOUS
<1>3. run' = [r1 EXCEPT ![Rev(a)].fence = a]
  BY <1>1, <1>2
<1>4. /\ r1 = [q \in Revs |-> r1[q]] /\ \A q \in Revs \ {Rev(a)} : r1[q] = run[q]
      /\ r1[Rev(a)] \in Runs /\ r1[Rev(a)].st = "running" /\ r1[Rev(a)].kind = run[Rev(a)].kind
  BY <1>0, <1>2 DEF RunTyped, Runs
<1>5. "lease" \in ActPcs \ EndPcs
  BY DEF ActPcs, EndPcs
<1> QED
  BY <1>0, <1>1, <1>3, <1>4, <1>5, GotoFrame DEF Runs

\* A fence rejects what was prepared and doubts what runs; it opens nothing.
LEMMA FencedRows ==
  ASSUME OpsTyped, ops' \in {ops, FencedOps}
  PROVE  \A o \in StepIds : /\ ops[o] = "none" <=> ops'[o] = "none"
                            /\ ops[o] = "completed" <=> ops'[o] = "completed"
                            /\ ops[o] \in {"running", "uncertain"} <=> ops'[o] \in {"running", "uncertain"}
BY DEF OpsTyped, OpStates, FencedOps

\* The recovery of a Workflow, by what it does to the cursor (StepStore.recover).
RecoverCase ==
  \/ run' = run /\ ans' = ans /\ tk' = tk /\ ops' = ops /\ sub' = sub
  \/ run' = run /\ ans' = ans /\ FailRows
  \/ /\ Scoped /\ run[wf.rev].st = "running" /\ PutBack /\ ops' = ops /\ sub' = sub
     /\ "again" \in Recovery(wf.rev)
     /\ run' = [run EXCEPT ![wf.rev].st = "ready", ![wf.rev].fence = NoAct] /\ ans' = ans
  \/ /\ Scoped /\ run[wf.rev].st = "running" /\ PutBack /\ ops' = ops /\ sub' = sub
     /\ wf.rev < StepLimit
     /\ \E kind \in Recovery(wf.rev) \ {"again"} : Chain(wf.rev, kind) /\ OpenWait(wf.rev, kind)

\* The recovery closes or moves the Workflow and ends in one of four ways.
LEMMA RecoverCases ==
  ASSUME StepsInv, WfRecover
  PROVE  RecoverCase /\ wf.rev \in Revs /\ wf'.act = wf.act /\ act' = act /\ effects' = effects
<1>0. wf \in Workflows
  BY DEF StepsInv, WfTyped
<1>1. act' = act /\ effects' = effects /\ wf.rev \in Revs
  BY <1>0 DEF WfRecover, Workflows
<1>2. wf'.act = wf.act
  BY <1>0 DEF WfRecover, Closes, Answers, Workflows
<1>3. \/ UNCHANGED <<sub, tk, run, ops, ans>>
      \/ FailRows /\ UNCHANGED <<run, ans>>
      \/ /\ Scoped /\ run[wf.rev].st = "running" /\ "again" \in Recovery(wf.rev)
         /\ PutBack /\ run' = [run EXCEPT ![wf.rev].st = "ready", ![wf.rev].fence = NoAct]
         /\ UNCHANGED <<sub, ops, ans>>
      \/ /\ Scoped /\ run[wf.rev].st = "running" /\ wf.rev < StepLimit
         /\ \E kind \in Recovery(wf.rev) \ {"again"} : PutBack /\ Chain(wf.rev, kind) /\ OpenWait(wf.rev, kind) /\ UNCHANGED <<sub, ops>>
  BY DEF WfRecover
<1> QED
  BY <1>1, <1>2, <1>3 DEF RecoverCase

\* The recovery commits a kind of step.
LEMMA RecoveryTyped ==
  ASSUME TkTyped, NEW r, NEW kind \in Recovery(r) \ {"again"}
  PROVE  kind \in StepKinds
<1>1. kind \in {"finalize", "human", "again"} \/ kind \in NextKinds(tk.ph)
  BY DEF Recovery, PhaseRecovery
<1> QED
  BY <1>1, NextKindsTyped DEF StepKinds

\* A cursor that is put back is open again, and only it changes.
LEMMA PutBackRow ==
  ASSUME RunTyped, NEW r \in Revs, run' = [run EXCEPT ![r].st = "ready", ![r].fence = NoAct]
  PROVE  /\ run'[r].st = "ready" /\ run'[r].kind = run[r].kind /\ run'[r].fence = NoAct
         /\ \A q \in Revs \ {r} : run'[q] = run[q]
<1>1. PICK r1 : r1 = [run EXCEPT ![r].st = "ready"]
  OBVIOUS
<1>2. run' = [r1 EXCEPT ![r].fence = NoAct]
  BY <1>1
<1>3. /\ r1 = [q \in Revs |-> r1[q]] /\ \A q \in Revs \ {r} : r1[q] = run[q]
      /\ r1[r] \in Runs /\ r1[r].st = "ready" /\ r1[r].kind = run[r].kind
  BY <1>1 DEF RunTyped, Runs
<1> QED
  BY <1>2, <1>3 DEF Runs

\* A cursor whose state changes between ready and running, or the first one that is created.
LEMMA ChainReopens ==
  ASSUME StepsInv, ChainInv, NEW r \in Revs, run[r].st # "completed", run'[r].st \in {"ready", "running"},
         run[r].st # "none" \/ r = 0,
         run'[r].fence <= wf'.act, \A q \in Revs \ {r} : run'[q] = run[q],
         ans' = ans, ops' = ops, wf'.act = wf.act,
         \A a \in Acts : act[a].pc = "unused" => act'[a].pc = "unused"
  PROVE  ChainInv'
<1>0. Chained /\ Unopened /\ Scheduled
  BY DEF ChainInv
<1>1. Chained'
  BY <1>0, Numbers DEF Chained, Revs
<1>2. Unopened'
  BY <1>0 DEF Unopened
<1>3. Scheduled'
  BY <1>0 DEF Scheduled
<1> QED
  BY <1>1, <1>2, <1>3 DEF ChainInv

\* The recovery keeps the chain.
LEMMA RecoverChain ==
  ASSUME StepsInv, ChainInv, WfRecover
  PROVE  ChainInv'
<1>0. RecoverCase /\ wf.rev \in Revs /\ wf'.act = wf.act /\ act' = act
  BY RecoverCases
<1>1. RunTyped /\ OpsTyped /\ TkTyped /\ WfTyped /\ AnsTyped
  BY DEF StepsInv
<1>2. CASE run' = run /\ ans' = ans /\ ((tk' = tk /\ ops' = ops /\ sub' = sub) \/ FailRows)
  <2>1. ops' \in {ops, FencedOps}
    BY <1>2 DEF FailRows
  <2> QED
    BY <1>0, <1>1, <1>2, <2>1, FencedRows, ChainStays
<1>3. CASE /\ run[wf.rev].st = "running" /\ ops' = ops /\ ans' = ans
           /\ run' = [run EXCEPT ![wf.rev].st = "ready", ![wf.rev].fence = NoAct]
  <2>1. NoAct <= wf.act
    BY <1>1 DEF WfTyped, Workflows, Acts, NoAct
  <2> QED
    BY <1>0, <1>1, <1>3, <2>1, PutBackRow, ChainReopens
<1>4. CASE /\ Scoped /\ run[wf.rev].st = "running" /\ ops' = ops /\ wf.rev < StepLimit
           /\ \E kind \in Recovery(wf.rev) \ {"again"} : Chain(wf.rev, kind) /\ OpenWait(wf.rev, kind)
  <2>1. PICK kind \in Recovery(wf.rev) \ {"again"} : Chain(wf.rev, kind) /\ OpenWait(wf.rev, kind)
    BY <1>4
  <2>2. kind \in StepKinds
    BY <1>1, RecoveryTyped
  <2>3. \A q \in Revs \ {wf.rev, wf.rev + 1} : ans'[q] = ans[q]
    BY <2>1, <1>1 DEF OpenWait, AnsTyped
  <2> QED
    BY <1>0, <1>4, <2>1, <2>2, <2>3, ChainOpens
<1> QED
  BY <1>0, <1>2, <1>3, <1>4 DEF RecoverCase

\* The probe of a question keeps the chain: only a question that was opened is answered.
LEMMA ProbeChain ==
  ASSUME StepsInv, ChainInv, WfProbe
  PROVE  ChainInv'
<1>0. RunTyped /\ OpsTyped /\ TkTyped /\ WfTyped /\ AnsTyped
  BY DEF StepsInv
<1>1. act' = act /\ ops' = ops /\ wf.rev \in Revs /\ wf'.act = wf.act
  <2>1. act' = act /\ ops' = ops
    BY DEF WfProbe
  <2>2. wf'.act = wf.act
    BY <1>0 DEF WfProbe, Answers, Closes, WfTyped, Workflows
  <2> QED
    BY <2>1, <2>2, <1>0 DEF WfTyped, Workflows
<1>2. \/ run' = run /\ ans' = ans
      \/ /\ tk.st = "suspended" /\ run[wf.rev].st # "completed" /\ wf.rev < StepLimit
         /\ ans[wf.rev].st \in {"waiting", "answered"}
         /\ \E kind \in StepKinds : Chain(wf.rev, kind)
         /\ \E st \in {"expired", "consumed"} : ans' = [ans EXCEPT ![wf.rev].st = st]
  BY DEF WfProbe, StepKinds, IOKinds
<1>3. CASE run' = run /\ ans' = ans
  BY <1>0, <1>1, <1>3, ChainStays
<1>4. CASE /\ run[wf.rev].st # "completed" /\ wf.rev < StepLimit
           /\ ans[wf.rev].st \in {"waiting", "answered"}
           /\ \E kind \in StepKinds : Chain(wf.rev, kind)
           /\ \E st \in {"expired", "consumed"} : ans' = [ans EXCEPT ![wf.rev].st = st]
  <2>1. run[wf.rev].st # "none"
    BY <1>1, <1>4 DEF ChainInv, Unopened
  <2>2. \A q \in Revs \ {wf.rev, wf.rev + 1} : ans'[q] = ans[q]
    BY <1>0, <1>4 DEF AnsTyped
  <2> QED
    BY <1>1, <1>4, <2>1, <2>2, ChainOpens
<1> QED
  BY <1>2, <1>3, <1>4

\* The bootstrap opens the first cursor, once.
LEMMA BootstrapChain ==
  ASSUME StepsInv, ChainInv, WfBootstrap
  PROVE  ChainInv'
<1>0. RunTyped /\ WfTyped
  BY DEF StepsInv
<1>1. ans' = ans /\ ops' = ops /\ act' = act
  BY DEF WfBootstrap
<1>2. wf'.act = wf.act
  BY <1>0 DEF WfBootstrap, Closes, Answers, WfTyped, Workflows
<1>3. CASE run' = run
  BY <1>1, <1>2, <1>3, ChainStays
<1>4. CASE run[0].st = "none" /\ run' = [run EXCEPT ![0].st = "ready"]
  <2>1. 0 \in Revs /\ run[0].fence <= wf.act
    BY Numbers DEF ChainInv, Scheduled
  <2>2. run'[0].st = "ready" /\ run'[0].fence = run[0].fence /\ \A q \in Revs \ {0} : run'[q] = run[q]
    BY <1>0, <1>4, <2>1 DEF RunTyped, Runs
  <2> QED
    BY <1>1, <1>2, <1>4, <2>1, <2>2, ChainReopens
<1> QED
  BY <1>3, <1>4 DEF WfBootstrap

\* The Workflow schedules its Activities one after the other.
LEMMA StepRow ==
  ASSUME StepsInv, ChainInv, WfStep, act' # act
  PROVE  /\ wf.act + 1 \in Acts /\ wf'.act = wf.act + 1
         /\ act'[wf.act + 1].pc = "claim" /\ act[wf.act + 1].pc = "unused"
         /\ \A b \in Acts \ {wf.act + 1} : act'[b] = act[b]
<1>0. WfTyped /\ ActTyped
  BY DEF StepsInv
<1>1. /\ wf.act + 1 \in Acts
      /\ wf' = [wf EXCEPT !.pc = "await", !.act = wf.act + 1]
      /\ act' = [act EXCEPT ![wf.act + 1] = Activity("claim", wf.rev)]
  BY DEF WfStep
<1>2. wf.act \in Nat
  BY <1>0, Numbers DEF WfTyped, Workflows, Acts, NoAct
<1>3. wf.act + 1 > wf.act
  BY <1>2
<1>4. act[wf.act + 1].pc = "unused"
  BY <1>1, <1>3 DEF ChainInv, Scheduled
<1> QED
  BY <1>0, <1>1, <1>4 DEF WfTyped, Workflows, ActTyped, Activity

\* Scheduling an Activity keeps the chain: its number is the next one.
LEMMA StepChain ==
  ASSUME StepsInv, ChainInv, WfStep
  PROVE  ChainInv'
<1>0. WfTyped
  BY DEF StepsInv
<1>1. run' = run /\ ans' = ans /\ ops' = ops
  BY DEF WfStep, rows
<1>2. CASE act' = act
  <2>1. wf'.act = wf.act \/ wf'.act = wf.act + 1
    BY <1>0 DEF WfStep, Closes, WfTyped, Workflows
  <2>2. wf.act \in Nat
    BY <1>0, Numbers DEF WfTyped, Workflows, Acts, NoAct
  <2>3. Scheduled'
    <3>1. \A a \in Acts : a > wf'.act => a > wf.act
      BY <2>1, <2>2 DEF Acts
    <3>2. \A r \in Revs : run[r].fence <= wf'.act
      <4> SUFFICES ASSUME NEW r \in Revs PROVE run[r].fence <= wf'.act
        OBVIOUS
      <4>1. run[r].fence <= wf.act /\ run[r].fence \in Nat
        BY DEF ChainInv, Scheduled, StepsInv, RunTyped, Runs, Acts, NoAct
      <4> QED
        BY <2>1, <2>2, <4>1
    <3> QED
      BY <1>1, <1>2, <3>1, <3>2 DEF ChainInv, Scheduled
  <2> QED
    BY <1>1, <2>3 DEF ChainInv, Chained, Unopened
<1>3. CASE act' # act
  <2>1. /\ wf.act + 1 \in Acts /\ wf'.act = wf.act + 1
        /\ \A b \in Acts \ {wf.act + 1} : act'[b] = act[b]
    BY <1>3, StepRow
  <2>2. wf.act \in Nat
    BY <1>0, Numbers DEF WfTyped, Workflows, Acts, NoAct
  <2>3. \A a \in Acts : a > wf.act + 1 => a > wf.act /\ a # wf.act + 1
    BY <2>2 DEF Acts
  <2>4. \A r \in Revs : run[r].fence <= wf.act + 1
    <3> SUFFICES ASSUME NEW r \in Revs PROVE run[r].fence <= wf.act + 1
      OBVIOUS
    <3>1. run[r].fence <= wf.act /\ run[r].fence \in Nat
      BY DEF ChainInv, Scheduled, StepsInv, RunTyped, Runs, Acts, NoAct
    <3> QED
      BY <2>2, <3>1
  <2>5. Scheduled'
    BY <1>1, <2>1, <2>3, <2>4 DEF ChainInv, Scheduled
  <2> QED
    BY <1>1, <2>5 DEF ChainInv, Chained, Unopened
<1> QED
  BY <1>2, <1>3

\* A claim and a commit keep the chain.
LEMMA CursorChain ==
  ASSUME StepsInv, ChainInv, NEW a \in Acts, StepClaim(a) \/ Commit(a)
  PROVE  ChainInv'
<1>0. RunTyped /\ ActTyped /\ TkTyped /\ AnsTyped
  BY DEF StepsInv
<1>1. \A b \in Acts : act[b].pc = "unused" => act'[b].pc = "unused"
  BY <1>0, InvokedMoves
<1>2. ops' = ops /\ wf' = wf
  BY DEF StepClaim, Commit
<1>3. CASE run' = run /\ ans' = ans
  BY <1>1, <1>2, <1>3, ChainStays
<1>4. CASE StepClaim(a) /\ run' # run
  <2>1. ans' = ans
    BY <1>4 DEF StepClaim
  <2>2. a <= wf.act
    <3>1. act[a].pc # "unused"
      BY <1>4, <1>0, InvokedMoves
    <3>2. wf.act \in Nat
      BY Numbers DEF StepsInv, WfTyped, Workflows, Acts, NoAct
    <3> QED
      BY <3>1, <3>2 DEF ChainInv, Scheduled, Acts
  <2> QED
    BY <1>1, <1>2, <1>4, <2>1, <2>2, ClaimRow, ChainReopens
<1>5. CASE Commit(a) /\ ~(run' = run /\ ans' = ans)
  <2>1. /\ run[Rev(a)].st = "running" /\ Rev(a) < StepLimit
        /\ Chain(Rev(a), act[a].next) /\ OpenWait(Rev(a), act[a].next) /\ Fits(tk, act[a].next)
    BY <1>5 DEF Commit, Current
  <2>2. Rev(a) \in Revs
    BY <1>0, KindTyped
  <2>3. act[a].next \in StepKinds
    BY <1>0, <2>1, NextKindsTyped DEF Fits, StepKinds, ActTyped, Activities
  <2>4. \A q \in Revs \ {Rev(a), Rev(a) + 1} : ans'[q] = ans[q]
    BY <2>1, <1>0 DEF OpenWait, AnsTyped
  <2> QED
    BY <1>1, <1>2, <2>1, <2>2, <2>3, <2>4, ChainOpens
<1> QED
  BY <1>3, <1>4, <1>5 DEF StepClaim

\* What the client, a human, the clock and the rest of the Workflow do leaves cursors and
\* Activities alone.
Around == \/ Client \/ Cancel \/ DispatchExpired \/ DispatchLost \/ (\E r \in Revs : Answer(r))
          \/ WfAdopt \/ WfResult \/ WfFails \/ WfRetries \/ WfBefore \/ WfWakes \/ WfFinalize \/ WfCanceled
          \/ WfGivesUp \/ WfDies

\* The steps around the protocol leave cursors, Activities and calls alone, and at most fence the ledger.
LEMMA AroundRows ==
  ASSUME StepsInv, Around
  PROVE  /\ run' = run /\ act' = act /\ effects' = effects /\ wf'.act = wf.act
         /\ ops' \in {ops, FencedOps}
         /\ \A r \in Revs : ans[r].st = "none" => ans'[r].st = "none"
<1>0. WfTyped /\ AnsTyped
  BY DEF StepsInv
<1>1. run' = run /\ act' = act /\ effects' = effects
  BY DEF Around, Client, Submit, DispatchCheck, DispatchStart, DispatchCancel, Reconcile, Signal, Expire, Cancel, DispatchExpired,
     DispatchLost, Answer, WfAdopt, WfResult, WfFails, WfRetries, WfBefore, WfWakes, WfFinalize, WfCanceled, WfGivesUp, WfDies,
     OnlyWf, rows
<1>2. wf'.act = wf.act
  BY <1>0 DEF Around, Client, Submit, DispatchCheck, DispatchStart, DispatchCancel, Reconcile, Signal, Expire, Cancel, DispatchExpired,
     DispatchLost, Answer, WfAdopt, WfResult, WfFails, WfRetries, WfBefore, WfWakes, WfFinalize, WfCanceled, WfGivesUp, WfDies,
     OnlyWf, rows, Closes, Retried, WfTyped, Workflows
<1>3. ops' \in {ops, FencedOps}
  BY DEF Around, Client, Submit, DispatchCheck, DispatchStart, DispatchCancel, Reconcile, Signal, Expire, Cancel, DispatchExpired,
     DispatchLost, Answer, WfAdopt, WfResult, WfFails, WfRetries, WfBefore, WfWakes, WfFinalize, WfCanceled, WfGivesUp, WfDies,
     OnlyWf, rows, CancelRows, FailRows
<1>4. \A r \in Revs : ans[r].st = "none" => ans'[r].st = "none"
  <2>1. ASSUME NEW q \in Revs, Answer(q) PROVE \A r \in Revs : ans[r].st = "none" => ans'[r].st = "none"
    <3>1. PICK a1 : a1 = [ans EXCEPT ![q].st = "answered"]
      OBVIOUS
    <3>2. ans' = [a1 EXCEPT ![q].sent = "pending"] /\ ans[q].st = "waiting"
      BY <2>1, <3>1 DEF Answer
    <3> QED
      BY <1>0, <3>1, <3>2 DEF AnsTyped
  <2>2. ASSUME NEW q \in Revs, Signal(q) \/ Expire(q) PROVE \A r \in Revs : ans[r].st = "none" => ans'[r].st = "none"
    BY <1>0, <2>2 DEF Signal, Expire, AnsTyped, Waits
  <2>3. CASE ans' = ans
    BY <2>3
  <2> QED
    BY <2>1, <2>2, <2>3 DEF Around, Client, Submit, DispatchCheck, DispatchStart, DispatchCancel, Reconcile, Cancel, DispatchExpired,
     DispatchLost, WfAdopt, WfResult, WfFails, WfRetries, WfBefore, WfWakes, WfFinalize, WfCanceled, WfGivesUp, WfDies,
     OnlyWf, rows
<1> QED
  BY <1>1, <1>2, <1>3, <1>4

\* Every step is one of these.
LEMMA StepCases ==
  ASSUME StepsNext
  PROVE  \/ Around \/ WfStep \/ WfBootstrap \/ WfRecover \/ WfProbe
         \/ \E a \in Acts : Invoked(a) \/ StepClaim(a) \/ Commit(a)
BY DEF StepsNext, Client, Workflow, Advance, Faults, Around, Invoked

\* Every step keeps the chain of cursors.
LEMMA ChainInductive == StepsInv /\ ChainInv /\ [StepsNext]_stepsVars => ChainInv'
<1> SUFFICES ASSUME StepsInv, ChainInv, [StepsNext]_stepsVars PROVE ChainInv'
  OBVIOUS
<1>0. OpsTyped /\ ActTyped
  BY DEF StepsInv
<1>1. CASE Around
  <2>1. \A r \in Revs : run[r].st = "none" => ans'[r].st = ans[r].st
    BY <1>1, AroundRows DEF ChainInv, Unopened
  <2> QED
    BY <1>0, <1>1, <2>1, AroundRows, FencedRows, ChainStays
<1>2. ASSUME NEW a \in Acts, Invoked(a) PROVE ChainInv'
  BY <1>0, <1>2, InvokedMoves, InvokedRows, ChainStays
<1>3. CASE UNCHANGED stepsVars
  BY <1>3 DEF stepsVars, ChainInv, Chained, Unopened, Scheduled
<1> QED
  BY <1>1, <1>2, <1>3, StepChain, BootstrapChain, RecoverChain, ProbeChain, CursorChain, StepCases

----------------------------------------------------------------------------
(* Who holds the task *)

Decided(st) == st \in TerminalStates \union {"uncertain"}
ToolKnown == \A r \in Revs : Live(r) /\ run[r].kind = "tool" => tk.ph # "model_pending"
OwnInv(a) == CurrentHolds(a) /\ HolderCurrent(a) /\ ToolPhase(a)

\* HolderInv, one Activity at a time.
LEMMA HolderParts == HolderInv <=> ToolKnown /\ \A a \in Acts : OwnInv(a)
BY DEF HolderInv, ToolKnown, OwnInv

\* Nobody is in a turn of the open cursor while another holds the task, or while it waits
\* for a claim or a human.
LEMMA NobodyElse ==
  ASSUME HolderInv, NEW b \in Acts, ~Holds(b), ~Decided(tk.st)
  PROVE  ~(Current(b) /\ act[b].pc \in Mid \union {"run"})
BY DEF HolderInv, CurrentHolds, Decided

\* A change of the task keeps what holds of an Activity that does not move.
LEMMA OthersHold ==
  ASSUME HolderInv, NEW b \in Acts, run' = run, act'[b] = act[b],
         \/ tk' = tk
         \/ Decided(tk'.st)
         \/ ~Holds(b) /\ ~Decided(tk.st) /\ ~(tk'.st = "running" /\ tk'.lease = b)
  PROVE  OwnInv(b)'
<1>0. OwnInv(b)
  BY DEF HolderInv, OwnInv
<1>1. Current(b)' <=> Current(b)
  BY DEF Current, Rev
<1>2. Kind(b)' = Kind(b)
  BY DEF Kind, Rev
<1>3. CASE tk' = tk
  <2>1. Holds(b)' <=> Holds(b)
    BY <1>3 DEF Holds
  <2> QED
    BY <1>0, <1>1, <1>2, <1>3, <2>1 DEF OwnInv, CurrentHolds, HolderCurrent, ToolPhase
<1>4. CASE Decided(tk'.st)
  <2>1. ~Holds(b)'
    BY <1>4 DEF Holds, Decided, TerminalStates
  <2> QED
    BY <1>0, <1>1, <1>2, <1>4, <2>1 DEF OwnInv, CurrentHolds, HolderCurrent, ToolPhase, Decided
<1>5. CASE ~Holds(b) /\ ~Decided(tk.st) /\ ~(tk'.st = "running" /\ tk'.lease = b)
  <2>1. ~Holds(b)'
    BY <1>5 DEF Holds
  <2>2. ~(Current(b) /\ act[b].pc \in Mid \union {"run"})
    BY <1>5, NobodyElse
  <2>3. "request" \in Mid
    BY DEF Mid
  <2> QED
    BY <1>1, <1>2, <2>1, <2>2, <2>3 DEF OwnInv, CurrentHolds, HolderCurrent, ToolPhase
<1> QED
  BY <1>3, <1>4, <1>5

\* A step of the holder, or of one that leaves the task as it is.
LEMMA OthersOf ==
  ASSUME HolderInv, NEW a \in Acts, Alone(a),
         tk' = tk \/ (Holds(a) /\ (tk'.st = "running" => tk'.lease = a))
  PROVE  \A b \in Acts \ {a} : OwnInv(b)'
<1> SUFFICES ASSUME NEW b \in Acts \ {a} PROVE OwnInv(b)'
  OBVIOUS
<1>1. Holds(a) => ~Holds(b) /\ ~Decided(tk.st)
  BY DEF Holds, Decided, TerminalStates
<1> QED
  BY <1>1, OthersHold DEF Alone

\* An Activity outside its turn owes nothing.
LEMMA OutsideOwes ==
  ASSUME NEW a \in Acts, act'[a].pc \notin Mid \union {"run"}
  PROVE  OwnInv(a)'
<1>1. {"preparing", "io", "prepared", "request"} \subseteq Mid
  BY DEF Mid
<1> QED
  BY <1>1 DEF OwnInv, CurrentHolds, HolderCurrent, ToolPhase

\* Where an Activity is that has no turn.
LEMMA OutsidePcs ==
  \A pc \in EndPcs \union {"commit", "lease", "claim", "unused"} : pc \notin Mid \union {"run"}
BY DEF EndPcs, Mid

\* Leaving a turn.
LEMMA HolderLeaves ==
  ASSUME HolderInv, NEW a \in Acts, Alone(a), LeavesTurn(a)
  PROVE  HolderInv'
<1>1. \A b \in Acts \ {a} : OwnInv(b)'
  BY OthersOf DEF LeavesTurn
<1>2. OwnInv(a)'
  BY OutsideOwes, OutsidePcs DEF LeavesTurn
<1>3. ToolKnown'
  BY DEF LeavesTurn, Alone, HolderInv, ToolKnown, Live
<1> QED
  BY <1>1, <1>2, <1>3 DEF HolderInv, ToolKnown, OwnInv

\* Ending or standing outside the turn while the task stays.
LEMMA HolderStops ==
  ASSUME HolderInv, NEW a \in Acts, Alone(a), tk' = tk, act'[a].pc \in EndPcs \union {"commit", "lease", "claim"}
  PROVE  HolderInv'
<1>1. \A b \in Acts \ {a} : OwnInv(b)'
  BY OthersOf
<1>2. OwnInv(a)'
  BY OutsideOwes, OutsidePcs
<1>3. ToolKnown'
  BY DEF Alone, HolderInv, ToolKnown, Live
<1> QED
  BY <1>1, <1>2, <1>3 DEF HolderInv, ToolKnown, OwnInv

\* Going on in the turn, the task unchanged or saved by its holder.
LEMMA HolderGoes ==
  ASSUME HolderInv, NEW a \in Acts, Alone(a), NEW pc \in Mid, GoesTo(a, pc),
         act[a].pc \in Mid \union {"run"}, act[a].pc = "run" => Current(a),
         \/ tk' = tk
         \/ Holds(a) /\ tk'.st = "running" /\ tk'.lease = a,
         ToolPhase(a)', tk'.ph = "model_pending" => tk.ph = "model_pending" \/ (Holds(a) /\ act[a].pc = "request"),
         RunTyped, ActTyped, ChainInv
  PROVE  HolderInv'
<1>1. \A b \in Acts \ {a} : OwnInv(b)'
  BY OthersOf
<1>2. (Current(a)' <=> Current(a)) /\ Kind(a)' = Kind(a)
  BY DEF Current, Kind, Rev, GoesTo, Alone
<1>3. Holds(a) => Holds(a)'
  BY DEF Holds
<1>4. CurrentHolds(a)' /\ HolderCurrent(a)'
  <2>1. CurrentHolds(a) /\ HolderCurrent(a)
    BY DEF HolderInv
  <2>2. Holds(a)' => Holds(a)
    BY DEF Holds
  <2>3. CurrentHolds(a)'
    <3>1. CASE tk' = tk
      BY <3>1, <1>2, <1>3, <2>1 DEF CurrentHolds, GoesTo
    <3>2. CASE Holds(a) /\ tk'.st = "running" /\ tk'.lease = a
      BY <3>2 DEF CurrentHolds, Holds
    <3> QED
      BY <3>1, <3>2
  <2>4. HolderCurrent(a)'
    BY <1>2, <2>1, <2>2 DEF HolderCurrent, GoesTo
  <2> QED
    BY <2>3, <2>4
<1>5. ToolKnown'
  <2>1. CASE tk'.ph = "model_pending" /\ Holds(a) /\ act[a].pc = "request"
    <3>1. Current(a) /\ Kind(a) # "tool"
      BY <2>1 DEF HolderInv, HolderCurrent, ToolPhase, Mid
    <3>2. Rev(a) \in Revs /\ run[Rev(a)].st = "running" /\ run[Rev(a)].kind # "tool"
      BY <3>1, KindTyped DEF Current, Kind
    <3>3. \A r \in Revs : Live(r) => r = Rev(a)
      BY <3>2, OneOpen DEF ChainInv
    <3> QED
      BY <3>2, <3>3 DEF ToolKnown, Alone, Live
  <2>2. CASE tk'.ph = "model_pending" => tk.ph = "model_pending"
    BY <2>2 DEF HolderInv, ToolKnown, Alone, Live
  <2> QED
    BY <2>1, <2>2
<1> QED
  BY <1>1, <1>4, <1>5 DEF HolderInv, ToolKnown, OwnInv

\* A statement that touches the task only.
LEMMA HolderRows ==
  ASSUME HolderInv, run' = run, act' = act, tk'.ph = tk.ph,
         tk' = tk \/ Decided(tk'.st) \/ (tk.st # "running" /\ ~Decided(tk.st) /\ tk'.st # "running")
  PROVE  HolderInv'
<1>1. \A b \in Acts : OwnInv(b)'
  BY OthersHold DEF Holds
<1>2. ToolKnown'
  BY DEF HolderInv, ToolKnown, Live
<1> QED
  BY <1>1, <1>2 DEF HolderInv, ToolKnown, OwnInv

\* With no cursor running and nobody at work the invariant is about the tool phase only.
LEMMA HolderClosed ==
  ASSUME ToolKnown', \A r \in Revs : run'[r].st # "running", tk'.st # "running",
         \A a \in Acts : act'[a].rev \in Revs
  PROVE  HolderInv'
<1>1. \A a \in Acts : ~Current(a)' /\ ~Holds(a)'
  BY DEF Current, Holds, Rev
<1> QED
  BY <1>1 DEF HolderInv, CurrentHolds, HolderCurrent, ToolPhase, ToolKnown

\* The claim of the task (TaskStore.claim).
LEMMA TakeLeaseHolds ==
  ASSUME StepsInv, HolderInv, NEW a \in Acts, TakeLease(a)
  PROVE  HolderInv'
<1>0. ActTyped /\ TkTyped /\ OpsTyped
  BY DEF StepsInv
<1>1. Alone(a)
  BY <1>0, InvokedMoves, InvokedRows DEF Invoked, Alone
<1>2. {"busy", "run"} \subseteq ActPcs /\ "busy" \in EndPcs /\ "run" \notin EndPcs
  BY DEF ActPcs, EndPcs
<1>3. CASE CommitNext(a, "finalize") /\ tk' = tk
  <2>1. GoesTo(a, "commit")
    BY <1>0, <1>3, CommitFrame
  <2> QED
    BY <1>1, <1>3, <2>1, HolderStops DEF GoesTo
<1>4. CASE Goto(a, "busy") /\ tk' = tk
  BY <1>0, <1>1, <1>2, <1>4, GotoFrame, HolderStops
<1>5. CASE Goto(a, "busy") /\ tk' = [tk EXCEPT !.st = "uncertain"]
  <2>1. tk'.st = "uncertain" /\ tk'.ph = tk.ph
    BY <1>0, <1>5 DEF TkTyped, Tasks
  <2>2. act'[a].pc = "busy"
    BY <1>0, <1>2, <1>5, GotoFrame
  <2>3. \A b \in Acts \ {a} : OwnInv(b)'
    BY <1>1, <2>1, OthersHold DEF Alone, Decided
  <2>4. OwnInv(a)'
    BY <1>2, <2>2, OutsideOwes, OutsidePcs
  <2>5. ToolKnown'
    BY <1>1, <2>1 DEF Alone, HolderInv, ToolKnown, Live
  <2> QED
    BY <2>3, <2>4, <2>5 DEF HolderInv, ToolKnown, OwnInv
<1>6. CASE /\ tk.st \notin TerminalStates /\ tk.lease = NoAct /\ tk.st \notin {"suspended", "uncertain"}
           /\ Goto(a, "run") /\ tk' = [tk EXCEPT !.st = "running", !.lease = a]
  <2>1. tk'.st = "running" /\ tk'.lease = a /\ tk'.ph = tk.ph
    BY <1>0, <1>6 DEF TkTyped, Tasks
  <2>2. act'[a].pc = "run"
    BY <1>0, <1>2, <1>6, GotoFrame
  <2>3. \A b \in Acts : ~Holds(b)
    BY <1>6 DEF Holds, Acts, NoAct
  <2>4. \A b \in Acts \ {a} : OwnInv(b)'
    BY <1>1, <1>6, <2>1, <2>3, OthersHold DEF Alone, Decided
  <2>5. OwnInv(a)'
    BY <2>1, <2>2 DEF OwnInv, CurrentHolds, HolderCurrent, ToolPhase, Holds, Mid
  <2>6. ToolKnown'
    BY <1>1, <2>1 DEF Alone, HolderInv, ToolKnown, Live
  <2> QED
    BY <2>4, <2>5, <2>6 DEF HolderInv, ToolKnown, OwnInv
<1> QED
  BY <1>3, <1>4, <1>5, <1>6 DEF TakeLease

\* A save of an Activity in its turn.
LEMMA HolderSaves ==
  ASSUME StepsInv, ChainInv, HolderInv, NEW a \in Acts, Alone(a), NEW ph, NEW nx, NEW pc \in Mid, Saves(a, ph, nx, pc),
         act[a].pc \in Mid \union {"run"}, act[a].pc = "run" => Current(a),
         ph = "model_pending" => act[a].pc = "request",
         pc = "preparing" => ph = "step_preparing",
         pc \in {"io", "prepared"} => Kind(a) # "tool" \/ ph \in Unrecovered,
         pc # "request"
  PROVE  HolderInv'
<1>0. ActTyped /\ TkTyped /\ RunTyped
  BY DEF StepsInv
<1>1. pc \in ActPcs \ EndPcs
  BY DEF Mid, ActPcs, EndPcs
<1>2. CASE Holds(a) /\ tk'.st = "running" /\ tk'.lease = a /\ tk'.ph = ph /\ GoesTo(a, pc)
  <2>1. Kind(a)' = Kind(a)
    BY <1>2 DEF Kind, Rev, GoesTo, Alone
  <2>2. ToolPhase(a)'
    BY <1>2, <2>1 DEF ToolPhase, GoesTo
  <2> QED
    BY <1>0, <1>2, <2>2, HolderGoes
<1>3. CASE tk' = tk /\ act'[a].pc = "busy"
  BY <1>3, HolderStops DEF EndPcs
<1> QED
  BY <1>0, <1>1, <1>2, <1>3, SavesFrame

\* Going on without touching the task.
LEMMA HolderWalks ==
  ASSUME StepsInv, ChainInv, HolderInv, NEW a \in Acts, Alone(a), NEW pc \in Mid, GoesTo(a, pc), tk' = tk,
         act[a].pc \in Mid \union {"run"}, act[a].pc = "run" => Current(a),
         pc # "preparing",
         pc = "io" => act[a].pc = "preparing",
         pc = "prepared" => act[a].pc \in {"io", "prepared"},
         pc = "request" => Kind(a) # "tool"
  PROVE  HolderInv'
<1>0. ActTyped /\ TkTyped /\ RunTyped
  BY DEF StepsInv
<1>1. Kind(a)' = Kind(a) /\ (Holds(a)' <=> Holds(a))
  BY DEF Kind, Rev, GoesTo, Alone, Holds
<1>2. ToolPhase(a)'
  BY <1>1 DEF ToolPhase, GoesTo, HolderInv, Unrecovered
<1> QED
  BY <1>0, <1>2, HolderGoes

\* The entry of a turn, and what its hooks decide.
LEMMA EnterHolds ==
  ASSUME StepsInv, ChainInv, HolderInv, NEW a \in Acts, Enter(a)
  PROVE  HolderInv'
<1>0. ActTyped /\ TkTyped /\ RunTyped /\ OpsTyped
  BY DEF StepsInv
<1>1. Alone(a)
  BY <1>0, InvokedMoves, InvokedRows DEF Invoked, Alone
<1>2. act[a].pc = "run" /\ Current(a)
  BY DEF Enter, MustStop
<1>3. CASE tk' = tk /\ Goto(a, "saved")
  <2>1. "saved" \in Mid /\ "saved" \in ActPcs /\ "saved" \notin EndPcs
    BY DEF Mid, ActPcs, EndPcs
  <2>2. GoesTo(a, "saved")
    BY <1>0, <1>3, <2>1, GotoFrame
  <2> QED
    BY <1>1, <1>2, <1>3, <2>1, <2>2, HolderWalks
<1>4. CASE tk.ph = "model_pending" /\ tk' = tk /\ act' = [act EXCEPT ![a].pc = "request", ![a].att = tk.att]
  <2>1. act'[a].pc = "request" /\ act'[a].rev = act[a].rev
    BY <1>0, <1>4 DEF ActTyped, Activities
  <2>2. Rev(a) \in Revs /\ Kind(a) # "tool"
    BY <1>0, <1>2, <1>4, KindTyped DEF HolderInv, Live, Current, Kind
  <2>3. /\ Current(a)' <=> Current(a)
        /\ Kind(a)' = Kind(a)
        /\ Holds(a)' <=> Holds(a)
    BY <1>1, <1>4, <2>1 DEF Current, Kind, Rev, Holds, Alone
  <2>4. OwnInv(a)'
    BY <1>2, <1>4, <2>1, <2>2, <2>3 DEF OwnInv, CurrentHolds, HolderCurrent, ToolPhase, HolderInv
  <2>5. \A b \in Acts \ {a} : OwnInv(b)'
    BY <1>1, <1>4, OthersOf
  <2>6. ToolKnown'
    BY <1>1, <1>4 DEF Alone, HolderInv, ToolKnown, Live
  <2> QED
    BY <2>4, <2>5, <2>6 DEF HolderInv, ToolKnown, OwnInv
<1>5. CASE Kind(a) = "evaluation" /\ Saves(a, "evaluation_pending", "none", "io")
  <2>1. "io" \in Mid
    BY DEF Mid
  <2> QED
    BY <1>1, <1>2, <1>5, <2>1, HolderSaves
<1>6. CASE Saves(a, "step_preparing", Kind(a), "preparing")
  <2>1. "preparing" \in Mid
    BY DEF Mid
  <2> QED
    BY <1>1, <1>2, <1>6, <2>1, HolderSaves
<1> QED
  BY <1>3, <1>4, <1>5, <1>6 DEF Enter

\* The hooks ran: what the turn does next keeps the holder.
LEMMA PrepareHolds ==
  ASSUME StepsInv, ChainInv, HolderInv, NEW a \in Acts, Prepare(a)
  PROVE  HolderInv'
<1>0. ActTyped /\ TkTyped /\ RunTyped /\ OpsTyped
  BY DEF StepsInv
<1>1. Alone(a)
  BY <1>0, InvokedMoves, InvokedRows DEF Invoked, Alone
<1>2. act[a].pc = "preparing" /\ act[a].pc \in Mid
  BY DEF Prepare, Mid
<1>3. CASE Kind(a) = "model" /\ Goto(a, "request") /\ tk' = tk
  <2>1. "request" \in Mid /\ "request" \in ActPcs /\ "request" \notin EndPcs
    BY DEF Mid, ActPcs, EndPcs
  <2>2. GoesTo(a, "request")
    BY <1>0, <1>3, <2>1, GotoFrame
  <2> QED
    BY <1>1, <1>2, <1>3, <2>1, <2>2, HolderWalks
<1>4. CASE Saves(a, "tool_started", "none", "io")
  <2>1. "io" \in Mid /\ "tool_started" \in Unrecovered
    BY DEF Mid, Unrecovered
  <2> QED
    BY <1>1, <1>2, <1>4, <2>1, HolderSaves
<1>5. CASE Saves(a, "tool_done", "none", "saved")
  <2>1. "saved" \in Mid
    BY DEF Mid
  <2> QED
    BY <1>1, <1>2, <1>5, <2>1, HolderSaves
<1>6. CASE act' = [act EXCEPT ![a].pc = "io", ![a].asks = TRUE] /\ tk' = tk
  <2>1. "io" \in Mid
    BY DEF Mid
  <2>2. GoesTo(a, "io")
    BY <1>0, <1>6 DEF GoesTo, ActTyped, Activities
  <2> QED
    BY <1>1, <1>2, <1>6, <2>1, <2>2, HolderWalks
<1> QED
  BY <1>3, <1>4, <1>5, <1>6 DEF Prepare

\* Every other step of an Activity in its turn.
LEMMA TurnHolds ==
  ASSUME StepsInv, ChainInv, HolderInv, NEW a \in Acts,
         \/ Request(a) \/ PrepareOp(a) \/ ClaimOp(a) \/ Execute(a) \/ ExecuteFails(a) \/ Record(a) \/ Save(a)
         \/ \E next \in IOKinds : Yield(a, next)
  PROVE  HolderInv'
<1>0. ActTyped /\ TkTyped /\ RunTyped /\ OpsTyped
  BY DEF StepsInv
<1>1. Alone(a)
  BY <1>0, InvokedMoves, InvokedRows DEF Invoked, Alone
<1>2. ASSUME NEW pc \in Mid, Goto(a, pc) PROVE GoesTo(a, pc)
  BY <1>0, <1>2, GotoFrame DEF Mid, ActPcs, EndPcs
<1>3. CASE Request(a)
  <2>1. Saves(a, "model_pending", "none", "io") /\ act[a].pc = "request" /\ "request" \in Mid /\ "io" \in Mid
    BY <1>3 DEF Request, Mid
  <2>2. CASE Holds(a)
    <3>1. Kind(a) # "tool"
      BY <2>1, <2>2 DEF HolderInv, HolderCurrent, ToolPhase
    <3> QED
      BY <1>1, <2>1, <3>1, HolderSaves
  <2>3. CASE ~Holds(a)
    <3>1. tk' = tk /\ act'[a].pc = "busy"
      BY <1>0, <2>1, <2>3, SavesFrame DEF ActPcs, EndPcs
    <3> QED
      BY <1>1, <3>1, HolderStops DEF EndPcs
  <2> QED
    BY <2>2, <2>3
<1>4. CASE Raise(a, "fatal")
  BY <1>0, <1>1, <1>4, RaiseFrame, HolderLeaves
<1>5. CASE PrepareOp(a) /\ ~Raise(a, "fatal")
  <2>1. Goto(a, "prepared") /\ tk' = tk /\ act[a].pc = "io" /\ "io" \in Mid /\ "prepared" \in Mid
    BY <1>5 DEF PrepareOp, Mid
  <2> QED
    BY <1>1, <1>2, <2>1, HolderWalks
<1>6. CASE ClaimOp(a) /\ ~Raise(a, "fatal")
  <2>1. Goto(a, "started") /\ tk' = tk /\ act[a].pc = "prepared" /\ "prepared" \in Mid /\ "started" \in Mid
    BY <1>6 DEF ClaimOp, Mid
  <2> QED
    BY <1>1, <1>2, <2>1, HolderWalks
<1>7. CASE Execute(a)
  <2>1. Goto(a, "executed") /\ tk' = tk /\ act[a].pc = "started" /\ "started" \in Mid /\ "executed" \in Mid
    BY <1>7 DEF Execute, Mid
  <2> QED
    BY <1>1, <1>2, <2>1, HolderWalks
<1>8. CASE ExecuteFails(a)
  <2>1. Goto(a, "failed") /\ tk' = tk /\ act[a].pc = "started" /\ "started" \in Mid /\ "failed" \in Mid
    BY <1>8 DEF ExecuteFails, Mid
  <2> QED
    BY <1>1, <1>2, <2>1, HolderWalks
<1>9. CASE Record(a) /\ ~Raise(a, "fatal")
  <2>1. Goto(a, "recorded") /\ tk' = tk /\ act[a].pc = "executed" /\ "executed" \in Mid /\ "recorded" \in Mid
    BY <1>9 DEF Record, Mid
  <2> QED
    BY <1>1, <1>2, <2>1, HolderWalks
<1>10. CASE Save(a)
  <2>1. act[a].pc = "recorded" /\ {"recorded", "asking", "saved"} \subseteq Mid
    BY <1>10 DEF Save, Mid
  <2>2. CASE Saves(a, "waiting_user", "none", "asking")
    BY <1>1, <2>1, <2>2, HolderSaves
  <2>3. CASE Saves(a, Done(Kind(a)), "none", "saved")
    <3>1. Done(Kind(a)) # "model_pending"
      BY DEF Done
    <3> QED
      BY <1>1, <2>1, <2>3, <3>1, HolderSaves
  <2> QED
    BY <1>10, <2>2, <2>3 DEF Save
<1>11. ASSUME NEW next \in IOKinds, Yield(a, next) PROVE HolderInv'
  <2>1. act[a].pc = "saved" /\ {"saved", "yielding"} \subseteq Mid /\ Saves(a, "step_ready", next, "yielding")
    BY <1>11 DEF Yield, Mid
  <2> QED
    BY <1>1, <2>1, HolderSaves
<1> QED
  BY <1>3, <1>4, <1>5, <1>6, <1>7, <1>8, <1>9, <1>10, <1>11

\* A turn that ends, however it ends, is one that leaves.
LEMMA EndsLeave ==
  ASSUME StepsInv, NEW a \in Acts,
         Stop(a) \/ RaiseFailed(a) \/ Suspend(a) \/ Yielded(a) \/ \E st \in {"completed", "failed"} : End(a, st)
  PROVE  LeavesTurn(a)
<1>0. ActTyped /\ TkTyped
  BY DEF StepsInv
<1>1. CASE Stop(a)
  BY <1>0, <1>1, ReturnsFrame DEF Stop, Lost
<1>2. CASE RaiseFailed(a)
  BY <1>0, <1>2, RaiseFrame DEF RaiseFailed
<1>3. CASE Suspend(a)
  BY <1>0, <1>3, FinishesFrame DEF Suspend, Mid, InCall
<1>4. CASE Yielded(a)
  BY <1>0, <1>4, FinishesFrame DEF Yielded, Mid, InCall
<1>5. ASSUME NEW st \in {"completed", "failed"}, End(a, st) PROVE LeavesTurn(a)
  <2>1. PICK end \in {"completed", "failed", "cancelled"} :
          /\ Returns(a, end)
          /\ end \in Lost \/ act[a].pc \in Mid \ InCall
    BY <1>5 DEF End, Lost, Mid, InCall
  <2> QED
    BY <1>0, <2>1, ReturnsFrame
<1> QED
  BY <1>1, <1>2, <1>3, <1>4, <1>5

\* Every step of a turn keeps the holder.
LEMMA InvokedHolds ==
  ASSUME StepsInv, ChainInv, HolderInv, NEW a \in Acts, Invoked(a)
  PROVE  HolderInv'
<1>0. ActTyped /\ TkTyped /\ RunTyped /\ OpsTyped
  BY DEF StepsInv
<1>1. Alone(a)
  BY <1>0, InvokedMoves, InvokedRows DEF Alone
<1>2. CASE Stop(a) \/ RaiseFailed(a) \/ Suspend(a) \/ Yielded(a) \/ \E st \in {"completed", "failed"} : End(a, st)
  BY <1>1, <1>2, EndsLeave, HolderLeaves
<1>3. CASE Die(a)
  <2>1. Goto(a, "dead") /\ tk' = tk /\ "dead" \in ActPcs /\ "dead" \in EndPcs
    BY <1>3 DEF Die, ActPcs, EndPcs
  <2> QED
    BY <1>0, <1>1, <2>1, GotoFrame, HolderStops
<1>4. CASE RetryModel(a)
  <2>1. act[a].pc = "failed" /\ Kind(a) = "model" /\ act'[a].pc = "request" /\ act'[a].rev = act[a].rev /\ tk' = tk
    BY <1>0, <1>4 DEF RetryModel, ActTyped, Activities
  <2>2. /\ Current(a)' <=> Current(a)
        /\ Kind(a)' = Kind(a)
        /\ Holds(a)' <=> Holds(a)
    BY <1>1, <2>1 DEF Current, Kind, Rev, Holds, Alone
  <2>3. OwnInv(a)'
    BY <2>1, <2>2 DEF OwnInv, CurrentHolds, HolderCurrent, ToolPhase, HolderInv, Mid
  <2>4. \A b \in Acts \ {a} : OwnInv(b)'
    BY <1>1, <2>1, OthersOf
  <2>5. ToolKnown'
    BY <1>1, <2>1 DEF Alone, HolderInv, ToolKnown, Live
  <2> QED
    BY <2>3, <2>4, <2>5 DEF HolderInv, ToolKnown, OwnInv
<1> QED
  BY <1>2, <1>3, <1>4, TakeLeaseHolds, EnterHolds, PrepareHolds, TurnHolds DEF Invoked

----------------------------------------------------------------------------
(* The task and its submission *)

\* Nothing happens to a task before it is submitted.
LEMMA UnsubmittedInductive == StepsInv /\ Unsubmitted /\ [StepsNext]_stepsVars => Unsubmitted'
<1> SUFFICES ASSUME StepsInv, Unsubmitted, [StepsNext]_stepsVars, sub' = "none"
             PROVE  UNCHANGED <<tk, wf, disp, act>> /\ sub = "none"
  BY DEF Unsubmitted
<1>0. TkTyped /\ ActTyped /\ OpsTyped
  BY DEF StepsInv
<1>1. CASE UNCHANGED stepsVars
  BY <1>1 DEF stepsVars
<1>2. ASSUME NEW a \in Acts, Invoked(a) \/ StepClaim(a) \/ Commit(a) PROVE FALSE
  <2>1. act[a].pc # "unused" /\ sub' = sub
    BY <1>0, <1>2, InvokedMoves, InvokedRows DEF StepClaim, Commit
  <2> QED
    BY <2>1 DEF Unsubmitted
<1>3. CASE WfStep \/ WfBootstrap \/ WfRecover \/ WfProbe
  <2>1. wf.st = "open" /\ (sub' = sub \/ sub' = "uncertain")
    BY <1>3 DEF WfStep, WfBootstrap, WfRecover, WfProbe, Working, FailRows, rows
  <2> QED
    BY <2>1 DEF Unsubmitted
<1>4. CASE Around
  <2>1. CASE sub # "none"
    BY <1>4, <2>1 DEF Around, Client, Submit, DispatchCheck, DispatchStart, DispatchCancel, Reconcile, Signal, Expire, Cancel,
       DispatchExpired, DispatchLost, Answer, WfAdopt, WfResult, WfFails, WfRetries, WfBefore, WfWakes, WfFinalize, WfCanceled,
       WfGivesUp, WfDies, OnlyWf, rows, CancelRows, FailRows
  <2>2. CASE sub = "none"
    <3>1. \E r \in Revs : Expire(r)
      BY <1>4, <2>2 DEF Unsubmitted, Around, Client, Submit, DispatchCheck, DispatchStart, DispatchCancel, Reconcile, Signal, Cancel,
         DispatchExpired, DispatchLost, Answer, WfAdopt, WfResult, WfFails, WfRetries, WfBefore, WfWakes, WfFinalize, WfCanceled,
         WfGivesUp, WfDies, Working
    <3> QED
      BY <2>2, <3>1 DEF Expire
  <2> QED
    BY <2>1, <2>2
<1> QED
  BY <1>1, <1>2, <1>3, <1>4, StepCases

\* What these steps do to the task: it is decided, admitted, or stays.
LEMMA AroundTask ==
  ASSUME StepsInv, Unsubmitted, Around
  PROVE  /\ tk'.ph = tk.ph
         /\ \/ tk' = tk
            \/ tk.st \notin TerminalStates /\ tk'.st \in Lost
            \/ tk.st = "none" /\ tk'.st = "pending"
<1>0. tk \in Tasks
  BY DEF StepsInv, TkTyped
<1>1. CASE Submit
  <2>1. tk' = [tk EXCEPT !.st = "pending"] /\ tk.st = "none"
    BY <1>1 DEF Submit, Unsubmitted
  <2> QED
    BY <1>0, <2>1 DEF Tasks
<1>2. CASE CancelRows \/ FailRows
  BY <1>0, <1>2 DEF CancelRows, FailRows, Tasks, Lost, TerminalStates
<1>3. CASE DispatchExpired
  <2>1. tk' = tk \/ (tk.st = "pending" /\ tk' = [tk EXCEPT !.st = "failed", !.lease = NoAct])
    BY <1>3 DEF DispatchExpired
  <2> QED
    BY <1>0, <2>1 DEF Tasks, Lost, TerminalStates
<1>4. CASE tk' = tk
  BY <1>4
<1>5. \/ Submit \/ CancelRows \/ FailRows \/ DispatchExpired \/ tk' = tk
  BY DEF Around, Client, DispatchCheck, DispatchStart, DispatchCancel, Reconcile, Signal, Expire, Cancel,
     DispatchLost, Answer, WfAdopt, WfResult, WfFails, WfRetries, WfBefore, WfWakes, WfFinalize, WfCanceled,
     WfGivesUp, WfDies, OnlyWf, rows
<1> QED
  BY <1>1, <1>2, <1>3, <1>4, <1>5

\* What the recovery does to the task.
LEMMA FailTask ==
  ASSUME TkTyped, FailRows
  PROVE  tk'.ph = tk.ph /\ (tk' = tk \/ (tk.st \notin TerminalStates /\ tk'.st \in Lost)) /\ ops' \in {ops, FencedOps}
BY DEF FailRows, TkTyped, Tasks, Lost, TerminalStates

\* A task that is put back is nobody's, and only one without an outcome is put back.
LEMMA PutBackTask ==
  ASSUME TkTyped, Scoped, PutBack
  PROVE  /\ tk'.ph = tk.ph /\ tk'.st # "running"
         /\ tk.st \in {"pending", "running"} => tk'.st = "pending"
         /\ tk.st \notin {"pending", "running"} => tk' = tk
BY DEF TkTyped, Tasks, PutBack

\* A cursor that is completed or put back leaves none running and nobody at work.
LEMMA ClosedHolds ==
  ASSUME StepsInv, StepsInv', HolderInv, ChainInv, NEW r \in Revs, run[r].st \notin {"none", "completed"}, tk'.st # "running",
         \/ run' = [run EXCEPT ![r].st = "ready", ![r].fence = NoAct] /\ tk'.ph = tk.ph
         \/ /\ r < StepLimit
            /\ \E kind \in StepKinds : Chain(r, kind) /\ (kind = "tool" => tk'.ph # "model_pending")
  PROVE  HolderInv'
<1>0. RunTyped /\ Chained /\ \A a \in Acts : act'[a].rev \in Revs
  BY DEF StepsInv, ChainInv, ActTyped, Activities
<1>1. CASE run' = [run EXCEPT ![r].st = "ready", ![r].fence = NoAct] /\ tk'.ph = tk.ph
  <2>1. /\ run'[r].st = "ready" /\ run'[r].kind = run[r].kind
        /\ \A q \in Revs \ {r} : run'[q] = run[q] /\ ~Live(q)
    BY <1>0, <1>1, PutBackRow, OneOpen
  <2>2. \A q \in Revs : run'[q].st # "running"
    BY <2>1 DEF Live
  <2>4. Live(r)
    BY <1>0 DEF Live, RunTyped, Runs
  <2>5. ToolKnown'
    BY <1>1, <2>1, <2>4 DEF ToolKnown, HolderInv, Live
  <2> QED
    BY <1>0, <2>2, <2>5, HolderClosed
<1>2. ASSUME r < StepLimit, NEW kind \in StepKinds, Chain(r, kind), kind = "tool" => tk'.ph # "model_pending"
      PROVE  HolderInv'
  <2>1. /\ run'[r].st = "completed" /\ run'[r + 1].kind = kind
        /\ \A q \in Revs \ {r, r + 1} : run'[q] = run[q] /\ ~Live(q)
        /\ \A q \in Revs : run'[q].st # "running"
    BY <1>0, <1>2, ChainRow, OneOpen
  <2>2. ToolKnown'
    BY <1>2, <2>1 DEF ToolKnown, Live
  <2> QED
    BY <1>0, <2>1, <2>2, HolderClosed
<1> QED
  BY <1>1, <1>2

\* The Workflow's own steps.
LEMMA WorkflowHolds ==
  ASSUME StepsInv, StepsInv', ChainInv, HolderInv, WfStep \/ WfBootstrap \/ WfRecover \/ WfProbe
  PROVE  HolderInv'
<1>0. RunTyped /\ ActTyped /\ TkTyped /\ WfTyped /\ Chained /\ Unopened
  BY DEF StepsInv, ChainInv
<1>1. CASE WfStep
  <2>1. run' = run /\ tk' = tk
    BY <1>1 DEF WfStep, rows
  <2>2. CASE act' = act
    BY <2>1, <2>2, HolderRows
  <2>3. CASE act' # act
    <3>1. PICK a \in Acts : act'[a].pc = "claim" /\ \A b \in Acts \ {a} : act'[b] = act[b]
      BY <1>1, <2>3, StepRow
    <3> QED
      BY <2>1, <3>1, HolderStops DEF Alone
  <2> QED
    BY <2>2, <2>3
<1>2. CASE WfBootstrap
  <2>1. tk' = tk /\ act' = act
    BY <1>2 DEF WfBootstrap
  <2>2. CASE run' = run
    BY <2>1, <2>2, HolderRows
  <2>3. CASE run' # run
    <3>1. run[0].st = "none" /\ run' = [run EXCEPT ![0].st = "ready"] /\ tk.st = "pending" /\ 0 \in Revs
      BY <1>2, <2>3, Numbers DEF WfBootstrap
    <3>2. run'[0].st = "ready" /\ run'[0].kind = "model" /\ \A q \in Revs \ {0} : run'[q] = run[q]
      BY <1>0, <3>1 DEF RunTyped, Runs, Unopened
    <3>3. \A q \in Revs \ {0} : run[q].st = "none"
      BY <1>0, <3>1, OneOpen, Numbers DEF Revs
    <3>4. \A q \in Revs : run'[q].st # "running"
      BY <3>2, <3>3
    <3>5. ToolKnown'
      BY <3>2, <3>3 DEF ToolKnown, Live
    <3>6. \A a \in Acts : act'[a].rev \in Revs
      BY <1>0, <2>1 DEF ActTyped, Activities
    <3> QED
      BY <2>1, <3>1, <3>4, <3>5, <3>6, HolderClosed
  <2> QED
    BY <2>2, <2>3
<1>3. CASE WfRecover
  <2>0. RecoverCase /\ wf.rev \in Revs /\ act' = act
    BY <1>3, RecoverCases
  <2>1. CASE run' = run /\ tk' = tk
    BY <2>0, <2>1, HolderRows
  <2>2. CASE run' = run /\ FailRows
    <3>1. tk'.ph = tk.ph /\ (tk' = tk \/ Decided(tk'.st))
      BY <1>0, <2>2, FailTask DEF Lost, Decided, TerminalStates
    <3> QED
      BY <2>0, <2>2, <3>1, HolderRows
  <2>3. CASE /\ Scoped /\ run[wf.rev].st = "running" /\ PutBack
             /\ run' = [run EXCEPT ![wf.rev].st = "ready", ![wf.rev].fence = NoAct]
    BY <1>0, <2>0, <2>3, PutBackTask, ClosedHolds
  <2>4. CASE /\ Scoped /\ run[wf.rev].st = "running" /\ PutBack /\ wf.rev < StepLimit
             /\ \E kind \in Recovery(wf.rev) \ {"again"} : Chain(wf.rev, kind) /\ OpenWait(wf.rev, kind)
    <3>1. PICK kind \in Recovery(wf.rev) \ {"again"} : Chain(wf.rev, kind)
      BY <2>4
    <3>2. kind \in StepKinds
      BY <1>0, RecoveryTyped
    <3>3. kind = "tool" => tk.ph # "model_pending"
      BY DEF Recovery, PhaseRecovery
    <3>4. tk'.ph = tk.ph /\ tk'.st # "running"
      BY <1>0, <2>4, PutBackTask
    <3> QED
      BY <2>0, <2>4, <3>1, <3>2, <3>3, <3>4, ClosedHolds
  <2> QED
    BY <2>0, <2>1, <2>2, <2>3, <2>4 DEF RecoverCase
<1>4. CASE WfProbe
  <2>1. act' = act /\ wf.rev \in Revs
    BY <1>0, <1>4 DEF WfProbe, WfTyped, Workflows
  <2>2. \/ run' = run /\ tk' = tk
        \/ /\ tk.st = "suspended" /\ run[wf.rev].st # "completed" /\ wf.rev < StepLimit
           /\ ans[wf.rev].st \in {"waiting", "answered"}
           /\ \E kind \in {"tool", "model", "finalize"} :
                /\ Chain(wf.rev, kind)
                /\ \/ kind = "finalize" /\ tk' = [tk EXCEPT !.st = "failed"]
                   \/ tk' = [tk EXCEPT !.st = "pending", !.ph = "tool_done"]
    BY <1>4 DEF WfProbe
  <2>3. CASE run' = run /\ tk' = tk
    BY <2>1, <2>3, HolderRows
  <2>4. CASE ~(run' = run /\ tk' = tk)
    <3>1. PICK kind \in {"tool", "model", "finalize"} :
                /\ Chain(wf.rev, kind)
                /\ \/ kind = "finalize" /\ tk' = [tk EXCEPT !.st = "failed"]
                   \/ tk' = [tk EXCEPT !.st = "pending", !.ph = "tool_done"]
      BY <2>2, <2>4
    <3>2. kind \in StepKinds
      BY DEF StepKinds, IOKinds
    <3>3. tk'.st # "running" /\ (kind = "tool" => tk'.ph # "model_pending")
      BY <1>0, <3>1 DEF TkTyped, Tasks
    <3>4. run[wf.rev].st \notin {"none", "completed"} /\ wf.rev < StepLimit
      BY <1>0, <2>1, <2>2, <2>4 DEF Unopened
    <3> QED
      BY <2>1, <3>1, <3>2, <3>3, <3>4, ClosedHolds
  <2> QED
    BY <2>3, <2>4
<1> QED
  BY <1>1, <1>2, <1>3, <1>4

\* A claim makes its Activity the current one, which owes nothing before it enters; a commit
\* closes the cursor.
LEMMA CursorHolds ==
  ASSUME StepsInv, StepsInv', ChainInv, HolderInv, NEW a \in Acts, StepClaim(a) \/ Commit(a)
  PROVE  HolderInv'
<1>0. RunTyped /\ ActTyped /\ TkTyped /\ Chained
  BY DEF StepsInv, ChainInv
<1>1. (\A b \in Acts \ {a} : act'[b] = act[b]) /\ tk' = tk /\ Rev(a) \in Revs
  BY <1>0, InvokedMoves, KindTyped DEF StepClaim, Commit
<1>2. {"ok", "fatal"} \subseteq EndPcs /\ {"ok", "fatal", "lease"} \subseteq ActPcs /\ "lease" \notin EndPcs
  BY DEF EndPcs, ActPcs
<1>3. CASE run' = run
  <2>1. \E pc \in {"ok", "fatal", "lease"} : Goto(a, pc)
    BY DEF StepClaim, Commit
  <2>2. act'[a].pc \in {"ok", "fatal", "lease"}
    BY <1>0, <1>2, <2>1, GotoFrame
  <2> QED
    BY <1>1, <1>2, <1>3, <2>2, HolderStops DEF Alone
<1>4. CASE StepClaim(a) /\ run' # run
  <2>1. /\ run[Rev(a)].st = "ready" /\ run'[Rev(a)].st = "running" /\ run'[Rev(a)].fence = a
        /\ run'[Rev(a)].kind = run[Rev(a)].kind
        /\ \A q \in Revs \ {Rev(a)} : run'[q] = run[q]
        /\ act'[a].pc = "lease"
    BY <1>4, ClaimRow DEF GoesTo
  <2>2. \A q \in Revs \ {Rev(a)} : ~Live(q)
    BY <1>0, <1>1, <2>1, OneOpen
  <2>3. \A b \in Acts : ~Current(b)
    BY <1>0, <2>1, <2>2, KindTyped DEF Current, Live
  <2>4. OwnInv(a)'
    BY <2>1, OutsideOwes, OutsidePcs
  <2>5. ASSUME NEW b \in Acts \ {a} PROVE OwnInv(b)'
    <3>1. act'[b] = act[b] /\ (Holds(b)' <=> Holds(b)) /\ Rev(b) \in Revs
      BY <1>0, <1>1, KindTyped DEF Holds
    <3>2. ~Current(b)'
      <4>1. Rev(b)' = Rev(b)
        BY <3>1 DEF Rev
      <4> QED
        BY <2>1, <2>2, <3>1, <4>1 DEF Current, Live
    <3>3. ~(Holds(b) /\ act[b].pc \in Mid)
      BY <2>3 DEF HolderInv, HolderCurrent
    <3>4. {"preparing", "io", "prepared"} \subseteq Mid
      BY DEF Mid
    <3> QED
      BY <3>1, <3>2, <3>3, <3>4 DEF OwnInv, CurrentHolds, HolderCurrent, ToolPhase
  <2>6. ToolKnown'
    <3>1. Live(Rev(a))
      BY <2>1 DEF Live
    <3> QED
      BY <1>1, <2>1, <2>2, <3>1 DEF ToolKnown, HolderInv, Live
  <2> QED
    BY <2>4, <2>5, <2>6 DEF HolderInv, ToolKnown, OwnInv
<1>5. CASE Commit(a) /\ run' # run
  <2>1. /\ run[Rev(a)].st = "running" /\ Rev(a) < StepLimit
        /\ Chain(Rev(a), act[a].next) /\ Fits(tk, act[a].next)
    BY <1>5 DEF Commit, Current
  <2>2. act[a].next \in StepKinds
    BY <1>0, <2>1, NextKindsTyped DEF Fits, StepKinds, ActTyped, Activities
  <2>3. tk.st # "running" /\ (act[a].next = "tool" => tk.ph # "model_pending")
    BY <2>1 DEF Fits, NextKinds
  <2> QED
    BY <1>1, <2>1, <2>2, <2>3, ClosedHolds
<1> QED
  BY <1>3, <1>4, <1>5

\* Every step keeps that the holder of the task is the Activity at the open cursor.
LEMMA HolderInductive == StepsInv /\ ChainInv /\ Unsubmitted /\ HolderInv /\ [StepsNext]_stepsVars => HolderInv'
<1> SUFFICES ASSUME StepsInv, ChainInv, Unsubmitted, HolderInv, [StepsNext]_stepsVars PROVE HolderInv'
  OBVIOUS
<1>0. StepsInv'
  BY StepsInductive
<1>1. CASE Around
  BY <1>1, AroundRows, AroundTask, HolderRows DEF Lost, Decided, TerminalStates
<1>2. CASE UNCHANGED stepsVars
  BY <1>2, HolderRows DEF stepsVars
<1> QED
  BY <1>0, <1>1, <1>2, StepCases, InvokedHolds, WorkflowHolds, CursorHolds

----------------------------------------------------------------------------
(* Tools without a result *)

\* The revision of an owned call is the running one.
LEMMA OwnedHere ==
  ASSUME StepsInv, ChainInv, NEW o \in StepIds, Owned(o), NEW r \in Revs, run[r].st \notin {"none", "completed"}
  PROVE  r = o[1] /\ run[r].st = "running"
<1>1. o[1] \in Revs /\ run[o[1]].st = "running"
  BY DEF StepIds, Owned
<1> QED
  BY <1>1, OneOpen DEF StepsInv, ChainInv, Live

\* The current Activity, not at its call, leaves no call without a result, unless the task
\* was decided.
LEMMA NothingLoose ==
  ASSUME StepsInv, ChainInv, LooseInv, NEW a \in Acts, Current(a), act[a].pc \notin InCall \union EndPcs, tk.st \notin Lost
  PROVE  \A o \in StepIds : ~Loose(o)
<1> SUFFICES ASSUME NEW o \in StepIds, Loose(o) PROVE FALSE
  OBVIOUS
<1>1. Owned(o)
  BY DEF LooseInv
<1>2. Rev(a) \in Revs /\ run[Rev(a)].st = "running" /\ run[Rev(a)].fence = a
  BY KindTyped DEF StepsInv, Current
<1>3. Rev(a) = o[1]
  BY <1>1, <1>2, OwnedHere
<1> QED
  BY <1>1, <1>2, <1>3 DEF Owned, InCall

\* At its call it leaves at most that one.
LEMMA OneLoose ==
  ASSUME StepsInv, ChainInv, LooseInv, NEW a \in Acts, Current(a), act[a].pc \notin EndPcs, tk.st \notin Lost,
         NEW o \in StepIds, Loose(o)
  PROVE  o = StepOf(a) /\ Owned(o) /\ run[o[1]].fence = a /\ act[a].pc \in InCall
<1>1. Owned(o)
  BY DEF LooseInv
<1>2. Rev(a) \in Revs /\ run[Rev(a)].st = "running" /\ run[Rev(a)].fence = a
  BY KindTyped DEF StepsInv, Current
<1>3. Rev(a) = o[1]
  BY <1>1, <1>2, OwnedHere
<1> QED
  BY <1>1, <1>2, <1>3 DEF Owned, InCall

\* What keeps the invariant: no call is added, and one that was there is lost or owned.
LEMMA LooseKept ==
  ASSUME LooseInv, \A o \in StepIds : Loose(o)' => Loose(o),
         \A o \in StepIds : Loose(o) /\ tk.st \in Lost => tk'.st \in Lost,
         \A o \in StepIds : Loose(o) /\ Owned(o) => tk'.st \in Lost \/ Owned(o)'
  PROVE  LooseInv'
BY DEF LooseInv

\* A step that leaves cursors and ledger alone, and no running call.
LEMMA LooseLeaves ==
  ASSUME StepsInv, ChainInv, HolderInv, LooseInv, NEW a \in Acts, Alone(a), LeavesTurn(a), act[a].pc \in Mid \union {"run"},
         \A o \in StepIds : Loose(o)' => Loose(o)
  PROVE  LooseInv'
<1>1. CASE ~Holds(a) /\ tk' = tk /\ (act'[a].pc = "commit" => tk.st = "cancelled")
  <2>1. ASSUME NEW o \in StepIds, Loose(o), Owned(o) PROVE Owned(o)'
    <3>1. act'[a].pc \in EndPcs
      BY <1>1, <2>1 DEF LeavesTurn, Owned
    <3> QED
      BY <1>1, <2>1, <3>1 DEF Owned, Alone, StepOf, Rev
  <2> QED
    BY <1>1, <2>1, LooseKept
<1>2. CASE /\ Holds(a) /\ tk'.ph = tk.ph
           /\ tk'.st \in Lost \/ (tk'.st = "pending" /\ act'[a].pc \in EndPcs) \/ act[a].pc \in Mid \ InCall
  <2>1. tk.st = "running" /\ tk.st \notin Lost
    BY <1>2 DEF Holds, Lost
  <2>2. CASE tk'.st \in Lost
    BY <2>2 DEF LooseInv
  <2>3. CASE act[a].pc \in Mid \ InCall
    <3>1. Current(a) /\ act[a].pc \notin InCall \union EndPcs
      BY <1>2, <2>3 DEF HolderInv, HolderCurrent, Mid, InCall, EndPcs
    <3> QED
      BY <2>1, <3>1, NothingLoose DEF LooseInv
  <2>4. CASE tk'.st = "pending" /\ act'[a].pc \in EndPcs
    <3>1. ASSUME NEW o \in StepIds, Loose(o), Owned(o) PROVE Owned(o)'
      BY <1>2, <2>4, <3>1 DEF Owned, Alone, StepOf, Rev
    <3> QED
      BY <2>1, <3>1, LooseKept
  <2> QED
    BY <1>2, <2>2, <2>3, <2>4
<1> QED
  BY <1>1, <1>2 DEF LeavesTurn

\* A step of an Activity that is not at its call, or ends, and leaves the task alone.
LEMMA LooseStops ==
  ASSUME LooseInv, NEW a \in Acts, Alone(a), tk'.ph = tk.ph,
         tk' = tk \/ (tk.st \notin Lost /\ tk'.st = "running") \/ tk'.st \in Lost,
         act[a].pc \notin EndPcs, act[a].pc \notin InCall \/ act'[a].pc \in EndPcs,
         \A o \in StepIds : Loose(o)' => Loose(o)
  PROVE  LooseInv'
<1>1. ASSUME NEW o \in StepIds, Loose(o), Owned(o), tk'.st \notin Lost PROVE Owned(o)'
  <2>1. tk'.st \in {"pending", "running"}
    BY <1>1 DEF Owned
  <2>2. CASE run[o[1]].fence = a
    <3>1. act'[a].pc \in EndPcs
      BY <1>1, <2>2 DEF Owned, InCall
    <3> QED
      BY <1>1, <2>1, <2>2, <3>1 DEF Owned, Alone, StepOf, Rev
  <2>3. CASE run[o[1]].fence # a
    BY <1>1, <2>1, <2>3 DEF Owned, Alone, StepOf, Rev
  <2> QED
    BY <2>2, <2>3
<1>2. tk.st \in Lost => tk'.st \in Lost
  BY DEF Lost
<1> QED
  BY <1>1, <1>2, LooseKept

\* A step of the current Activity before or after its call.
LEMMA LooseGoes ==
  ASSUME StepsInv, ChainInv, LooseInv, NEW a \in Acts, Current(a), act[a].pc \notin InCall \union EndPcs, Alone(a),
         tk' = tk \/ tk.st \notin Lost,
         \A o \in StepIds : Loose(o)' => Loose(o)
  PROVE  LooseInv'
BY NothingLoose DEF LooseInv

\* Only the claim of a row makes it running (Ledger.claim), only a record completes one.
LEMMA InvokedLoose ==
  ASSUME OpsTyped, NEW a \in Acts, Invoked(a)
  PROVE  /\ ~ClaimOp(a) => \A o \in StepIds : ops'[o] \in {"running", "uncertain"} => ops[o] \in {"running", "uncertain"}
         /\ \A o \in StepIds : ops[o] = "completed" => ops'[o] = "completed"
         /\ ~Record(a) => \A o \in StepIds : ops'[o] = "completed" => ops[o] = "completed"
<1>1. CASE PrepareOp(a)
  <2>1. ops' = ops \/ (ops[StepOf(a)] = "none" /\ ops' = [ops EXCEPT ![StepOf(a)] = "prepared"])
    BY <1>1 DEF PrepareOp
  <2> QED
    BY <2>1 DEF OpsTyped
<1>2. CASE ClaimOp(a)
  <2>1. ops' = ops \/ (ops[StepOf(a)] = "prepared" /\ ops' = [ops EXCEPT ![StepOf(a)] = "running"])
    BY <1>2 DEF ClaimOp
  <2> QED
    BY <1>2, <2>1 DEF OpsTyped
<1>3. CASE ExecuteFails(a)
  <2>1. ops' = ops \/ (ops[StepOf(a)] = "running" /\ ops' = [ops EXCEPT ![StepOf(a)] = "uncertain"])
    BY <1>3 DEF ExecuteFails, UncertainOp
  <2> QED
    BY <2>1 DEF OpsTyped
<1>4. CASE Record(a)
  <2>1. ops' = ops \/ (ops[StepOf(a)] = "running" /\ ops' = [ops EXCEPT ![StepOf(a)] = "completed"])
    BY <1>4 DEF Record, Recordable
  <2> QED
    BY <1>4, <2>1 DEF OpsTyped
<1>5. CASE ops' = ops
  BY <1>5
<1> QED
  BY <1>1, <1>2, <1>3, <1>4, <1>5 DEF Invoked, TakeLease, Stop, Enter, Prepare, Request, Execute, RetryModel, RaiseFailed,
     Save, Suspend, Yield, Yielded, End, Die

\* A save of the holder, outside its call.
LEMMA LooseSaves ==
  ASSUME StepsInv, ChainInv, HolderInv, LooseInv, NEW a \in Acts, Alone(a), NEW ph, NEW nx, NEW pc \in Mid, Saves(a, ph, nx, pc),
         act[a].pc \in Mid \ InCall \/ (act[a].pc = "run" /\ Current(a)), \A o \in StepIds : Loose(o)' => Loose(o)
  PROVE  LooseInv'
<1>0. ActTyped /\ TkTyped /\ pc \in ActPcs \ EndPcs
  BY DEF StepsInv, Mid, ActPcs, EndPcs
<1>1. act[a].pc \notin InCall \union EndPcs
  BY DEF Mid, InCall, EndPcs
<1>2. CASE Holds(a)
  <2>1. Current(a) /\ tk.st \notin Lost
    BY <1>2 DEF HolderInv, HolderCurrent, Holds, Lost
  <2> QED
    BY <1>1, <2>1, LooseGoes
<1>3. CASE ~Holds(a)
  <2>1. tk' = tk /\ act'[a].pc = "busy"
    BY <1>0, <1>3, SavesFrame
  <2> QED
    BY <1>1, <2>1, LooseStops
<1> QED
  BY <1>2, <1>3

\* The call itself: its claim, its end, its result.
LEMMA CallsLoose ==
  ASSUME StepsInv, ChainInv, HolderInv, LooseInv, NEW a \in Acts, Alone(a),
         ClaimOp(a) \/ Execute(a) \/ ExecuteFails(a) \/ Record(a) \/ RetryModel(a)
  PROVE  LooseInv'
<1>0. ActTyped /\ TkTyped /\ RunTyped /\ OpsTyped /\ Rev(a) \in Revs /\ StepOf(a) \in StepIds
  BY KindTyped, StepOfTyped DEF StepsInv
<1>1. ASSUME ~ClaimOp(a) PROVE \A o \in StepIds : Loose(o)' => Loose(o)
  BY <1>0, <1>1, InvokedLoose DEF Invoked, Loose, Alone
<1>2. CASE ClaimOp(a)
  <2>1. act[a].pc = "prepared"
    BY <1>2 DEF ClaimOp
  <2>2. CASE ~(ActiveScope /\ ~MustStop(a) /\ ops[StepOf(a)] = "prepared")
    <3>1. Raise(a, "fatal") /\ ops' = ops
      BY <1>2, <2>2 DEF ClaimOp
    <3>2. \A o \in StepIds : Loose(o)' => Loose(o)
      BY <3>1 DEF Loose, Alone
    <3> QED
      BY <1>0, <2>1, <3>1, <3>2, RaiseFrame, LooseLeaves DEF Mid
  <2>3. CASE ActiveScope /\ ~MustStop(a) /\ ops[StepOf(a)] = "prepared"
    <3>1. ops' = [ops EXCEPT ![StepOf(a)] = "running"] /\ Goto(a, "started") /\ tk' = tk
      BY <1>2, <2>3 DEF ClaimOp
    <3>2. Current(a) /\ tk.st \in {"pending", "running"} /\ tk.st \notin Lost
      BY <2>3 DEF MustStop, ActiveScope, Lost
    <3>3. \A o \in StepIds : ~Loose(o)
      BY <2>1, <3>2, NothingLoose DEF InCall, EndPcs
    <3>4. Holds(a)
      BY <2>1, <3>2 DEF HolderInv, CurrentHolds, Mid, TerminalStates
    <3>5. Kind(a) = "tool" => tk.ph \in Unrecovered
      BY <2>1, <3>4 DEF HolderInv, ToolPhase
    <3>6. act'[a].pc = "started" /\ act'[a].rev = act[a].rev /\ act'[a].att = act[a].att
      BY <1>0, <3>1, GotoFrame DEF GoesTo, ActPcs, EndPcs
    <3> SUFFICES ASSUME NEW o \in StepIds, Loose(o)' PROVE Owned(o)'
      BY DEF LooseInv
    <3>7. o = StepOf(a)
      BY <1>0, <3>1, <3>3 DEF Loose, Alone, OpsTyped
    <3>8. o[1] = Rev(a) /\ run[o[1]].kind = "tool"
      BY <3>7 DEF StepOf, Loose, Alone
    <3>9. StepOf(a)' = o
      BY <3>6, <3>7 DEF StepOf, Rev
    <3>10. tk'.st \in {"pending", "running"} /\ tk'.ph \in Unrecovered
      BY <3>1, <3>2, <3>5, <3>8 DEF Kind
    <3>11. run'[o[1]].st = "running" /\ run'[o[1]].fence = a
      BY <3>2, <3>8 DEF Current, Alone
    <3> QED
      BY <3>6, <3>9, <3>10, <3>11 DEF Owned
  <2> QED
    BY <2>2, <2>3
<1>3. CASE Execute(a) \/ ExecuteFails(a)
  <2>1. \E pc \in {"executed", "failed"} : Goto(a, pc)
    BY <1>3 DEF Execute, ExecuteFails
  <2>2. act[a].pc = "started" /\ tk' = tk /\ ~ClaimOp(a)
    BY <1>3 DEF Execute, ExecuteFails, ClaimOp
  <2>3. act'[a].pc \in {"executed", "failed"} /\ act'[a].rev = act[a].rev /\ act'[a].att = act[a].att
    BY <1>0, <2>1, GotoFrame DEF GoesTo, ActPcs, EndPcs
  <2>4. ASSUME NEW o \in StepIds, Owned(o) PROVE Owned(o)'
    <3>1. CASE run[o[1]].fence = a
      <4>1. StepOf(a)' = StepOf(a) /\ StepOf(a) = o
        BY <2>2, <2>3, <2>4, <3>1 DEF StepOf, Rev, Owned, EndPcs
      <4> QED
        BY <2>2, <2>3, <2>4, <3>1, <4>1 DEF Owned, Alone
    <3>2. CASE run[o[1]].fence # a
      BY <2>2, <2>4, <3>2 DEF Owned, Alone, StepOf, Rev
    <3> QED
      BY <3>1, <3>2
  <2> QED
    BY <1>1, <2>2, <2>4, LooseKept
<1>4. CASE Record(a)
  <2>1. act[a].pc = "executed" /\ ~ClaimOp(a)
    BY <1>4 DEF Record, ClaimOp
  <2>2. CASE ~Recordable(a)
    <3>1. Raise(a, "fatal")
      BY <1>4, <2>2 DEF Record
    <3> QED
      BY <1>0, <1>1, <2>1, <3>1, RaiseFrame, LooseLeaves DEF Mid
  <2>3. CASE Recordable(a)
    <3>1. ops' = [ops EXCEPT ![StepOf(a)] = "completed"] /\ tk' = tk
      BY <1>4, <2>3 DEF Record
    <3>2. Current(a) /\ tk.st \notin Lost /\ act[a].pc \notin EndPcs
      BY <2>1, <2>3 DEF Recordable, MustStop, ActiveScope, Lost, EndPcs
    <3>3. ASSUME NEW o \in StepIds, Loose(o)' PROVE FALSE
      <4>1. Loose(o)
        BY <1>1, <2>1, <3>3
      <4>2. o = StepOf(a)
        BY <3>2, <4>1, OneLoose
      <4> QED
        BY <1>0, <3>1, <3>3, <4>2 DEF Loose, OpsTyped
    <3> QED
      BY <3>3 DEF LooseInv
  <2> QED
    BY <2>2, <2>3
<1>5. CASE RetryModel(a)
  <2>1. Current(a) /\ Kind(a) = "model" /\ act[a].pc \notin EndPcs /\ tk' = tk /\ ~ClaimOp(a)
    BY <1>5 DEF RetryModel, MustStop, EndPcs, ClaimOp
  <2>2. ASSUME NEW o \in StepIds, Loose(o), tk.st \notin Lost PROVE FALSE
    <3>1. o = StepOf(a)
      BY <2>1, <2>2, OneLoose
    <3> QED
      BY <2>1, <2>2, <3>1 DEF Loose, StepOf, Kind
  <2> QED
    BY <1>1, <2>1, <2>2 DEF LooseInv
<1> QED
  BY <1>2, <1>3, <1>4, <1>5

\* Every step of a turn keeps that a tool without a result stops the task.
LEMMA InvokedLooseInv ==
  ASSUME StepsInv, ChainInv, HolderInv, LooseInv, NEW a \in Acts, Invoked(a)
  PROVE  LooseInv'
<1>0. ActTyped /\ TkTyped /\ RunTyped /\ OpsTyped
  BY DEF StepsInv
<1>1. Alone(a) /\ act[a].pc \notin EndPcs
  BY <1>0, InvokedMoves, InvokedRows DEF Alone
<1>2. CASE ClaimOp(a) \/ Execute(a) \/ ExecuteFails(a) \/ Record(a) \/ RetryModel(a)
  BY <1>1, <1>2, CallsLoose
<1>3. CASE ~(ClaimOp(a) \/ Execute(a) \/ ExecuteFails(a) \/ Record(a) \/ RetryModel(a))
  <2>0. \A o \in StepIds : Loose(o)' => Loose(o)
    BY <1>0, <1>1, <1>3, InvokedLoose DEF Loose, Alone
  <2>1. CASE Stop(a) \/ RaiseFailed(a) \/ Suspend(a) \/ Yielded(a) \/ \E st \in {"completed", "failed"} : End(a, st)
    <3>1. act[a].pc \in Mid \union {"run"}
      BY <2>1 DEF Stop, RaiseFailed, Suspend, Yielded, End, Mid
    <3> QED
      BY <1>1, <2>0, <2>1, <3>1, EndsLeave, LooseLeaves
  <2>2. CASE Die(a)
    <3>1. act'[a].pc = "dead" /\ tk' = tk
      BY <1>0, <2>2, GotoFrame DEF Die, ActPcs
    <3> QED
      BY <1>1, <2>0, <3>1, LooseStops DEF EndPcs
  <2>3. CASE TakeLease(a)
    <3>1. act[a].pc \notin InCall
      BY <2>3 DEF TakeLease, InCall
    <3>2. tk'.ph = tk.ph /\ (tk' = tk \/ (tk.st \notin Lost /\ tk'.st = "running") \/ tk'.st \in Lost)
      BY <1>0, <2>3 DEF TakeLease, TkTyped, Tasks, Lost, TerminalStates
    <3> QED
      BY <1>1, <2>0, <3>1, <3>2, LooseStops
  <2>4. CASE Enter(a)
    <3>1. act[a].pc = "run" /\ Current(a) /\ act[a].pc \notin InCall \union EndPcs /\ {"io", "preparing"} \subseteq Mid
      BY <2>4 DEF Enter, MustStop, InCall, EndPcs, Mid
    <3>2. tk' = tk \/ Saves(a, "evaluation_pending", "none", "io") \/ Saves(a, "step_preparing", Kind(a), "preparing")
      BY <2>4 DEF Enter
    <3> QED
      BY <1>1, <2>0, <3>1, <3>2, LooseSaves, LooseGoes
  <2>5. CASE Prepare(a)
    <3>1. act[a].pc \in Mid \ InCall /\ {"io", "saved"} \subseteq Mid
      BY <2>5 DEF Prepare, InCall, Mid
    <3>2. tk' = tk \/ Saves(a, "tool_started", "none", "io") \/ Saves(a, "tool_done", "none", "saved")
      BY <2>5 DEF Prepare
    <3> QED
      BY <1>1, <2>0, <3>1, <3>2, LooseSaves, LooseStops
  <2>6. CASE Request(a) \/ Save(a) \/ \E next \in IOKinds : Yield(a, next)
    <3>1. act[a].pc \in Mid \ InCall /\ {"io", "asking", "saved", "yielding"} \subseteq Mid
      BY <2>6 DEF Request, Save, Yield, InCall, Mid
    <3>2. \E ph, nx : \E pc \in {"io", "asking", "saved", "yielding"} : Saves(a, ph, nx, pc)
      BY <2>6 DEF Request, Save, Yield
    <3> QED
      BY <1>1, <2>0, <3>1, <3>2, LooseSaves
  <2>7. CASE PrepareOp(a)
    <3>1. act[a].pc = "io" /\ "io" \in Mid \ InCall
      BY <2>7 DEF PrepareOp, InCall, Mid
    <3>2. tk' = tk \/ Raise(a, "fatal")
      BY <2>7 DEF PrepareOp
    <3> QED
      BY <1>0, <1>1, <2>0, <3>1, <3>2, RaiseFrame, LooseLeaves, LooseStops
  <2> QED
    BY <1>3, <2>1, <2>2, <2>3, <2>4, <2>5, <2>6, <2>7 DEF Invoked
<1> QED
  BY <1>2, <1>3

\* A cursor that changes its state while no call is owned.
LEMMA LooseClosed ==
  ASSUME LooseInv, \A o \in StepIds : Loose(o)' => Loose(o), \A o \in StepIds : Loose(o) => ~Owned(o),
         tk.st \in Lost => tk'.st \in Lost
  PROVE  LooseInv'
BY LooseKept

\* A revision that is opened owns no ledger row yet.
LEMMA ChainLoose ==
  ASSUME StepsInv, ChainInv, NEW r \in Revs, r < StepLimit, NEW kind \in StepKinds, Chain(r, kind),
         run[r].st \notin {"none", "completed"}, ops' = ops
  PROVE  \A o \in StepIds : Loose(o)' => Loose(o)
<1>0. RunTyped /\ Chained /\ Unopened
  BY DEF StepsInv, ChainInv
<1> SUFFICES ASSUME NEW o \in StepIds, Loose(o)' PROVE Loose(o)
  OBVIOUS
<1>1. /\ r + 1 \in Revs /\ run[r + 1].st = "none" /\ run'[r].kind = run[r].kind
      /\ \A q \in Revs \ {r, r + 1} : run'[q] = run[q]
  BY <1>0, ChainRow
<1>2. o[1] \in Revs /\ o[2] \in 1..MaxAttempts /\ o = <<o[1], o[2]>>
  BY DEF StepIds
<1>3. o[1] # r + 1
  <2> SUFFICES ASSUME o[1] = r + 1 PROVE FALSE
    OBVIOUS
  <2>1. ops[<<r + 1, o[2]>>] = "none"
    BY <1>0, <1>1, <1>2 DEF Unopened
  <2> QED
    BY <1>2, <2>1 DEF Loose
<1> QED
  BY <1>1, <1>2, <1>3 DEF Loose

\* So does every step of the Workflow: it recovers no phase in which a tool may have been started.
LEMMA WorkflowLoose ==
  ASSUME StepsInv, ChainInv, LooseInv, WfStep \/ WfBootstrap \/ WfRecover \/ WfProbe
  PROVE  LooseInv'
<1>0. RunTyped /\ ActTyped /\ TkTyped /\ OpsTyped /\ WfTyped /\ Chained /\ Unopened /\ Scheduled
  BY DEF StepsInv, ChainInv
<1>1. CASE WfStep
  <2>1. run' = run /\ tk' = tk /\ ops' = ops
    BY <1>1 DEF WfStep, rows
  <2>2. ASSUME NEW o \in StepIds, Owned(o) PROVE Owned(o)'
    <3>1. run[o[1]].fence \in Acts /\ run[o[1]].fence <= wf.act
      BY <1>0, <2>2 DEF Owned, Scheduled, StepIds
    <3>2. act'[run[o[1]].fence] = act[run[o[1]].fence]
      <4>1. wf.act \in Nat
        BY <1>0, Numbers DEF WfTyped, Workflows, Acts, NoAct
      <4>2. run[o[1]].fence # wf.act + 1
        BY <3>1, <4>1 DEF Acts
      <4> QED
        BY <1>1, <3>1, <4>2, StepRow
    <3> QED
      BY <2>1, <2>2, <3>2 DEF Owned, StepOf, Rev
  <2> QED
    BY <2>1, <2>2, LooseKept DEF Loose
<1>2. CASE WfBootstrap
  <2>1. tk' = tk /\ act' = act /\ ops' = ops
    BY <1>2 DEF WfBootstrap
  <2>2. CASE run' = run
    BY <2>1, <2>2 DEF LooseInv, Loose, Owned, StepOf, Rev
  <2>3. CASE run' # run
    <3>1. run[0].st = "none" /\ run' = [run EXCEPT ![0].st = "ready"] /\ 0 \in Revs
      BY <1>2, <2>3, Numbers DEF WfBootstrap
    <3>2. \A q \in Revs : run'[q].kind = run[q].kind
      BY <1>0, <3>1 DEF RunTyped, Runs
    <3>3. \A q \in Revs : run[q].st = "none"
      BY <1>0, <3>1, OneOpen, Numbers DEF Revs
    <3>4. \A o \in StepIds : ~Owned(o)
      BY <3>3 DEF Owned, StepIds
    <3>5. \A o \in StepIds : Loose(o)' => Loose(o)
      BY <2>1, <3>2 DEF Loose, StepIds
    <3> QED
      BY <2>1, <3>4, <3>5, LooseClosed
  <2> QED
    BY <2>2, <2>3
<1>3. CASE WfRecover
  <2>0. RecoverCase /\ wf.rev \in Revs /\ act' = act
    BY <1>3, RecoverCases
  <2>1. CASE run' = run /\ tk' = tk /\ ops' = ops
    BY <2>0, <2>1 DEF LooseInv, Loose, Owned, StepOf, Rev
  <2>2. CASE run' = run /\ FailRows
    <3>1. (tk' = tk \/ tk'.st \in Lost) /\ ops' \in {ops, FencedOps}
      BY <1>0, <2>2, FailTask
    <3>2. \A o \in StepIds : Loose(o)' => Loose(o)
      BY <1>0, <2>2, <3>1, FencedRows DEF Loose
    <3> QED
      BY <2>0, <2>2, <3>1, <3>2 DEF LooseInv, Owned, StepOf, Rev
  <2>3. ASSUME Scoped, run[wf.rev].st = "running", Recovery(wf.rev) # {}, NEW o \in StepIds, Owned(o) PROVE FALSE
    <3>1. tk.st \in {"pending", "running"} /\ tk.ph \in {"tool_started", "step_preparing"}
      BY <2>3 DEF Owned, Unrecovered
    <3> QED
      BY <2>3, <3>1 DEF Recovery, PhaseRecovery
  <2>4. ASSUME PutBack, Scoped PROVE tk.st \in Lost => tk'.st \in Lost
    BY <1>0, <2>4, PutBackTask DEF Lost
  <2>5. CASE /\ Scoped /\ run[wf.rev].st = "running" /\ PutBack /\ ops' = ops /\ "again" \in Recovery(wf.rev)
             /\ run' = [run EXCEPT ![wf.rev].st = "ready", ![wf.rev].fence = NoAct]
    <3>1. \A q \in Revs : run'[q].kind = run[q].kind
      BY <1>0, <2>0, <2>5, PutBackRow
    <3>2. \A o \in StepIds : Loose(o)' => Loose(o)
      BY <2>5, <3>1 DEF Loose, StepIds
    <3> QED
      BY <2>3, <2>4, <2>5, <3>2, LooseClosed
  <2>6. CASE /\ Scoped /\ run[wf.rev].st = "running" /\ PutBack /\ ops' = ops /\ wf.rev < StepLimit
             /\ \E kind \in Recovery(wf.rev) \ {"again"} : Chain(wf.rev, kind) /\ OpenWait(wf.rev, kind)
    <3>1. PICK kind \in Recovery(wf.rev) \ {"again"} : Chain(wf.rev, kind)
      BY <2>6
    <3>2. kind \in StepKinds
      BY <1>0, RecoveryTyped
    <3>3. \A o \in StepIds : Loose(o)' => Loose(o)
      BY <2>0, <2>6, <3>1, <3>2, ChainLoose
    <3> QED
      BY <2>3, <2>4, <2>6, <3>3, LooseClosed
  <2> QED
    BY <2>0, <2>1, <2>2, <2>5, <2>6 DEF RecoverCase
<1>4. CASE WfProbe
  <2>1. act' = act /\ ops' = ops /\ wf.rev \in Revs
    BY <1>0, <1>4 DEF WfProbe, WfTyped, Workflows
  <2>2. \/ run' = run /\ tk' = tk
        \/ /\ tk.st = "suspended" /\ run[wf.rev].st # "completed" /\ wf.rev < StepLimit
           /\ ans[wf.rev].st \in {"waiting", "answered"}
           /\ \E kind \in StepKinds : Chain(wf.rev, kind)
    BY <1>4 DEF WfProbe, StepKinds, IOKinds
  <2>3. CASE run' = run /\ tk' = tk
    BY <2>1, <2>3 DEF LooseInv, Loose, Owned, StepOf, Rev
  <2>4. CASE ~(run' = run /\ tk' = tk)
    <3>1. run[wf.rev].st \notin {"none", "completed"}
      BY <1>0, <2>1, <2>2, <2>4 DEF Unopened
    <3>2. \A o \in StepIds : Loose(o)' => Loose(o)
      BY <2>1, <2>2, <2>4, <3>1, ChainLoose
    <3>3. \A o \in StepIds : ~Owned(o) /\ tk.st \notin Lost
      BY <2>2, <2>4 DEF Owned, Lost
    <3> QED
      BY <3>2, <3>3 DEF LooseInv
  <2> QED
    BY <2>3, <2>4
<1> QED
  BY <1>1, <1>2, <1>3, <1>4

\* So do the claim and the commit of a cursor.
LEMMA CursorLoose ==
  ASSUME StepsInv, ChainInv, LooseInv, NEW a \in Acts, StepClaim(a) \/ Commit(a)
  PROVE  LooseInv'
<1>0. RunTyped /\ ActTyped /\ TkTyped /\ Chained /\ Rev(a) \in Revs
  BY KindTyped DEF StepsInv, ChainInv
<1>1. (\A b \in Acts \ {a} : act'[b] = act[b]) /\ act[a].pc \notin EndPcs /\ tk' = tk /\ ops' = ops
  BY <1>0, InvokedMoves DEF StepClaim, Commit
<1>2. act[a].pc \notin InCall
  BY DEF StepClaim, Commit, InCall
<1>3. CASE run' = run
  <2>1. \A o \in StepIds : Loose(o)' => Loose(o)
    BY <1>1, <1>3 DEF Loose
  <2> QED
    BY <1>1, <1>2, <1>3, <2>1, LooseStops DEF Alone
<1>4. CASE StepClaim(a) /\ run' # run
  <2>1. /\ run[Rev(a)].st = "ready" /\ run'[Rev(a)].kind = run[Rev(a)].kind
        /\ \A q \in Revs \ {Rev(a)} : run'[q] = run[q]
    BY <1>4, ClaimRow
  <2>2. \A o \in StepIds : ~Owned(o)
    BY <1>0, <2>1, OwnedHere
  <2>3. \A q \in Revs : run'[q].kind = run[q].kind
    BY <2>1
  <2>4. \A o \in StepIds : Loose(o)' => Loose(o)
    BY <1>1, <2>3 DEF Loose, StepIds
  <2> QED
    BY <1>1, <2>2, <2>4, LooseClosed
<1>5. CASE Commit(a) /\ run' # run
  <2>1. /\ run[Rev(a)].st = "running" /\ Rev(a) < StepLimit /\ Current(a)
        /\ Chain(Rev(a), act[a].next) /\ Fits(tk, act[a].next)
    BY <1>5 DEF Commit, Current
  <2>2. act[a].next \in StepKinds
    BY <1>0, <2>1, NextKindsTyped DEF Fits, StepKinds, ActTyped, Activities
  <2>3. \A o \in StepIds : Loose(o)' => Loose(o)
    BY <1>0, <1>1, <2>1, <2>2, ChainLoose
  <2>4. \A o \in StepIds : Loose(o) => ~Owned(o)
    <3> SUFFICES ASSUME NEW o \in StepIds, Loose(o), Owned(o) PROVE FALSE
      OBVIOUS
    <3>1. tk.st \notin Lost
      BY DEF Owned, Lost
    <3> QED
      BY <1>1, <1>2, <2>1, <3>1, NothingLoose
  <2> QED
    BY <1>1, <2>3, <2>4, LooseClosed
<1> QED
  BY <1>3, <1>4, <1>5

\* Every step keeps that a tool without a result stops the task.
LEMMA LooseInductive ==
  StepsInv /\ ChainInv /\ Unsubmitted /\ HolderInv /\ LooseInv /\ [StepsNext]_stepsVars => LooseInv'
<1> SUFFICES ASSUME StepsInv, ChainInv, Unsubmitted, HolderInv, LooseInv, [StepsNext]_stepsVars PROVE LooseInv'
  OBVIOUS
<1>0. OpsTyped
  BY DEF StepsInv
<1>1. CASE Around
  <2>1. run' = run /\ act' = act /\ ops' \in {ops, FencedOps}
    BY <1>1, AroundRows
  <2>2. \A o \in StepIds : Loose(o)' => Loose(o)
    BY <1>0, <2>1, FencedRows DEF Loose
  <2>3. tk' = tk \/ (tk.st \notin TerminalStates /\ tk'.st \in Lost) \/ (tk.st = "none" /\ tk'.st = "pending")
    BY <1>1, AroundTask
  <2>4. tk.st = "none" => \A o \in StepIds : ~Loose(o)
    BY DEF LooseInv, Owned, Lost
  <2> QED
    BY <2>1, <2>2, <2>3, <2>4 DEF LooseInv, Owned, StepOf, Rev
<1>2. CASE UNCHANGED stepsVars
  BY <1>2 DEF stepsVars, LooseInv, Loose, Owned, StepOf, Rev
<1> QED
  BY <1>1, <1>2, StepCases, InvokedLooseInv, WorkflowLoose, CursorLoose

----------------------------------------------------------------------------
(* Calls and results *)

\* Only Execute, and a call that raises after it was made, add to the effects; the call is the
\* one the Activity has claimed and nobody made.
LEMMA EffectsBy ==
  ASSUME StepsInv, StepsNext
  PROVE  \/ effects' = effects
         \/ \E a \in Acts : /\ Execute(a) \/ ExecuteFails(a)
                            /\ effects' = [effects EXCEPT ![StepOf(a)] = @ + 1]
<1>1. CASE Around
  BY <1>1, AroundRows
<1>2. CASE WfStep \/ WfBootstrap \/ WfRecover \/ WfProbe \/ \E a \in Acts : StepClaim(a) \/ Commit(a)
  BY <1>2 DEF WfStep, WfBootstrap, WfRecover, WfProbe, StepClaim, Commit
<1>3. ASSUME NEW a \in Acts, Invoked(a), ~(Execute(a) \/ ExecuteFails(a)) PROVE effects' = effects
  BY <1>3 DEF Invoked, TakeLease, Stop, Enter, Prepare, Request, PrepareOp, ClaimOp, RetryModel, RaiseFailed,
     Record, Save, Suspend, Yield, Yielded, End, Die
<1>4. ASSUME NEW a \in Acts, Execute(a) \/ ExecuteFails(a)
      PROVE  effects' = effects \/ effects' = [effects EXCEPT ![StepOf(a)] = @ + 1]
  BY <1>4 DEF Execute, ExecuteFails
<1> QED
  BY <1>1, <1>2, <1>3, <1>4, StepCases

\* An Activity becomes executed by its call only.
LEMMA ExecutedInductive == StepsInv /\ ChainInv /\ ExecutedCalled /\ [StepsNext]_stepsVars => ExecutedCalled'
<1> SUFFICES ASSUME StepsInv, ChainInv, ExecutedCalled, [StepsNext]_stepsVars PROVE ExecutedCalled'
  OBVIOUS
<1>0. ActTyped /\ EffectsTyped /\ OpsTyped
  BY DEF StepsInv
<1>1. \A o \in StepIds : effects[o] > 0 => effects'[o] > 0
  <2>1. CASE effects' = effects
    BY <2>1
  <2>2. ASSUME NEW a \in Acts, effects' = [effects EXCEPT ![StepOf(a)] = @ + 1]
        PROVE  \A o \in StepIds : effects[o] > 0 => effects'[o] > 0
    BY <1>0, <2>2, StepOfTyped DEF EffectsTyped
  <2> QED
    BY <2>1, <2>2, EffectsBy DEF stepsVars
<1>2. ASSUME NEW a \in Acts, act'[a] = act[a] PROVE act'[a].pc = "executed" => effects'[StepOf(a)'] > 0
  <2>1. StepOf(a)' = StepOf(a) /\ StepOf(a) \in StepIds
    BY <1>0, <1>2, StepOfTyped DEF StepOf, Rev
  <2> QED
    BY <1>1, <1>2, <2>1 DEF ExecutedCalled
<1>3. CASE act' = act
  BY <1>2, <1>3 DEF ExecutedCalled
<1>4. ASSUME NEW a \in Acts, Execute(a) PROVE ExecutedCalled'
  <2>1. act'[a].rev = act[a].rev /\ act'[a].att = act[a].att /\ \A b \in Acts \ {a} : act'[b] = act[b]
    BY <1>0, <1>4, GotoFrame DEF Execute, GoesTo, ActPcs, EndPcs
  <2>2. StepOf(a)' = StepOf(a) /\ StepOf(a) \in StepIds
    BY <1>0, <2>1, StepOfTyped DEF StepOf, Rev
  <2>3. effects'[StepOf(a)] > 0
    BY <1>0, <1>4, <2>2 DEF Execute, EffectsTyped
  <2> QED
    BY <1>2, <2>1, <2>2, <2>3 DEF ExecutedCalled
<1>5. ASSUME NEW a \in Acts, act'[a].pc # "executed", \A b \in Acts \ {a} : act'[b] = act[b] PROVE ExecutedCalled'
  BY <1>2, <1>5 DEF ExecutedCalled
<1>6. ASSUME NEW a \in Acts, Invoked(a) \/ StepClaim(a) \/ Commit(a), ~Execute(a) PROVE act'[a].pc # "executed"
  <2>1. ASSUME NEW pc \in ActPcs \ {"executed"}, Goto(a, pc) PROVE act'[a].pc # "executed"
    BY <1>0, <2>1, GotoFrame
  <2>2. ASSUME NEW kind, CommitNext(a, kind) PROVE act'[a].pc # "executed"
    BY <1>0, <2>2, CommitFrame DEF GoesTo
  <2>3. ASSUME NEW ph, NEW nx, NEW pc \in ActPcs \ {"executed"}, Saves(a, ph, nx, pc) PROVE act'[a].pc # "executed"
    BY <2>1, <2>3 DEF Saves, ActPcs
  <2>4. ASSUME NEW st, NEW next, Finishes(a, st, next) PROVE act'[a].pc # "executed"
    BY <2>1, <2>2, <2>4 DEF Finishes, ActPcs
  <2>5. ASSUME NEW st, Returns(a, st) PROVE act'[a].pc # "executed"
    BY <2>2, <2>4, <2>5 DEF Returns
  <2>6. ASSUME NEW how \in {"busy", "fatal"}, Raise(a, how) PROVE act'[a].pc # "executed"
    BY <2>1, <2>6 DEF Raise, ActPcs
  <2>7. CASE TakeLease(a) \/ StepClaim(a) \/ Commit(a) \/ Die(a) \/ ExecuteFails(a)
    BY <2>7, <2>1, <2>2 DEF TakeLease, StepClaim, Commit, Die, ExecuteFails, ActPcs
  <2>8. CASE Enter(a) \/ Prepare(a) \/ RetryModel(a)
    BY <2>8, <2>1, <2>3, <1>0 DEF Enter, Prepare, RetryModel, ActTyped, Activities, ActPcs
  <2>9. CASE Request(a) \/ Save(a) \/ (\E next \in IOKinds : Yield(a, next))
    BY <2>9, <2>3 DEF Request, Save, Yield, ActPcs
  <2>10. CASE Stop(a) \/ (\E st \in {"completed", "failed"} : End(a, st))
    BY <2>10, <2>5 DEF Stop, End
  <2>11. CASE PrepareOp(a) \/ ClaimOp(a) \/ Record(a)
    BY <2>11, <2>1, <2>6 DEF PrepareOp, ClaimOp, Record, ActPcs
  <2>12. CASE RaiseFailed(a) \/ Suspend(a) \/ Yielded(a)
    BY <2>12, <2>4, <2>6 DEF RaiseFailed, Suspend, Yielded
  <2> QED
    BY <1>6, <2>7, <2>8, <2>9, <2>10, <2>11, <2>12 DEF Invoked
<1>7. CASE WfStep
  <2>1. CASE act' # act
    <3>1. PICK a \in Acts : act'[a].pc = "claim" /\ \A b \in Acts \ {a} : act'[b] = act[b]
      BY <1>7, <2>1, StepRow
    <3> QED
      BY <1>5, <3>1
  <2> QED
    BY <1>3, <2>1
<1>8. CASE WfBootstrap \/ WfRecover \/ WfProbe \/ Around
  BY <1>3, <1>8, AroundRows DEF WfBootstrap, WfRecover, WfProbe
<1>9. CASE UNCHANGED stepsVars
  BY <1>3, <1>9 DEF stepsVars
<1> QED
  BY <1>0, <1>4, <1>5, <1>6, <1>7, <1>8, <1>9, StepCases, InvokedMoves

\* A task that is not submitted satisfies the invariant.
LEMMA ContractInitial == StepsInit => ContractInv
<1> SUFFICES ASSUME StepsInit PROVE ContractInv
  OBVIOUS
<1>1. /\ \A a \in Acts : act[a].pc = "unused"
      /\ \A r \in Revs : run[r].st = "none" /\ run[r].kind = "model" /\ run[r].fence = NoAct /\ ans[r].st = "none"
      /\ \A o \in StepIds : ops[o] = "none"
      /\ wf.act = NoAct /\ wf.st = "none" /\ tk.st = "none" /\ disp = "idle" /\ tk.ph = "temporal_pending" /\ tk.lease = NoAct
  BY DEF StepsInit, Activity
<1>2. ChainInv
  <2>1. \A r \in Revs : \A k \in 1..MaxAttempts : <<r, k>> \in StepIds
    BY DEF StepIds
  <2> QED
    BY <1>1, <2>1 DEF ChainInv, Chained, Unopened, Scheduled, NoAct
<1>3. HolderInv
  BY <1>1, OutsidePcs DEF HolderInv, CurrentHolds, HolderCurrent, ToolPhase, Holds, Live, Current, Rev
<1>4. LooseInv /\ ExecutedCalled /\ Unsubmitted
  BY <1>1 DEF LooseInv, Loose, ExecutedCalled, Unsubmitted
<1> QED
  BY <1>2, <1>3, <1>4 DEF ContractInv

\* Every step keeps the invariant.
LEMMA ContractInductive == StepsInv /\ ContractInv /\ [StepsNext]_stepsVars => ContractInv'
BY ChainInductive, UnsubmittedInductive, HolderInductive, LooseInductive, ExecutedInductive DEF ContractInv

----------------------------------------------------------------------------
(* The step protocol implements the contract of a durable task *)

Risky == {o \in Made : run[o[1]].kind = "tool"}
Known == {o \in StepIds : ops[o] = "completed"}
Undecided == OpenSub \union {"none"}
Outcome == CASE sub \in Undecided -> "open" [] sub = "uncertain" -> "unknown" [] OTHER -> sub
ContractStep == [Contract!ContractNext]_(Contract!contractVars)

\* The four ways in which a step of the protocol is one of the contract's.
LEMMA Stutters ==
  ASSUME Made' = Made, Risky' = Risky, Known' = Known, Outcome' = Outcome
  PROVE  ContractStep
BY DEF ContractStep, Contract!contractVars, Risky, Known, Outcome, Undecided

\* A call that was not made is made.
LEMMA Calls ==
  ASSUME NEW c \in StepIds, c \notin Made, Made' = Made \union {c}, Risky' \in {Risky, Risky \union {c}},
         Known' = Known, Outcome' = Outcome
  PROVE  ContractStep
<1>1. Contract!MakeCall(c)
  BY DEF Contract!MakeCall, Risky, Known, Outcome, Undecided
<1> QED
  BY <1>1 DEF ContractStep, Contract!ContractNext

\* The result of a call that was made is recorded while the task is open.
LEMMA Learns ==
  ASSUME NEW c \in StepIds, c \in Made \ Known, Outcome = "open", Known' = Known \union {c},
         Made' = Made, Risky' = Risky, Outcome' = Outcome
  PROVE  ContractStep
<1>1. Contract!Learn(c)
  BY DEF Contract!Learn, Risky, Known, Outcome, Undecided
<1> QED
  BY <1>1 DEF ContractStep, Contract!ContractNext

\* The task is decided, not for success while the result of a tool is unknown.
LEMMA Decides ==
  ASSUME Outcome = "open", Outcome' \in {"completed", "failed", "cancelled", "unknown"},
         Outcome' = "completed" => Risky \subseteq Known,
         Made' = Made, Risky' = Risky, Known' = Known
  PROVE  ContractStep
<1>1. Contract!Decide(Outcome')
  BY DEF Contract!Decide, Risky, Known, Outcome, Undecided
<1>2. Outcome' \in Contract!Outcomes
  BY DEF Contract!Outcomes
<1> QED
  BY <1>1, <1>2 DEF ContractStep, Contract!ContractNext

\* How the cursors of a task move: one is completed and the next one opened, or one is opened,
\* claimed or put back (StepStore._commit, step_claim, recover, bootstrap).
LEMMA CursorMoves ==
  ASSUME StepsInv, ChainInv, StepsNext
  PROVE  \/ run' = run
         \/ \E r \in Revs, kind \in StepKinds : r < StepLimit /\ run[r].st \notin {"none", "completed"} /\ Chain(r, kind)
         \/ \E r \in Revs : /\ run[r].st # "completed" /\ run'[r].st \in {"ready", "running"}
                            /\ run'[r].kind = run[r].kind /\ \A q \in Revs \ {r} : run'[q] = run[q]
<1>0. RunTyped /\ ActTyped /\ TkTyped /\ OpsTyped /\ WfTyped /\ Chained /\ Unopened
  BY DEF StepsInv, ChainInv
<1> DEFINE Onward == \E r \in Revs, kind \in StepKinds : r < StepLimit /\ run[r].st \notin {"none", "completed"} /\ Chain(r, kind)
           Reopens == \E r \in Revs : /\ run[r].st # "completed" /\ run'[r].st \in {"ready", "running"}
                                      /\ run'[r].kind = run[r].kind /\ \A q \in Revs \ {r} : run'[q] = run[q]
<1>1. ASSUME NEW a \in Acts, StepClaim(a), run' # run PROVE Reopens
  BY <1>1, ClaimRow
<1>2. ASSUME NEW a \in Acts, Commit(a), run' # run PROVE Onward
  <2>1. run[Rev(a)].st = "running" /\ Rev(a) < StepLimit /\ Chain(Rev(a), act[a].next) /\ Fits(tk, act[a].next)
    BY <1>2 DEF Commit, Current
  <2>2. act[a].next \in StepKinds /\ Rev(a) \in Revs
    BY <1>0, <2>1, NextKindsTyped, KindTyped DEF Fits, StepKinds, ActTyped, Activities
  <2> QED
    BY <2>1, <2>2
<1>3. CASE WfBootstrap /\ run' # run
  <2>1. run[0].st = "none" /\ run' = [run EXCEPT ![0].st = "ready"] /\ 0 \in Revs
    BY <1>3, Numbers DEF WfBootstrap
  <2>2. run'[0].st = "ready" /\ run'[0].kind = run[0].kind /\ \A q \in Revs \ {0} : run'[q] = run[q]
    BY <1>0, <2>1 DEF RunTyped, Runs
  <2> QED
    BY <2>1, <2>2
<1>4. CASE WfRecover /\ run' # run
  <2>0. RecoverCase /\ wf.rev \in Revs
    BY <1>4, RecoverCases
  <2>1. CASE run[wf.rev].st = "running" /\ run' = [run EXCEPT ![wf.rev].st = "ready", ![wf.rev].fence = NoAct]
    BY <1>0, <2>0, <2>1, PutBackRow
  <2>2. CASE /\ run[wf.rev].st = "running" /\ wf.rev < StepLimit
             /\ \E kind \in Recovery(wf.rev) \ {"again"} : Chain(wf.rev, kind)
    BY <1>0, <2>0, <2>2, RecoveryTyped
  <2> QED
    BY <1>4, <2>0, <2>1, <2>2 DEF RecoverCase
<1>5. CASE WfProbe /\ run' # run
  <2>1. /\ run[wf.rev].st # "completed" /\ wf.rev < StepLimit /\ ans[wf.rev].st \in {"waiting", "answered"}
        /\ \E kind \in StepKinds : Chain(wf.rev, kind)
    BY <1>5 DEF WfProbe, StepKinds, IOKinds
  <2>2. wf.rev \in Revs /\ run[wf.rev].st # "none"
    BY <1>0, <2>1 DEF WfTyped, Workflows, Unopened
  <2> QED
    BY <2>1, <2>2
<1>6. (Around \/ WfStep \/ (\E a \in Acts : Invoked(a))) => run' = run
  BY <1>0, AroundRows, InvokedRows DEF WfStep, rows
<1> QED
  BY <1>1, <1>2, <1>3, <1>4, <1>5, <1>6, StepCases

\* An open cursor stays open and keeps its kind, and a completed one is never reopened.
LEMMA CursorsStay ==
  ASSUME StepsInv, ChainInv, StepsNext
  PROVE  \A r \in Revs : /\ run[r].st # "none" => run'[r].st # "none" /\ run'[r].kind = run[r].kind
                         /\ run[r].st = "completed" => run'[r].st = "completed"
<1>0. RunTyped /\ Chained
  BY DEF StepsInv, ChainInv
<1>1. ASSUME NEW q \in Revs, NEW kind \in StepKinds, q < StepLimit, run[q].st \notin {"none", "completed"}, Chain(q, kind)
      PROVE  \A r \in Revs : /\ run[r].st # "none" => run'[r].st # "none" /\ run'[r].kind = run[r].kind
                             /\ run[r].st = "completed" => run'[r].st = "completed"
  BY <1>0, <1>1, ChainRow
<1> QED
  BY <1>1, CursorMoves

\* The kind of a revision that exists does not change.
LEMMA KindsStay ==
  ASSUME StepsInv, ChainInv, StepsNext, NEW r \in Revs, run[r].st # "none"
  PROVE  run'[r].kind = run[r].kind
BY CursorsStay

\* A call that was made belongs to a revision that exists: its risk does not change.
LEMMA RiskStays ==
  ASSUME StepsInv, OnceInv, ChainInv, StepsNext, effects' = effects
  PROVE  Made' = Made /\ Risky' = Risky
<1>1. Made' = Made
  BY DEF Made
<1>2. ASSUME NEW o \in Made PROVE run'[o[1]].kind = run[o[1]].kind
  <2>1. o \in StepIds /\ effects[o] > 0
    BY <1>2 DEF Made
  <2>2. o[1] \in Revs /\ o[2] \in 1..MaxAttempts /\ o = <<o[1], o[2]>>
    BY <2>1 DEF StepIds
  <2>3. ops[o] # "none"
    BY <2>1 DEF OnceInv, CalledClaimed, Claimed
  <2>4. run[o[1]].st # "none"
    BY <2>2, <2>3 DEF ChainInv, Unopened
  <2> QED
    BY <2>2, <2>4, KindsStay
<1> QED
  BY <1>1, <1>2 DEF Risky

\* A result becomes known by being recorded, and stays known.
LEMMA KnownBy ==
  ASSUME StepsInv, StepsNext
  PROVE  \/ Known' = Known
         \/ \E a \in Acts : Record(a) /\ Recordable(a) /\ Known' = Known \union {StepOf(a)}
<1>0. OpsTyped /\ ActTyped /\ TkTyped
  BY DEF StepsInv
<1>1. ASSUME ops' \in {ops, FencedOps} PROVE Known' = Known
  BY <1>0, <1>1, FencedRows DEF Known
<1>2. ASSUME NEW a \in Acts, NEW st \in {"prepared", "running", "uncertain"}, ops[StepOf(a)] # "completed",
             ops' = [ops EXCEPT ![StepOf(a)] = st]
      PROVE  Known' = Known
  BY <1>0, <1>2, StepOfTyped DEF Known, OpsTyped
<1>3. ASSUME NEW a \in Acts, Invoked(a), ~Record(a) PROVE Known' = Known
  <2>1. \/ ops' = ops
        \/ \E st \in {"prepared", "running", "uncertain"} :
             ops[StepOf(a)] # "completed" /\ ops' = [ops EXCEPT ![StepOf(a)] = st]
    BY <1>3 DEF Invoked, TakeLease, Stop, Enter, Prepare, Request, PrepareOp, ClaimOp, Execute, ExecuteFails, UncertainOp,
       RetryModel, RaiseFailed, Save, Suspend, Yield, Yielded, End, Die
  <2>2. CASE ops' = ops
    BY <1>1, <2>2
  <2>3. ASSUME NEW st \in {"prepared", "running", "uncertain"}, ops[StepOf(a)] # "completed",
               ops' = [ops EXCEPT ![StepOf(a)] = st]
        PROVE  Known' = Known
    BY <1>2, <2>3
  <2> QED
    BY <2>1, <2>2, <2>3
<1>4. ASSUME NEW a \in Acts, Record(a)
      PROVE  Known' = Known \/ (Recordable(a) /\ Known' = Known \union {StepOf(a)})
  <2>1. CASE Recordable(a)
    <3>1. ops' = [ops EXCEPT ![StepOf(a)] = "completed"] /\ StepOf(a) \in StepIds
      BY <1>0, <1>4, <2>1, StepOfTyped DEF Record
    <3> QED
      BY <1>0, <2>1, <3>1 DEF Known, OpsTyped
  <2>2. CASE ~Recordable(a)
    <3>1. ops' = ops
      BY <1>4, <2>2 DEF Record
    <3> QED
      BY <1>1, <3>1
  <2> QED
    BY <2>1, <2>2
<1>5. CASE WfStep \/ WfBootstrap \/ WfRecover \/ WfProbe \/ \E a \in Acts : StepClaim(a) \/ Commit(a)
  <2>1. CASE WfRecover
    <3>1. ops' \in {ops, FencedOps}
      BY <1>0, <2>1, RecoverCases, FailTask DEF RecoverCase
    <3> QED
      BY <1>1, <3>1
  <2>2. CASE ~WfRecover
    BY <1>1, <1>5, <2>2 DEF WfStep, WfBootstrap, WfProbe, StepClaim, Commit, rows
  <2> QED
    BY <2>1, <2>2
<1> QED
  BY <1>1, <1>3, <1>4, <1>5, StepCases, AroundRows

\* The outcome is decided once, and only finalize decides for success.
LEMMA OutcomeBy ==
  ASSUME StepsInv, StepsNext
  PROVE  \/ Outcome' = Outcome
         \/ /\ Outcome = "open" /\ Outcome' \in {"completed", "failed", "cancelled", "unknown"}
            /\ Outcome' = "completed" => tk.st = "completed"
<1>1. CASE sub' = sub \/ (sub \in Undecided /\ sub' \in Undecided)
  <2>1. CASE sub' = sub
    BY <2>1 DEF Outcome
  <2>2. CASE sub \in Undecided /\ sub' \in Undecided
    <3>1. Outcome = "open" /\ Outcome' = "open"
      BY <2>2 DEF Outcome, Undecided, OpenSub
    <3> QED
      BY <3>1
  <2> QED
    BY <1>1, <2>1, <2>2
<1>2. CASE sub \in OpenSub /\ sub' \in {"failed", "cancelled", "uncertain"}
  BY <1>2 DEF Outcome, Undecided, OpenSub
<1>3. CASE sub = "running" /\ sub' \in {"completed", "failed"} /\ sub' = tk.st
  BY <1>3 DEF Outcome, Undecided, OpenSub
<1>4. CASE CancelRows \/ FailRows
  BY <1>1, <1>2, <1>4 DEF CancelRows, FailRows
<1>5. CASE Around /\ ~(CancelRows \/ FailRows)
  BY <1>1, <1>2, <1>3, <1>5 DEF Around, Client, Submit, DispatchCheck, DispatchStart, DispatchCancel, Reconcile, Signal, Expire, Cancel,
     DispatchExpired, DispatchLost, Answer, WfAdopt, WfResult, WfFails, WfRetries, WfBefore, WfWakes, WfFinalize, WfCanceled,
     WfGivesUp, WfDies, OnlyWf, rows, Undecided, OpenSub
<1>6. CASE (WfStep \/ WfBootstrap \/ WfRecover \/ WfProbe \/ \E a \in Acts : StepClaim(a) \/ Commit(a)) /\ ~FailRows
  BY <1>1, <1>6 DEF WfStep, WfBootstrap, WfRecover, WfProbe, StepClaim, Commit, rows
<1>7. ASSUME NEW a \in Acts, Invoked(a) PROVE sub' = sub
  BY <1>7, InvokedRows DEF StepsInv
<1> QED
  BY <1>1, <1>4, <1>5, <1>6, <1>7, StepCases

\* What was called by a tool step and is not known keeps the task from success.
LEMMA NothingRisked ==
  ASSUME OnceInv, LooseInv, tk.st = "completed"
  PROVE  Risky \subseteq Known
<1> SUFFICES ASSUME NEW o \in Risky PROVE ops[o] = "completed" /\ o \in StepIds
  BY DEF Known
<1>1. o \in StepIds /\ effects[o] > 0 /\ run[o[1]].kind = "tool"
  BY DEF Risky, Made
<1>2. ops[o] \in {"running", "uncertain", "completed"}
  BY <1>1 DEF OnceInv, CalledClaimed, Claimed
<1>3. ~Loose(o)
  BY <1>1 DEF LooseInv, Owned, Lost
<1> QED
  BY <1>1, <1>2, <1>3 DEF Loose

\* A call in flight is made: by an Activity that started it, once.
LEMMA CallsOnce ==
  ASSUME StepsInv, OnceInv, NEW a \in Acts, Execute(a) \/ ExecuteFails(a),
         effects' = [effects EXCEPT ![StepOf(a)] = @ + 1]
  PROVE  ContractStep
<1>0. ActTyped /\ EffectsTyped /\ OpsTyped /\ StepOf(a) \in StepIds
  BY StepOfTyped DEF StepsInv
<1>1. effects[StepOf(a)] = 0
  BY DEF Execute, ExecuteFails, OnceInv, StartedFresh, Started
<1>2. run' = run /\ sub' = sub
  BY DEF Execute, ExecuteFails, OnlyAct
<1>3. StepOf(a) \notin Made /\ Made' = Made \union {StepOf(a)}
  BY <1>0, <1>1 DEF Made, EffectsTyped
<1>4. Risky' \in {Risky, Risky \union {StepOf(a)}}
  <2>1. CASE run[StepOf(a)[1]].kind = "tool"
    BY <1>2, <1>3, <2>1 DEF Risky
  <2>2. CASE run[StepOf(a)[1]].kind # "tool"
    BY <1>2, <1>3, <2>2 DEF Risky
  <2> QED
    BY <2>1, <2>2
<1>5. Known' = Known
  BY <1>0 DEF Execute, ExecuteFails, UncertainOp, Known, OpsTyped
<1>6. Outcome' = Outcome
  BY <1>2 DEF Outcome
<1> QED
  BY <1>0, <1>3, <1>4, <1>5, <1>6, Calls

\* Every step of the protocol is a step of the contract or changes nothing of it.
LEMMA StepsImplement ==
  ASSUME StepsInv, OnceInv, ContractInv, [StepsNext]_stepsVars
  PROVE  ContractStep
<1>0. ActTyped /\ ChainInv /\ LooseInv /\ ExecutedCalled
  BY DEF StepsInv, ContractInv
<1>1. CASE UNCHANGED stepsVars
  <2>1. Made' = Made /\ Risky' = Risky /\ Known' = Known /\ Outcome' = Outcome
    BY <1>1 DEF stepsVars, Made, Risky, Known, Outcome
  <2> QED
    BY <2>1, Stutters
<1>2. ASSUME NEW a \in Acts, Execute(a) \/ ExecuteFails(a), effects' = [effects EXCEPT ![StepOf(a)] = @ + 1]
      PROVE  ContractStep
  BY <1>2, CallsOnce
<1>3. ASSUME StepsNext, effects' = effects, NEW a \in Acts, Record(a), Recordable(a), Known' = Known \union {StepOf(a)}
      PROVE  ContractStep
  <2>1. Made' = Made /\ Risky' = Risky
    BY <1>0, <1>3, RiskStays
  <2>2. sub' = sub /\ sub = "running"
    BY <1>3 DEF Record, Recordable, ActiveScope, OnlyAct
  <2>3. Outcome = "open" /\ Outcome' = Outcome
    BY <2>2 DEF Outcome, Undecided, OpenSub
  <2>4. StepOf(a) \in StepIds /\ StepOf(a) \in Made \ Known
    BY <1>0, <1>3, StepOfTyped DEF Record, Recordable, Known, Made, ExecutedCalled
  <2> QED
    BY <1>3, <2>1, <2>3, <2>4, Learns
<1>4. CASE StepsNext /\ effects' = effects /\ Known' = Known
  <2>1. Made' = Made /\ Risky' = Risky
    BY <1>0, <1>4, RiskStays
  <2> QED
    BY <1>0, <1>4, <2>1, OutcomeBy, NothingRisked, Stutters, Decides
<1>5. ASSUME NEW a \in Acts, Record(a) PROVE effects' = effects
  BY <1>5 DEF Record
<1> QED
  BY <1>1, <1>2, <1>3, <1>4, <1>5, EffectsBy, KnownBy

\* A task run by the step protocol keeps the contract of a durable task (TaskContract): every
\* model, tool and evaluator call is made once, its result recorded once and only while the
\* submission is open, the submission is decided once, and never as completed while a tool
\* was called whose result the operation ledger does not have (step_store.py, ledger.py,
\* durable_invoke and the Workflow's finalize).
THEOREM ContractImplemented == StepsSpec => ContractKept
<1>1. StepsInit => Contract!ContractInit
  BY DEF StepsInit, Contract!ContractInit, Made
<1>2. StepsInv /\ OnceInv /\ ContractInv /\ [StepsNext]_stepsVars => [Contract!ContractNext]_(Contract!contractVars)
  BY StepsImplement DEF ContractStep
<1> QED
  BY StepsInitial, StepsInductive, OnceInitial, OnceInductive, ContractInitial, ContractInductive, <1>1, <1>2, PTL
     DEF StepsSpec, ContractKept, Contract!ContractSpec
----------------------------------------------------------------------------
(* The kinds: what is scheduled works on an opened revision of an I/O kind *)

AtWork(a) == act[a].pc \notin EndPcs \union {"unused"}
Opened(r) == run[r].st # "none"

\* A completed revision has its successor, in the same transaction.
Followed == \A r \in Revs : run[r].st = "completed" => Opened(r + 1)
\* An Activity that runs was scheduled for an opened revision of an I/O kind.
WorksOpened == \A a \in Acts : AtWork(a) => Opened(Rev(a)) /\ Kind(a) \in IOKinds
\* The Workflow walks along opened revisions, and awaits the Activity of its own one.
WalksOpened == IF wf.pc \in {"adopt", "bootstrap"} THEN wf.rev = 0 ELSE Opened(wf.rev)
AwaitsOwn == wf.pc = "await" => /\ wf.act \in Acts /\ act[wf.act].pc # "unused"
                                /\ AtWork(wf.act) => Rev(wf.act) = wf.rev
                                /\ act[wf.act].pc = "ok" => run[wf.rev].st = "completed"
\* A holder that yields has saved what comes next.
YieldsReady == \A a \in Acts : act[a].pc = "yielding" /\ Holds(a) => tk.ph = "step_ready"
\* The checkpoint and the commits name kinds of steps.
NamesKinds == tk.nx \in IOKinds \union {"none"} /\ \A a \in Acts : act[a].next \in StepKinds
KindsInv == Followed /\ WorksOpened /\ WalksOpened /\ AwaitsOwn /\ YieldsReady /\ NamesKinds

\* Initially nothing is opened or scheduled.
LEMMA KindsInitial == StepsInit => KindsInv
BY DEF StepsInit, KindsInv, Followed, WorksOpened, WalksOpened, AwaitsOwn, YieldsReady, NamesKinds, AtWork, Activity,
   StepKinds, IOKinds

\* A completed cursor is completed together with the opening of the next one.
LEMMA FollowedStays ==
  ASSUME StepsInv, ChainInv, Followed, StepsNext
  PROVE  Followed'
<1>0. RunTyped /\ Chained
  BY DEF StepsInv, ChainInv
<1>1. \A r \in Revs : run[r].st = "completed" => r + 1 \in Revs
  BY <1>0, Numbers DEF RunTyped
<1>2. CASE run' = run
  BY <1>2 DEF Followed, Opened
<1>3. ASSUME NEW q \in Revs, NEW kind \in StepKinds, q < StepLimit, run[q].st \notin {"none", "completed"}, Chain(q, kind)
      PROVE  Followed'
  <2>1. /\ run'[q + 1].st = "ready" /\ \A r \in Revs \ {q, q + 1} : run'[r] = run[r]
    BY <1>0, <1>3, ChainRow
  <2>2. \A r \in Revs : run[r].st = "completed" => run'[r + 1].st # "none"
    BY <1>1, CursorsStay DEF Followed, Opened
  <2> QED
    BY <2>1, <2>2 DEF Followed, Opened
<1>4. ASSUME NEW q \in Revs, run'[q].st \in {"ready", "running"}, \A r \in Revs \ {q} : run'[r] = run[r]
      PROVE  Followed'
  <2>1. \A r \in Revs : run[r].st = "completed" => run'[r + 1].st # "none"
    BY <1>1, CursorsStay DEF Followed, Opened
  <2> QED
    BY <2>1, <1>4 DEF Followed, Opened
<1> QED
  BY <1>2, <1>3, <1>4, CursorMoves

\* What a step of an Activity leaves of its own row: it stays at the revision it was scheduled
\* for, it succeeds with the revision, and it names kinds of steps.
WorksOn(a) ==
  /\ act'[a].pc # "unused"
  /\ act'[a].pc \notin EndPcs => act'[a].rev = act[a].rev
  /\ act'[a].pc = "ok" => run'[Rev(a)].st = "completed"
  /\ act'[a].next \in StepKinds /\ tk'.nx \in IOKinds \union {"none"}
  /\ act'[a].pc = "yielding" /\ Holds(a)' => tk'.ph = "step_ready"

\* Such a step of the helpers, for any place but the success and the yield.
Elsewhere == ActPcs \ {"unused", "ok", "yielding"}

\* A step to another place.
LEMMA GotoWorks ==
  ASSUME ActTyped, NamesKinds, NEW a \in Acts, NEW pc \in Elsewhere, Goto(a, pc), tk'.nx \in IOKinds \union {"none"}
  PROVE  WorksOn(a)
<1>1. /\ act'[a].pc = pc /\ act'[a].next \in StepKinds
      /\ pc \notin EndPcs => act'[a].rev = act[a].rev
  BY DEF Goto, ActTyped, Activities, Activity, NamesKinds, StepKinds, IOKinds
<1> QED
  BY <1>1 DEF WorksOn, Elsewhere

\* A turn that ends in a commit of a kind.
LEMMA CommitWorks ==
  ASSUME ActTyped, NEW a \in Acts, NEW kind \in StepKinds, CommitNext(a, kind), tk'.nx \in IOKinds \union {"none"}
  PROVE  WorksOn(a)
<1>1. act'[a].pc = "commit" /\ act'[a].next = kind /\ act'[a].rev = act[a].rev
  BY DEF CommitNext, ActTyped, Activities
<1> QED
  BY <1>1 DEF WorksOn, EndPcs

\* A checkpoint.
LEMMA SavesWorks ==
  ASSUME TkTyped, ActTyped, NamesKinds, NEW a \in Acts, NEW ph, NEW nx \in IOKinds \union {"none"}, NEW pc \in Elsewhere,
         Saves(a, ph, nx, pc)
  PROVE  WorksOn(a)
<1>1. "busy" \in Elsewhere
  BY DEF Elsewhere, ActPcs
<1>2. CASE Holds(a)
  <2>1. tk' = [tk EXCEPT !.ph = ph, !.nx = nx, !.att = act[a].att] /\ Goto(a, pc)
    BY <1>2 DEF Saves
  <2>2. tk'.nx = nx
    BY <2>1 DEF TkTyped, Tasks
  <2> QED
    BY <2>1, <2>2, GotoWorks
<1>3. CASE ~Holds(a)
  BY <1>1, <1>3, GotoWorks DEF Saves, NamesKinds
<1> QED
  BY <1>2, <1>3

\* A turn that ends.
LEMMA FinishesWorks ==
  ASSUME TkTyped, ActTyped, NamesKinds, NEW a \in Acts, NEW st, NEW next, Holds(a) => next \in StepKinds, Finishes(a, st, next)
  PROVE  WorksOn(a)
<1>1. "busy" \in Elsewhere
  BY DEF Elsewhere, ActPcs
<1>2. CASE Holds(a)
  <2>1. tk' = [tk EXCEPT !.st = st, !.lease = NoAct] /\ CommitNext(a, next)
    BY <1>2 DEF Finishes
  <2>2. tk'.nx = tk.nx
    BY <2>1 DEF TkTyped, Tasks
  <2> QED
    BY <1>2, <2>1, <2>2, CommitWorks DEF NamesKinds
<1>3. CASE ~Holds(a)
  BY <1>1, <1>3, GotoWorks DEF Finishes, NamesKinds
<1> QED
  BY <1>2, <1>3

\* A reply that is returned.
LEMMA ReturnsWorks ==
  ASSUME TkTyped, ActTyped, NamesKinds, NEW a \in Acts, NEW st, Returns(a, st)
  PROVE  WorksOn(a)
<1>1. "finalize" \in StepKinds
  BY DEF StepKinds
<1> QED
  BY <1>1, FinishesWorks, CommitWorks DEF Returns, NamesKinds

\* An exception.
LEMMA RaiseWorks ==
  ASSUME TkTyped, ActTyped, NamesKinds, NEW a \in Acts, NEW how \in {"busy", "fatal"}, Raise(a, how)
  PROVE  WorksOn(a)
<1>1. PICK pc \in {"busy", "fatal"} : Goto(a, pc)
  BY DEF Raise
<1>2. {"busy", "fatal"} \subseteq Elsewhere
  BY DEF Elsewhere, ActPcs
<1>3. tk'.nx = tk.nx
  BY DEF Raise, TkTyped, Tasks
<1> QED
  BY <1>1, <1>2, <1>3, GotoWorks DEF NamesKinds
\* Every step of an Activity works on what it was scheduled for (advance and durable_invoke).
LEMMA InvokedWorks ==
  ASSUME StepsInv, KindsInv, NEW a \in Acts, Invoked(a) \/ StepClaim(a) \/ Commit(a)
  PROVE  WorksOn(a)
<1>0. TkTyped /\ RunTyped /\ ActTyped /\ NamesKinds /\ tk.nx \in IOKinds \union {"none"}
  BY DEF StepsInv, KindsInv, NamesKinds
<1>1. {"claim", "lease", "run", "preparing", "request", "io", "prepared", "started", "executed", "failed", "recorded",
       "saved", "asking", "commit", "busy", "fatal", "dead"} \subseteq Elsewhere
  BY DEF Elsewhere, ActPcs
<1>2. {"none", "finalize", "human"} \subseteq StepKinds \union {"none"} /\ "none" \in IOKinds \union {"none"} /\ {"finalize", "human"} \subseteq StepKinds
  BY DEF StepKinds
<1>3. CASE StepClaim(a) \/ Commit(a)
  <2>0. tk' = tk
    BY <1>3 DEF StepClaim, Commit
  <2>1. CASE Goto(a, "lease") \/ Goto(a, "fatal")
    BY <1>0, <1>1, <2>0, <2>1, GotoWorks
  <2>2. CASE Goto(a, "ok")
    <3>1. act'[a].pc = "ok" /\ act'[a].next = "model"
      BY <1>0, <2>2 DEF Goto, ActTyped, Activity, EndPcs
    <3>2. run'[Rev(a)].st = "completed"
      <4>1. Rev(a) \in Revs
        BY <1>0, KindTyped
      <4>2. CASE run[Rev(a)].st = "completed" /\ run' = run
        BY <4>2
      <4>3. CASE Chain(Rev(a), act[a].next)
        BY <1>0, <4>1, <4>3 DEF Chain, RunTyped, Runs
      <4>4. ~Goto(a, "lease") /\ ~Goto(a, "fatal")
        BY <1>0, <3>1, GotoFrame, <1>1 DEF Elsewhere
      <4> QED
        BY <1>3, <4>2, <4>3, <4>4 DEF StepClaim, Commit
    <3> QED
      BY <1>0, <2>0, <3>1, <3>2 DEF WorksOn, EndPcs, StepKinds, IOKinds
  <2> QED
    BY <1>3, <2>1, <2>2 DEF StepClaim, Commit
<1>4. CASE TakeLease(a)
  <2>1. tk'.nx = tk.nx
    BY <1>0, <1>4 DEF TakeLease, TkTyped, Tasks
  <2>2. CommitNext(a, "finalize") \/ Goto(a, "busy") \/ Goto(a, "run")
    BY <1>4 DEF TakeLease
  <2> QED
    BY <1>0, <1>1, <1>2, <2>1, <2>2, GotoWorks, CommitWorks
<1>5. CASE Stop(a) \/ (\E st \in {"completed", "failed"} : End(a, st))
  <2>1. \E st : Returns(a, st)
    BY <1>5 DEF Stop, End
  <2> QED
    BY <1>0, <2>1, ReturnsWorks
<1>6. CASE Enter(a)
  <2>0. act[a].pc = "run" /\ Kind(a) \in IOKinds
    BY <1>6 DEF Enter, KindsInv, WorksOpened, AtWork, EndPcs
  <2>1. CASE tk' = tk /\ act' = [act EXCEPT ![a].pc = "request", ![a].att = tk.att]
    <3>1. act'[a].pc = "request" /\ act'[a].next = act[a].next /\ act'[a].rev = act[a].rev
      BY <1>0, <2>1 DEF ActTyped, Activities
    <3> QED
      BY <1>0, <2>1, <3>1 DEF WorksOn, NamesKinds
  <2>2. \/ tk' = tk /\ Goto(a, "saved")
        \/ tk' = tk /\ act' = [act EXCEPT ![a].pc = "request", ![a].att = tk.att]
        \/ Saves(a, "evaluation_pending", "none", "io")
        \/ Saves(a, "step_preparing", Kind(a), "preparing")
    BY <1>6 DEF Enter
  <2> QED
    BY <1>0, <1>1, <1>2, <2>0, <2>1, <2>2, GotoWorks, SavesWorks
<1>7. CASE Prepare(a)
  <2>1. CASE tk' = tk /\ act' = [act EXCEPT ![a].pc = "io", ![a].asks = TRUE]
    <3>1. act'[a].pc = "io" /\ act'[a].next = act[a].next /\ act'[a].rev = act[a].rev
      BY <1>0, <2>1 DEF ActTyped, Activities
    <3> QED
      BY <1>0, <2>1, <3>1 DEF WorksOn, NamesKinds
  <2> QED
    BY <1>0, <1>1, <1>2, <1>7, <2>1, GotoWorks, SavesWorks DEF Prepare
<1>8. CASE Request(a)
  BY <1>0, <1>1, <1>2, <1>8, SavesWorks DEF Request
<1>9. CASE Save(a)
  BY <1>0, <1>1, <1>2, <1>9, SavesWorks DEF Save
<1>10. CASE PrepareOp(a) \/ ClaimOp(a) \/ Record(a) \/ RaiseFailed(a)
  <2>1. \/ tk' = tk /\ \E pc \in {"prepared", "started", "recorded"} : Goto(a, pc)
        \/ \E how \in {"busy", "fatal"} : Raise(a, how)
    BY <1>10 DEF PrepareOp, ClaimOp, Record, RaiseFailed
  <2> QED
    BY <1>0, <1>1, <2>1, GotoWorks, RaiseWorks
<1>11. CASE Execute(a) \/ ExecuteFails(a) \/ Die(a)
  <2>1. tk' = tk /\ \E pc \in {"executed", "failed", "dead"} : Goto(a, pc)
    BY <1>11 DEF Execute, ExecuteFails, Die
  <2> QED
    BY <1>0, <1>1, <2>1, GotoWorks
<1>12. CASE RetryModel(a)
  <2>1. tk' = tk /\ act' = [act EXCEPT ![a].pc = "request", ![a].att = act[a].att + 1]
    BY <1>12 DEF RetryModel
  <2>2. act'[a].pc = "request" /\ act'[a].next = act[a].next /\ act'[a].rev = act[a].rev
    BY <1>0, <2>1 DEF ActTyped, Activities
  <2> QED
    BY <1>0, <2>1, <2>2 DEF WorksOn, NamesKinds
<1>13. CASE Suspend(a)
  BY <1>0, <1>2, <1>13, FinishesWorks DEF Suspend
<1>14. CASE Yielded(a)
  <2>1. Holds(a) => tk.nx \in IOKinds
    BY <1>0, <1>14 DEF Yielded, KindsInv, YieldsReady, TkTyped
  <2> QED
    BY <1>0, <1>14, <2>1, FinishesWorks DEF Yielded, StepKinds
<1>15. ASSUME NEW next \in IOKinds, Yield(a, next) PROVE WorksOn(a)
  <2>1. Saves(a, "step_ready", next, "yielding")
    BY <1>15 DEF Yield
  <2>2. CASE Holds(a)
    <3>1. tk' = [tk EXCEPT !.ph = "step_ready", !.nx = next, !.att = act[a].att] /\ Goto(a, "yielding")
      BY <2>1, <2>2 DEF Saves
    <3>2. tk'.nx = next /\ tk'.ph = "step_ready"
      BY <1>0, <3>1 DEF TkTyped, Tasks
    <3>3. act'[a].pc = "yielding" /\ act'[a].next = act[a].next /\ act'[a].rev = act[a].rev
      BY <1>0, <3>1 DEF Goto, ActTyped, Activities, EndPcs
    <3> QED
      BY <1>0, <3>2, <3>3 DEF WorksOn, NamesKinds, EndPcs
  <2>3. CASE ~Holds(a)
    BY <1>0, <1>1, <2>1, <2>3, GotoWorks DEF Saves
  <2> QED
    BY <2>2, <2>3
<1> QED
  BY <1>3, <1>4, <1>5, <1>6, <1>7, <1>8, <1>9, <1>10, <1>11, <1>12, <1>13, <1>14, <1>15 DEF Invoked

\* One that yields and still holds the task after a step: the step left the task alone.
LEMMA HeldStays ==
  ASSUME StepsInv, Unsubmitted, StepsNext, NEW b \in Acts, act[b].pc = "yielding", Holds(b)'
  PROVE  tk' = tk
<1>0. TkTyped /\ ActTyped /\ tk'.st = "running" /\ tk'.lease = b /\ b # NoAct
  BY DEF StepsInv, Holds, Acts, NoAct
<1>1. CASE Around
  BY <1>0, <1>1, AroundTask DEF Lost
<1>2. CASE WfStep \/ WfBootstrap
  BY <1>2 DEF WfStep, WfBootstrap, rows
<1>3. CASE WfRecover
  <2>1. tk' = tk \/ FailRows \/ (Scoped /\ PutBack)
    BY <1>3, RecoverCases DEF RecoverCase
  <2> QED
    BY <1>0, <2>1, FailTask, PutBackTask DEF Lost
<1>4. CASE WfProbe
  <2>1. tk' = tk \/ tk' = [tk EXCEPT !.st = "failed"] \/ tk' = [tk EXCEPT !.st = "pending", !.ph = "tool_done"]
    BY <1>4 DEF WfProbe
  <2> QED
    BY <1>0, <2>1 DEF TkTyped, Tasks
<1>5. ASSUME NEW a \in Acts, Invoked(a) PROVE tk' = tk
  <2>1. ASSUME NEW ph, NEW nx, NEW pc, Saves(a, ph, nx, pc) PROVE tk' = tk \/ tk'.lease = a
    BY <1>0, <2>1 DEF Saves, Holds, TkTyped, Tasks
  <2>2. ASSUME NEW st, NEW next, Finishes(a, st, next) PROVE tk' = tk \/ tk'.lease = NoAct
    BY <1>0, <2>2 DEF Finishes, TkTyped, Tasks
  <2>3. ASSUME NEW st, Returns(a, st) PROVE tk' = tk \/ tk'.lease = NoAct
    BY <2>2, <2>3 DEF Returns
  <2>4. ASSUME NEW how, Raise(a, how) PROVE tk' = tk \/ tk'.lease = NoAct
    BY <1>0, <2>4 DEF Raise, TkTyped, Tasks
  <2>5. CASE TakeLease(a)
    <3>1. tk' = tk \/ tk'.st = "uncertain" \/ tk'.lease = a
      BY <1>0, <2>5 DEF TakeLease, TkTyped, Tasks
    <3>2. a # b
      BY <2>5 DEF TakeLease
    <3> QED
      BY <1>0, <3>1, <3>2
  <2>6. CASE Enter(a) \/ Prepare(a) \/ Request(a) \/ Save(a) \/ (\E next \in IOKinds : Yield(a, next))
    <3>1. tk' = tk \/ \E ph, nx, pc : Saves(a, ph, nx, pc)
      BY <2>6 DEF Enter, Prepare, Request, Save, Yield
    <3>2. a # b
      BY <2>6 DEF Enter, Prepare, Request, Save, Yield
    <3> QED
      BY <1>0, <2>1, <3>1, <3>2
  <2>7. CASE Suspend(a) \/ Yielded(a)
    BY <1>0, <2>2, <2>7 DEF Suspend, Yielded
  <2>8. CASE Stop(a) \/ (\E st \in {"completed", "failed"} : End(a, st))
    BY <1>0, <2>3, <2>8 DEF Stop, End
  <2>9. CASE PrepareOp(a) \/ ClaimOp(a) \/ Record(a) \/ RaiseFailed(a)
    BY <1>0, <2>4, <2>9 DEF PrepareOp, ClaimOp, Record, RaiseFailed
  <2>10. CASE Execute(a) \/ ExecuteFails(a) \/ RetryModel(a) \/ Die(a)
    BY <2>10 DEF Execute, ExecuteFails, RetryModel, Die
  <2> QED
    BY <1>5, <2>5, <2>6, <2>7, <2>8, <2>9, <2>10 DEF Invoked
<1>6. ASSUME NEW a \in Acts, StepClaim(a) \/ Commit(a) PROVE tk' = tk
  BY <1>6 DEF StepClaim, Commit
<1> QED
  BY <1>1, <1>2, <1>3, <1>4, <1>5, <1>6, StepCases
\* An Activity that stays where it was scheduled still works on an opened revision of its kind.
LEMMA WorksKept ==
  ASSUME StepsInv, ChainInv, WorksOpened, StepsNext, NEW a \in Acts, AtWork(a), act'[a].rev = act[a].rev
  PROVE  Opened(Rev(a))' /\ Kind(a)' \in IOKinds
<1>1. Rev(a) \in Revs /\ Rev(a)' = Rev(a)
  BY KindTyped DEF StepsInv, Rev
<1> QED
  BY <1>1, CursorsStay DEF WorksOpened, Opened, Kind

\* Where the steps around the protocol take the Workflow: along its revision, or past an
\* awaited success to the next one.
LEMMA AroundWalks ==
  ASSUME StepsInv, Around
  PROVE  /\ wf'.pc = "await" => wf.pc = "await" /\ wf'.rev = wf.rev
         /\ \/ wf'.rev = wf.rev /\ (wf'.pc \in {"adopt", "bootstrap"} <=> wf.pc \in {"adopt", "bootstrap"})
            \/ wf.pc = "await" /\ act[wf.act].pc = "ok" /\ wf'.rev = wf.rev + 1 /\ wf'.pc = "step"
<1>0. wf \in Workflows
  BY DEF StepsInv, WfTyped
<1>1. CASE WfAdopt \/ WfBefore \/ WfWakes \/ WfFinalize
  BY <1>0, <1>1 DEF WfAdopt, WfBefore, WfWakes, WfFinalize, Working, Closes, Workflows
<1>2. CASE WfResult
  BY <1>0, <1>2 DEF WfResult, Working, Workflows
<1>3. CASE WfRetries \/ WfGivesUp
  <2>1. wf.pc = "await" /\ (wf' = [wf EXCEPT !.pc = "recover", !.rec = wf.rec + 1] \/ wf' = [wf EXCEPT !.st = "failed"])
    BY <1>3 DEF WfRetries, WfGivesUp, Working, Retried
  <2> QED
    BY <1>0, <2>1 DEF Workflows
<1>4. CASE WfFails \/ WfCanceled \/ WfDies
  BY <1>0, <1>4 DEF WfFails, WfCanceled, WfDies, Closes, Workflows
<1>5. CASE DispatchStart \/ DispatchCancel \/ (\E r \in Revs : Signal(r))
  BY <1>0, <1>5 DEF DispatchStart, DispatchCancel, Signal, Workflows
<1>6. \/ wf' = wf \/ DispatchStart \/ DispatchCancel \/ (\E r \in Revs : Signal(r)) \/ WfAdopt \/ WfResult \/ WfFails \/ WfRetries
      \/ WfBefore \/ WfWakes \/ WfFinalize \/ WfCanceled \/ WfGivesUp \/ WfDies
  BY DEF Around, Client, Submit, DispatchCheck, Reconcile, Expire, Cancel, DispatchExpired, DispatchLost, Answer
<1> QED
  BY <1>1, <1>2, <1>3, <1>4, <1>5, <1>6

\* Where the bootstrap, the recovery and the probe take it: to a revision that is opened.
LEMMA CursorWalks ==
  ASSUME StepsInv, ChainInv, KindsInv, StepsNext, WfBootstrap \/ WfRecover \/ WfProbe
  PROVE  WalksOpened' /\ wf'.pc # "await"
<1>0. wf \in Workflows /\ RunTyped /\ Chained /\ TkTyped /\ wf.rev \in Revs
  BY DEF StepsInv, WfTyped, ChainInv, Workflows
<1> DEFINE onward == [wf EXCEPT !.pc = "step", !.rev = wf.rev + 1]
<1>1. CASE WfBootstrap
  <2>1. wf.pc = "bootstrap" /\ wf.rev = 0
    BY <1>1 DEF WfBootstrap, Working, KindsInv, WalksOpened
  <2>2. wf' = [wf EXCEPT !.st = "failed"] \/ wf' = wf \/ (wf' = [wf EXCEPT !.pc = "step"] /\ (run[0].st # "none" \/ run' = [run EXCEPT ![0].st = "ready"]))
    BY <1>1 DEF WfBootstrap, Closes, Answers
  <2>3. run[0].st # "none" => run'[0].st # "none"
    BY <1>0, <2>1, CursorsStay
  <2>4. run' = [run EXCEPT ![0].st = "ready"] => run'[0].st # "none"
    BY <1>0, <2>1 DEF RunTyped, Runs
  <2> QED
    BY <1>0, <2>1, <2>2, <2>3, <2>4 DEF WalksOpened, Opened, Workflows
<1>2. CASE WfRecover \/ WfProbe
  <2>1. wf.pc \in {"recover", "probe"} /\ run'[wf.rev].st # "none"
    <3>1. wf.pc \in {"recover", "probe"}
      BY <1>2 DEF WfRecover, WfProbe, Working
    <3> QED
      BY <1>0, <3>1, CursorsStay DEF KindsInv, WalksOpened, Opened
  <2>2. run[wf.rev].st = "completed" => run'[wf.rev + 1].st # "none"
    BY <1>0, Numbers, CursorsStay DEF KindsInv, Followed, Opened, RunTyped
  <2>3. ASSUME NEW kind \in StepKinds, Chain(wf.rev, kind), wf.rev < StepLimit, run[wf.rev].st \notin {"none", "completed"}
        PROVE  run'[wf.rev + 1].st # "none"
    BY <1>0, <2>3, ChainRow
  <2>4. wf' = onward => run'[wf.rev + 1].st # "none"
    <3>1. CASE WfRecover
      <4>1. \/ run[wf.rev].st = "completed"
            \/ run[wf.rev].st = "running" /\ wf.rev < StepLimit /\ \E kind \in Recovery(wf.rev) \ {"again"} : Chain(wf.rev, kind)
            \/ wf' \in {[wf EXCEPT !.st = "failed"], [wf EXCEPT !.pc = "step"], wf}
        BY <3>1 DEF WfRecover, Closes, Answers
      <4>2. wf' = onward => wf'.rev # wf.rev
        BY <1>0 DEF Workflows, Revs
      <4>3. wf' \in {[wf EXCEPT !.st = "failed"], [wf EXCEPT !.pc = "step"], wf} => wf'.rev = wf.rev
        BY <1>0 DEF Workflows
      <4> QED
        BY <1>0, <2>2, <2>3, <4>1, <4>2, <4>3, RecoveryTyped
    <3>2. CASE WfProbe
      <4>1. \/ run[wf.rev].st = "completed"
            \/ /\ run[wf.rev].st # "completed" /\ wf.rev < StepLimit
               /\ \E kind \in {"finalize", "tool", "model"} : Chain(wf.rev, kind)
            \/ wf' \in {[wf EXCEPT !.st = "failed"], [wf EXCEPT !.pc = "wait"], wf}
        BY <3>2 DEF WfProbe, Closes, Answers
      <4>2. wf' = onward => wf'.rev # wf.rev
        BY <1>0 DEF Workflows, Revs
      <4>3. wf' \in {[wf EXCEPT !.st = "failed"], [wf EXCEPT !.pc = "wait"], wf} => wf'.rev = wf.rev
        BY <1>0 DEF Workflows
      <4>4. run[wf.rev].st # "none" /\ {"finalize", "tool", "model"} \subseteq StepKinds
        BY <3>2 DEF WfProbe, Working, KindsInv, WalksOpened, Opened, StepKinds, IOKinds
      <4> QED
        BY <2>2, <2>3, <4>1, <4>2, <4>3, <4>4
    <3> QED
      BY <1>2, <3>1, <3>2
  <2>5. wf' \in {[wf EXCEPT !.st = "failed"], [wf EXCEPT !.pc = "step"], [wf EXCEPT !.pc = "wait"], onward, wf}
    BY <1>2 DEF WfRecover, WfProbe, Closes, Answers
  <2> QED
    BY <1>0, <2>1, <2>4, <2>5 DEF WalksOpened, Opened, Workflows
<1> QED
  BY <1>1, <1>2
\* The steps around the protocol and of the Workflow keep the kinds.
LEMMA WorkflowKinds ==
  ASSUME StepsInv, ChainInv, Unsubmitted, KindsInv, StepsNext, Around \/ WfStep \/ WfBootstrap \/ WfRecover \/ WfProbe
  PROVE  KindsInv'
<1>0. /\ wf \in Workflows /\ RunTyped /\ ActTyped /\ TkTyped /\ wf.rev \in Revs
      /\ Followed /\ WorksOpened /\ WalksOpened /\ AwaitsOwn /\ YieldsReady /\ NamesKinds
  BY DEF StepsInv, WfTyped, Workflows, KindsInv
<1>1. Followed'
  BY <1>0, FollowedStays
<1>2. tk'.nx = tk.nx
  <2>1. CASE Around
    <3>1. tk' = tk \/ Submit \/ CancelRows \/ FailRows \/ DispatchExpired
      BY <2>1 DEF Around, Client, DispatchCheck, DispatchStart, DispatchCancel, Reconcile, Signal, Expire, Cancel,
         DispatchLost, Answer, WfAdopt, WfResult, WfFails, WfRetries, WfBefore, WfWakes, WfFinalize, WfCanceled,
         WfGivesUp, WfDies, OnlyWf, rows
    <3>2. CASE Submit \/ CancelRows \/ FailRows
      BY <1>0, <3>2 DEF Submit, CancelRows, FailRows, TkTyped, Tasks
    <3>3. CASE DispatchExpired
      BY <1>0, <3>3 DEF DispatchExpired, TkTyped, Tasks
    <3> QED
      BY <3>1, <3>2, <3>3
  <2>2. CASE WfStep \/ WfBootstrap
    BY <2>2 DEF WfStep, WfBootstrap, rows
  <2>3. CASE WfRecover
    <3>1. tk' = tk \/ FailRows \/ PutBack
      BY <2>3, RecoverCases DEF RecoverCase
    <3> QED
      BY <1>0, <3>1 DEF FailRows, PutBack, TkTyped, Tasks
  <2>4. CASE WfProbe
    <3>1. tk' = tk \/ tk' = [tk EXCEPT !.st = "failed"] \/ tk' = [tk EXCEPT !.st = "pending", !.ph = "tool_done"]
      BY <2>4 DEF WfProbe
    <3> QED
      BY <1>0, <3>1 DEF TkTyped, Tasks
  <2> QED
    BY <2>1, <2>2, <2>3, <2>4
<1>3. \A a \in Acts : act'[a] = act[a] => (AtWork(a)' => Opened(Rev(a))' /\ Kind(a)' \in IOKinds)
  <2> SUFFICES ASSUME NEW a \in Acts, act'[a] = act[a], AtWork(a)' PROVE Opened(Rev(a))' /\ Kind(a)' \in IOKinds
    OBVIOUS
  <2>1. AtWork(a)
    BY DEF AtWork
  <2> QED
    BY <1>0, <2>1, WorksKept
<1>4. \A a \in Acts : act'[a] = act[a] => (act'[a].pc = "yielding" /\ Holds(a)' => tk'.ph = "step_ready")
  BY <1>0, HeldStays DEF YieldsReady, Holds
<1>5. CASE act' = act
  <2>1. WorksOpened'
    BY <1>3, <1>5 DEF WorksOpened
  <2>2. YieldsReady'
    BY <1>4, <1>5 DEF YieldsReady
  <2>3. NamesKinds'
    BY <1>0, <1>2, <1>5 DEF NamesKinds
  <2>4. WalksOpened' /\ AwaitsOwn'
    <3>1. CASE WfBootstrap \/ WfRecover \/ WfProbe
      BY <3>1, CursorWalks DEF AwaitsOwn
    <3>2. CASE Around
      <4>1. run' = run /\ wf'.act = wf.act
        BY <3>2, AroundRows
      <4>2. AwaitsOwn'
        BY <1>0, <1>5, <3>2, <4>1, AroundWalks DEF AwaitsOwn, AtWork, Rev
      <4>3. CASE wf'.rev = wf.rev /\ (wf'.pc \in {"adopt", "bootstrap"} <=> wf.pc \in {"adopt", "bootstrap"})
        <5>1. CASE wf.pc \in {"adopt", "bootstrap"}
          BY <1>0, <4>2, <4>3, <5>1 DEF WalksOpened
        <5>2. CASE wf.pc \notin {"adopt", "bootstrap"}
          <6>1. run[wf.rev].st # "none"
            BY <1>0, <5>2 DEF WalksOpened, Opened
          <6>2. run'[wf'.rev].st # "none"
            BY <4>1, <4>3, <6>1
          <6> QED
            BY <4>2, <4>3, <5>2, <6>2 DEF WalksOpened, Opened
        <5> QED
          BY <5>1, <5>2
      <4>4. CASE wf.pc = "await" /\ act[wf.act].pc = "ok" /\ wf'.rev = wf.rev + 1 /\ wf'.pc = "step"
        BY <1>0, <4>1, <4>4 DEF WalksOpened, Opened, AwaitsOwn, Followed
      <4> QED
        BY <3>2, <4>2, <4>3, <4>4, AroundWalks
    <3>3. CASE WfStep
      <4>1. wf.pc = "step" /\ run' = run /\ wf' \in {[wf EXCEPT !.pc = "before"], [wf EXCEPT !.pc = "finalize"], [wf EXCEPT !.st = "failed"]}
        <5>1. wf.pc = "step" /\ run' = run
          BY <3>3 DEF WfStep, Working, rows
        <5>2. \/ wf' \in {[wf EXCEPT !.pc = "before"], [wf EXCEPT !.pc = "finalize"], [wf EXCEPT !.st = "failed"]}
              \/ wf.act + 1 \in Acts /\ act' = [act EXCEPT ![wf.act + 1] = Activity("claim", wf.rev)]
          BY <3>3 DEF WfStep, Closes
        <5>3. CASE wf.act + 1 \in Acts /\ act' = [act EXCEPT ![wf.act + 1] = Activity("claim", wf.rev)]
          <6>1. act'[wf.act + 1].pc = "claim"
            BY <1>0, <5>3 DEF ActTyped, Activity
          <6>2. wf.act + 1 > wf.act
            BY <1>0, Numbers DEF Workflows, Acts, NoAct
          <6>3. act[wf.act + 1].pc = "unused"
            BY <5>3, <6>2 DEF ChainInv, Scheduled
          <6> QED
            BY <1>5, <6>1, <6>3
        <5> QED
          BY <5>1, <5>2, <5>3
      <4> QED
        BY <1>0, <4>1 DEF WalksOpened, AwaitsOwn, Opened, Workflows
    <3> QED
      BY <3>1, <3>2, <3>3
  <2> QED
    BY <1>1, <2>1, <2>2, <2>3, <2>4 DEF KindsInv
<1>6. CASE WfStep /\ act' # act
  <2> DEFINE b == wf.act + 1
  <2>1. /\ wf.pc = "step" /\ run' = run /\ b \in Acts /\ act' = [act EXCEPT ![b] = Activity("claim", wf.rev)]
        /\ wf' = [wf EXCEPT !.pc = "await", !.act = b] /\ run[wf.rev].kind \in IOKinds
    <3>1. wf.pc = "step" /\ run' = run
      BY <1>6 DEF WfStep, Working, rows
    <3>2. run[wf.rev].kind \in StepKinds
      BY <1>0 DEF RunTyped, Runs
    <3> QED
      BY <1>6, <3>1, <3>2 DEF WfStep, Closes, StepKinds
  <2>2. act'[b] = Activity("claim", wf.rev) /\ \A a \in Acts \ {b} : act'[a] = act[a]
    BY <1>0, <2>1 DEF ActTyped
  <2>3. act'[b].pc = "claim" /\ act'[b].rev = wf.rev /\ act'[b].next = "model"
    BY <2>2 DEF Activity
  <2>4. wf'.pc = "await" /\ wf'.act = b /\ wf'.rev = wf.rev
    BY <1>0, <2>1 DEF Workflows
  <2>5. Opened(wf.rev)
    BY <1>0, <2>1 DEF WalksOpened
  <2> HIDE DEF b
  <2>6. WorksOpened'
    <3> SUFFICES ASSUME NEW a \in Acts, AtWork(a)' PROVE Opened(Rev(a))' /\ Kind(a)' \in IOKinds
      BY DEF WorksOpened
    <3>1. CASE a = b
      BY <2>1, <2>3, <2>5, <3>1 DEF Opened, Rev, Kind
    <3>2. CASE a # b
      BY <1>3, <2>2, <3>2
    <3> QED
      BY <3>1, <3>2
  <2>7. YieldsReady'
    BY <1>4, <2>2, <2>3 DEF YieldsReady
  <2>8. NamesKinds'
    BY <1>0, <1>2, <2>2, <2>3 DEF NamesKinds, StepKinds, IOKinds
  <2>9. WalksOpened'
    BY <2>1, <2>4, <2>5 DEF WalksOpened, Opened
  <2>10. AwaitsOwn'
    BY <2>1, <2>3, <2>4 DEF AwaitsOwn, Rev
  <2> QED
    BY <1>1, <2>6, <2>7, <2>8, <2>9, <2>10 DEF KindsInv
<1>7. (Around \/ WfBootstrap \/ WfRecover \/ WfProbe) => act' = act
  BY AroundRows DEF WfBootstrap, WfRecover, WfProbe
<1> QED
  BY <1>5, <1>6, <1>7

\* The steps of an Activity keep them.
LEMMA ActivityKinds ==
  ASSUME StepsInv, ChainInv, Unsubmitted, KindsInv, StepsNext, NEW a \in Acts, Invoked(a) \/ StepClaim(a) \/ Commit(a)
  PROVE  KindsInv'
<1>0. /\ wf \in Workflows /\ RunTyped /\ ActTyped /\ TkTyped /\ OpsTyped
      /\ Followed /\ WorksOpened /\ WalksOpened /\ AwaitsOwn /\ YieldsReady /\ NamesKinds
  BY DEF StepsInv, WfTyped, KindsInv
<1>1. WorksOn(a) /\ AtWork(a) /\ \A b \in Acts \ {a} : act'[b] = act[b]
  BY <1>0, InvokedWorks, InvokedMoves DEF AtWork
<1>2. wf' = wf /\ wf.rev \in Revs
  BY <1>0, InvokedRows DEF StepClaim, Commit, Workflows
<1>3. Followed'
  BY <1>0, FollowedStays
<1>4. WorksOpened'
  <2> SUFFICES ASSUME NEW b \in Acts, AtWork(b)' PROVE Opened(Rev(b))' /\ Kind(b)' \in IOKinds
    BY DEF WorksOpened
  <2>1. AtWork(b) /\ act'[b].rev = act[b].rev
    BY <1>1 DEF AtWork, WorksOn
  <2> QED
    BY <1>0, <2>1, WorksKept
<1>5. WalksOpened'
  BY <1>0, <1>2, CursorsStay DEF WalksOpened, Opened
<1>6. AwaitsOwn'
  <2> SUFFICES ASSUME wf.pc = "await"
               PROVE  /\ wf.act \in Acts /\ act'[wf.act].pc # "unused"
                      /\ AtWork(wf.act)' => act'[wf.act].rev = wf.rev
                      /\ act'[wf.act].pc = "ok" => run'[wf.rev].st = "completed"
    BY <1>2 DEF AwaitsOwn, AtWork, Rev
  <2>1. /\ wf.act \in Acts /\ act[wf.act].pc # "unused" /\ (AtWork(wf.act) => Rev(wf.act) = wf.rev)
        /\ act[wf.act].pc = "ok" => run[wf.rev].st = "completed"
    BY <1>0 DEF AwaitsOwn
  <2>2. CASE wf.act = a
    <3>1. Rev(a) = wf.rev
      BY <1>1, <2>1, <2>2
    <3>2. act'[a].pc # "unused" /\ (act'[a].pc = "ok" => run'[wf.rev].st = "completed")
      BY <1>1, <3>1 DEF WorksOn
    <3>3. AtWork(a)' => act'[a].rev = wf.rev
      BY <1>1, <3>1 DEF WorksOn, AtWork, Rev
    <3> QED
      BY <1>2, <2>1, <2>2, <3>2, <3>3 DEF AtWork
  <2>3. CASE wf.act # a
    BY <1>1, <1>2, <2>1, <2>3, CursorsStay DEF AtWork, Rev
  <2> QED
    BY <2>1, <2>2, <2>3
<1>7. YieldsReady'
  <2> SUFFICES ASSUME NEW b \in Acts, act'[b].pc = "yielding", Holds(b)' PROVE tk'.ph = "step_ready"
    BY DEF YieldsReady
  <2>1. CASE b = a
    BY <1>1, <2>1 DEF WorksOn
  <2>2. CASE b # a
    <3>1. act[b].pc = "yielding"
      BY <1>1, <2>2
    <3>2. tk' = tk
      BY <3>1, HeldStays
    <3> QED
      BY <1>0, <3>1, <3>2 DEF YieldsReady, Holds
  <2> QED
    BY <2>1, <2>2
<1>8. NamesKinds'
  BY <1>0, <1>1 DEF NamesKinds, WorksOn
<1> QED
  BY <1>3, <1>4, <1>5, <1>6, <1>7, <1>8 DEF KindsInv

\* Every step keeps the kinds.
LEMMA KindsInductive == StepsInv /\ ContractInv /\ KindsInv /\ [StepsNext]_stepsVars => KindsInv'
<1> SUFFICES ASSUME StepsInv, ContractInv, KindsInv, [StepsNext]_stepsVars PROVE KindsInv'
  OBVIOUS
<1>0. ChainInv /\ Unsubmitted
  BY DEF ContractInv
<1>1. CASE UNCHANGED stepsVars
  BY <1>1 DEF stepsVars, KindsInv, Followed, WorksOpened, WalksOpened, AwaitsOwn, YieldsReady, NamesKinds, AtWork, Opened,
     Rev, Kind, Holds
<1>2. CASE StepsNext
  BY <1>0, <1>2, StepCases, WorkflowKinds, ActivityKinds
<1> QED
  BY <1>1, <1>2

\* The rows and the kinds make every variable a value of its type.
LEMMA StepsTypes == StepsInv /\ KindsInv => StepsTypeOK
<1> SUFFICES ASSUME StepsInv, KindsInv PROVE StepsTypeOK
  OBVIOUS
<1>1. tk \in [st : SubStates \union {"suspended"}, ph : TaskPhases, nx : IOKinds \union {"none"}, att : 1..MaxAttempts, lease : Acts \union {NoAct}]
  BY DEF StepsInv, TkTyped, Tasks, KindsInv, NamesKinds
<1>2. act \in [Acts -> [pc : ActPcs, rev : Revs, next : IOKinds \union {"human", "finalize"}, att : 1..MaxAttempts, asks : BOOLEAN]]
  BY DEF StepsInv, ActTyped, Activities, KindsInv, NamesKinds, StepKinds
<1>3. sub \in SubStates /\ fenced \in BOOLEAN /\ box \in {"none", "pending", "sent"} /\ disp \in {"idle", "checked"}
  BY DEF StepsInv, SubTyped
<1>4. /\ run \in [Revs -> [st : {"none", "ready", "running", "completed"}, kind : IOKinds \union {"human", "finalize"}, fence : Acts \union {NoAct}]]
      /\ ops \in [StepIds -> {"none", "prepared", "running", "completed", "uncertain", "rejected_no_effect"}]
  BY DEF StepsInv, RunTyped, Runs, StepKinds, OpsTyped, OpStates
<1>5. /\ effects \in [StepIds -> Nat]
      /\ ans \in [Revs -> [st : {"none", "waiting", "answered", "consumed", "expired"}, sent : {"none", "pending", "sent"}, late : BOOLEAN]]
  BY DEF StepsInv, EffectsTyped, AnsTyped, Waits
<1>6. wf \in [st : {"none", "open", "completed", "failed", "canceled"}, pc : WfPcs, rev : Revs, rec : 0..RecoveryLimit,
             act : Acts \union {NoAct}, note : BOOLEAN, cancel : BOOLEAN]
  BY DEF StepsInv, WfTyped, Workflows
<1> QED
  BY <1>1, <1>2, <1>3, <1>4, <1>5, <1>6 DEF StepsTypeOK
\* Every row of a submission, its cursors, its ledger, its questions, its Activities and its
\* Workflow has a state the code knows; an Activity is only scheduled for an opened revision
\* of an I/O kind, and what a turn hands on to its commit names a kind of step.
THEOREM StepRowsTyped == StepsSpec => []StepsTypeOK
<1> QED
  BY StepsInitial, ContractInitial, KindsInitial, StepsInductive, ContractInductive, KindsInductive, StepsTypes, PTL
  DEF StepsSpec
=============================================================================
