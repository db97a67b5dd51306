-------------------------- MODULE CommQueueProofs --------------------------
(****************************************************************************)
(* The command queue: what is cancelled stays cancelled, no running command *)
(* is forgotten while the process lives, and nothing of an erased session   *)
(* comes back, for every number of messages, of threads and of questions.   *)
(*                                                                          *)
(* The inductive invariant QueueInv says of every step of the loop and of a *)
(* thread which command it works for: the row exists, it has the kind the   *)
(* step is for, and (HeldInv) when it runs it is in the hands of the loop,  *)
(* of a thread, or of a durable task.                                       *)
(****************************************************************************)
EXTENDS CommQueue, FiniteSetTheorems, WellFoundedInduction, TLAPS

CmdRows == [kind : Kinds, status : Statuses, call : Questions]
TaskRows == [state : TaskStates, lease : {"null", "live", "expired"}, started : BOOLEAN,
             holder : Threads \cup {NoThread}, asked : Questions]
ThreadRows == [pc : ThreadPcs, cmd : Commands \cup {NoCommand}, target : Commands \cup {NoCommand},
               task : Commands \cup {NoCommand}, susp : Commands \cup {NoCommand}, call : Questions,
               out : {"none", "reply", "question", "error"}, gen : Generations]
LoopRows == [pc : LoopPcs, todo : SUBSET Commands, cmd : Commands \cup {NoCommand},
             seen : [state : TaskStates, started : BOOLEAN, asked : Questions]]

CmdTyped == cmd \in [Commands -> CmdRows]

\* A command over and done with is never worked on again.
Over == {"cancel_requested", "cancelled", "completed", "failed", "deleted"}

\* What a step may do to a row: it stays with its kind, what is over stays over,
\* what is cancelled stays cancelled, and a row that can still be worked on
\* keeps the question it was suspended with.
RowMay(old, new) ==
  /\ old.status # "absent" => new.status # "absent" /\ new.kind = old.kind
  /\ old.status \in Over => new.status \in Over
  /\ old.status = "cancelled" => new.status \in {"cancelled", "deleted"}
  /\ old.status = "cancel_requested" => new.status \in Cancelling
  /\ old.call # 0 /\ new.status \notin Over => new.call # 0

RowSteps == \A c \in Commands : RowMay(cmd[c], cmd'[c])

\* Nothing but the three statements that mark a command running makes it run.
NoneStarts == \A c \in Commands : cmd'[c].status = "running" => cmd[c].status = "running"
NoneSuspended == \A c \in Commands : cmd'[c].status = "suspended" => cmd[c].status = "suspended"
NonePending == \A c \in Commands : cmd'[c].status = "pending" => cmd[c].status = "pending"

----------------------------------------------------------------------------
(* The statements of the store *)

\* Leaving the rows alone is a step of every row.
LEMMA RowsKept ==
  ASSUME CmdTyped, cmd' = cmd
  PROVE  CmdTyped' /\ RowSteps /\ NoneStarts /\ NoneSuspended /\ NonePending
  BY DEF CmdTyped, RowSteps, RowMay, NoneStarts, NoneSuspended, NonePending, CmdRows, Cancelling, Over

\* The fields of a row with another status.
LEMMA StatusWritten ==
  ASSUME NEW row \in CmdRows, NEW status \in Statuses
  PROVE  /\ [row EXCEPT !.status = status] \in CmdRows
         /\ [row EXCEPT !.status = status].status = status
         /\ [row EXCEPT !.status = status].kind = row.kind
         /\ [row EXCEPT !.status = status].call = row.call
  BY DEF CmdRows

\* The fields of a row whose question is forgotten, or another one.
LEMMA CallWritten ==
  ASSUME NEW row \in CmdRows, NEW call \in Questions
  PROVE  /\ [row EXCEPT !.call = call] \in CmdRows
         /\ [row EXCEPT !.call = call].status = row.status
         /\ [row EXCEPT !.call = call].kind = row.kind
         /\ [row EXCEPT !.call = call].call = call
  BY DEF CmdRows

\* _complete, _cancel and the deletion end a row: it keeps its kind and loses its
\* question.
LEMMA RowSettled ==
  ASSUME NEW row \in CmdRows, NEW status \in Statuses
  PROVE  /\ Settled(row, status) \in CmdRows
         /\ Settled(row, status).status = status
         /\ Settled(row, status).kind = row.kind
         /\ Settled(row, status).call = 0
<1>1. Settled(row, status) = [[row EXCEPT !.status = status] EXCEPT !.call = 0]
  BY DEF Settled
<1>2. PICK written : written = [row EXCEPT !.status = status]
  OBVIOUS
<1>3. written \in CmdRows /\ written.status = status /\ written.kind = row.kind
  BY <1>2, StatusWritten
<1>4. 0 \in Questions
  BY QueueAssumption DEF Questions
<1>5. Settled(row, status) = [written EXCEPT !.call = 0]
  BY <1>1, <1>2
<1> QED
  BY <1>3, <1>4, <1>5, CallWritten

\* One row is replaced by a row that its step may lead to.
LEMMA RowReplaced ==
  ASSUME CmdTyped, NEW c, NEW row \in CmdRows, cmd' = [cmd EXCEPT ![c] = row],
         c \in Commands => RowMay(cmd[c], row)
  PROVE  /\ CmdTyped' /\ RowSteps
         /\ \A b \in Commands : b # c => cmd'[b] = cmd[b]
         /\ c \in Commands => cmd'[c] = row
<1>0. \A b \in Commands : RowMay(cmd[b], cmd[b])
  BY DEF RowMay, Cancelling
<1>1. CASE c \in Commands
  BY <1>0, <1>1 DEF CmdTyped, RowSteps
<1>2. CASE c \notin Commands
  BY <1>0, <1>2 DEF CmdTyped, RowSteps
<1> QED
  BY <1>1, <1>2

\* _update_command closes its row, unless the session has been erased.
LEMMA UpdatesRow ==
  ASSUME CmdTyped, session \in {"active", "confirmed", "deleting", "deleted"},
         NEW c, NEW status \in {"completed", "failed"}, UpdateCommand(c, status)
  PROVE  /\ CmdTyped' /\ RowSteps /\ NoneStarts /\ NoneSuspended /\ NonePending
         /\ c \in Commands => session = "deleted" \/ cmd'[c].status \in Over
<1>0. CASE c \notin Commands \/ session = "deleted"
  <2>1. cmd' = cmd
    BY <1>0 DEF UpdateCommand, CmdTyped, Open
  <2> QED
    BY <1>0, <2>1, RowsKept
<1>1. CASE c \in Commands /\ Open
  <2>1. PICK st : st = Updated(c, status)
    OBVIOUS
  <2>0. cmd' = [cmd EXCEPT ![c].status = Updated(c, status)]
    BY <1>1 DEF UpdateCommand, Open
  <2>2. cmd' = [cmd EXCEPT ![c] = [cmd[c] EXCEPT !.status = st]]
    BY <2>0, <2>1
  <2>3. cmd[c] \in CmdRows /\ st \in Over \cap Statuses /\ st # "deleted"
    BY <1>1, <2>1 DEF CmdTyped, Updated, Over, Statuses
  <2>4. cmd[c].status \in Cancelling => st = "cancelled"
    BY <2>1 DEF Updated, StatusOf
  <2>5. PICK row : row = [cmd[c] EXCEPT !.status = st]
    OBVIOUS
  <2>6. row \in CmdRows /\ row.status = st /\ row.kind = cmd[c].kind /\ row.call = cmd[c].call
    BY <2>3, <2>5, StatusWritten
  <2>7. RowMay(cmd[c], row)
    BY <2>3, <2>4, <2>6 DEF RowMay, Over, Cancelling
  <2>8. CmdTyped' /\ RowSteps /\ (\A b \in Commands : b # c => cmd'[b] = cmd[b]) /\ cmd'[c] = row
    BY <1>1, <2>2, <2>5, <2>6, <2>7, RowReplaced
  <2> QED
    BY <2>3, <2>6, <2>8 DEF NoneStarts, NoneSuspended, NonePending, Over
<1>2. CASE c \in Commands /\ session = "deleting"
  <2>1. PICK row : row = Settled(cmd[c], "cancelled")
    OBVIOUS
  <2>2. cmd' = [cmd EXCEPT ![c] = row]
    BY <1>2, <2>1 DEF UpdateCommand, Open
  <2>3. row \in CmdRows /\ row.status = "cancelled" /\ row.kind = cmd[c].kind
    BY <1>2, <2>1, RowSettled DEF CmdTyped, Statuses
  <2>4. RowMay(cmd[c], row)
    BY <2>3 DEF RowMay, Over, Cancelling
  <2>5. CmdTyped' /\ RowSteps /\ (\A b \in Commands : b # c => cmd'[b] = cmd[b]) /\ cmd'[c] = row
    BY <1>2, <2>2, <2>3, <2>4, RowReplaced
  <2> QED
    BY <2>3, <2>5 DEF NoneStarts, NoneSuspended, NonePending, Over
<1> QED
  BY <1>0, <1>1, <1>2 DEF Open

\* mark_command_running only starts what waits, and nothing of an erased session.
LEMMA MarksRow ==
  ASSUME CmdTyped, NEW c, MayRun(c), MarkRunning(c)
  PROVE  /\ CmdTyped' /\ RowSteps /\ NoneSuspended
         /\ \A b \in Commands : b # c => cmd'[b] = cmd[b]
         /\ c \in Commands => cmd'[c].status = "running" /\ cmd'[c].kind = cmd[c].kind /\ cmd'[c].call = cmd[c].call
<1>1. PICK row : row = [cmd[c] EXCEPT !.status = "running"]
  OBVIOUS
<1>2. cmd' = [cmd EXCEPT ![c] = row]
  BY <1>1 DEF MarkRunning
<1>3. CASE c \in Commands
  <2>1. cmd[c] \in CmdRows /\ cmd[c].status \in {"pending", "suspended"}
    BY <1>3 DEF CmdTyped, MayRun, StatusOf
  <2>2. row \in CmdRows /\ row.status = "running" /\ row.kind = cmd[c].kind /\ row.call = cmd[c].call
    BY <1>1, <2>1, StatusWritten DEF Statuses
  <2>3. RowMay(cmd[c], row)
    BY <2>1, <2>2 DEF RowMay, Over
  <2>4. CmdTyped' /\ RowSteps /\ (\A b \in Commands : b # c => cmd'[b] = cmd[b]) /\ cmd'[c] = row
    BY <1>2, <1>3, <2>2, <2>3, RowReplaced
  <2> QED
    BY <2>2, <2>4 DEF NoneSuspended
<1>4. CASE c \notin Commands
  <2>1. cmd' = cmd
    BY <1>2, <1>4 DEF CmdTyped
  <2> QED
    BY <1>4, <2>1, RowsKept
<1> QED
  BY <1>3, <1>4

\* suspend_command keeps the question; a command that is not pending or running
\* any more, or whose session is deleted, is left as it is.
LEMMA SuspendsRow ==
  ASSUME CmdTyped, NEW c, NEW question \in Questions, question # 0, SuspendCommand(c, question)
  PROVE  /\ CmdTyped' /\ RowSteps /\ NoneStarts
         /\ \A b \in Commands : b # c => cmd'[b] = cmd[b]
         /\ c \in Commands =>
              \/ Suspendable(c) /\ cmd'[c].status = "suspended" /\ cmd'[c].kind = cmd[c].kind /\ cmd'[c].call = question
              \/ ~Suspendable(c) /\ cmd'[c] = cmd[c]
<1>1. CASE c \in Commands /\ Suspendable(c)
  <2>1. PICK written : written = [cmd[c] EXCEPT !.status = "suspended"]
    OBVIOUS
  <2>2. PICK row : row = [written EXCEPT !.call = question]
    OBVIOUS
  <2>3. cmd' = [cmd EXCEPT ![c] = row]
    BY <1>1, <2>1, <2>2 DEF SuspendCommand, SuspendedRow
  <2>4. cmd[c] \in CmdRows /\ cmd[c].status \in {"pending", "running"}
    BY <1>1 DEF CmdTyped, Suspendable, StatusOf
  <2>5. written \in CmdRows /\ written.status = "suspended" /\ written.kind = cmd[c].kind
    BY <2>1, <2>4, StatusWritten DEF Statuses
  <2>6. row \in CmdRows /\ row.status = "suspended" /\ row.kind = cmd[c].kind /\ row.call = question
    BY <2>2, <2>5, CallWritten
  <2>7. RowMay(cmd[c], row)
    BY <2>4, <2>6 DEF RowMay, Over
  <2>8. CmdTyped' /\ RowSteps /\ (\A b \in Commands : b # c => cmd'[b] = cmd[b]) /\ cmd'[c] = row
    BY <1>1, <2>3, <2>6, <2>7, RowReplaced
  <2> QED
    BY <1>1, <2>6, <2>8 DEF NoneStarts
<1>2. CASE ~(c \in Commands /\ Suspendable(c))
  <2>1. cmd' = cmd
    BY <1>2 DEF SuspendCommand, CmdTyped
  <2> QED
    BY <1>2, <2>1, RowsKept
<1> QED
  BY <1>1, <1>2

\* cancel_command
LEMMA CancelsRow ==
  ASSUME CmdTyped, NEW c, CancelCommand(c)
  PROVE  CmdTyped' /\ RowSteps /\ NoneStarts /\ NoneSuspended /\ NonePending
<1>1. CASE c \in Commands
  <2>1. PICK st : st = CancelledStatus(cmd[c].status)
    OBVIOUS
  <2>2. PICK row : row = [cmd[c] EXCEPT !.status = st]
    OBVIOUS
  <2>3. cmd' = [cmd EXCEPT ![c] = row]
    BY <2>1, <2>2 DEF CancelCommand
  <2>4. cmd[c] \in CmdRows /\ cmd[c].status \in Statuses
    BY <1>1 DEF CmdTyped, CmdRows
  <2>5. st = cmd[c].status \/ (st \in Cancelling /\ cmd[c].status \in {"running", "pending", "suspended"})
    BY <2>1 DEF CancelledStatus, Cancelling
  <2>6. st \in Statuses
    BY <2>4, <2>5 DEF Statuses, Cancelling
  <2>7. row \in CmdRows /\ row.status = st /\ row.kind = cmd[c].kind /\ row.call = cmd[c].call
    BY <2>2, <2>4, <2>6, StatusWritten
  <2>8. RowMay(cmd[c], row)
    BY <2>5, <2>7 DEF RowMay, Over, Cancelling
  <2>9. CmdTyped' /\ RowSteps /\ (\A b \in Commands : b # c => cmd'[b] = cmd[b]) /\ cmd'[c] = row
    BY <1>1, <2>3, <2>7, <2>8, RowReplaced
  <2> QED
    BY <2>5, <2>7, <2>9 DEF NoneStarts, NoneSuspended, NonePending, Cancelling
<1>2. CASE c \notin Commands
  <2>1. cmd' = cmd
    BY <1>2 DEF CancelCommand, CmdTyped
  <2> QED
    BY <2>1, RowsKept
<1> QED
  BY <1>1, <1>2

\* set_recovery_state only moves a command that ran.
LEMMA RecoversRow ==
  ASSUME CmdTyped, NEW c, NEW status \in {"pending", "recovery_required"}, SetRecoveryState(c, status)
  PROVE  /\ CmdTyped' /\ RowSteps /\ NoneStarts /\ NoneSuspended
         /\ \A b \in Commands : b # c => cmd'[b] = cmd[b]
<1>1. CASE c \in Commands /\ RecoveryStatus(c)
  <2>1. PICK row : row = [cmd[c] EXCEPT !.status = status]
    OBVIOUS
  <2>2. cmd' = [cmd EXCEPT ![c] = row]
    BY <1>1, <2>1 DEF SetRecoveryState
  <2>3. cmd[c] \in CmdRows /\ cmd[c].status \in {"running", "recovery_required"}
    BY <1>1 DEF CmdTyped, RecoveryStatus, StatusOf
  <2>0. status \in Statuses
    BY DEF Statuses
  <2>4. row \in CmdRows /\ row.status = status /\ row.kind = cmd[c].kind /\ row.call = cmd[c].call
    BY <2>0, <2>1, <2>3, StatusWritten
  <2>5. RowMay(cmd[c], row)
    BY <2>3, <2>4 DEF RowMay, Over
  <2>6. CmdTyped' /\ RowSteps /\ (\A b \in Commands : b # c => cmd'[b] = cmd[b]) /\ cmd'[c] = row
    BY <1>1, <2>2, <2>4, <2>5, RowReplaced
  <2> QED
    BY <2>4, <2>6 DEF NoneStarts, NoneSuspended
<1>2. CASE ~(c \in Commands /\ RecoveryStatus(c))
  <2>1. cmd' = cmd
    BY <1>2 DEF SetRecoveryState, CmdTyped
  <2> QED
    BY <2>1, RowsKept
<1> QED
  BY <1>1, <1>2
----------------------------------------------------------------------------
(* The inductive invariant *)

Sessions == {"active", "confirmed", "deleting", "deleted"}

QueueTyped ==
  /\ CmdTyped
  /\ task \in [Commands -> TaskRows]
  /\ session \in Sessions
  /\ locks \in [Generations -> Threads \cup {NoThread}]
  /\ gen \in Generations
  /\ th \in [Threads -> ThreadRows]
  /\ loop \in LoopRows
  /\ tools \in 0..MaxTools /\ pauses \in 0..MaxPauses /\ crashes \in 0..MaxCrashes

\* A row that has been ingested, and one that holds an ordinary message: such a
\* row stays one.
Known(c) == c \in Commands /\ StatusOf(c) # "absent"
AskRow(c) == Known(c) /\ Kind(c) = "ask"

\* Only an ordinary message is suspended, and its row keeps the question.
RowInv == \A c \in Commands : StatusOf(c) = "suspended" => AskRow(c) /\ cmd[c].call # 0

\* Only an ordinary message has a durable task, and a suspended task has asked.
TaskInv == \A c \in Commands :
  /\ task[c].state # "none" => AskRow(c)
  /\ task[c].state = "suspended" => task[c].asked # 0

\* The row the main loop works on is one its step is for.
LoopInv ==
  /\ loop.pc \in {"resolve", "settle"} =>
       /\ AskRow(loop.cmd) /\ task[loop.cmd].state # "none"
       /\ loop.seen.state # "none" /\ (loop.seen.state = "suspended" => loop.seen.asked # 0)
  /\ loop.pc \in {"mark", "spawn", "control", "clear_jobs", "clear_lock", "close"} => Known(loop.cmd)
  /\ loop.pc = "spawn" => AskRow(loop.cmd)
  /\ loop.pc \in {"control", "clear_jobs", "clear_lock", "close"} => Kind(loop.cmd) # "ask"
  /\ loop.pc \in {"clear_jobs", "clear_lock"} => Kind(loop.cmd) = "clear"

\* A thread works for its own command until it has forwarded to the suspended
\* one; the row it may forward to has kept its question, unless it is over.
WorksFor(row) ==
  /\ AskRow(row.cmd) /\ AskRow(row.target) /\ row.target \in {row.cmd, row.susp}
  /\ row.susp # NoCommand => AskRow(row.susp)
  /\ row.pc \in {"start", "forward", "forwarded"} => row.target = row.cmd
  /\ row.pc \in {"forward", "forwarded"} => row.susp # NoCommand
  /\ row.pc \in {"start", "forward", "forwarded"} /\ row.susp # NoCommand =>
       cmd[row.susp].call # 0 \/ StatusOf(row.susp) \in Over
  /\ row.pc \in {"answer", "claim", "work"} => AskRow(row.task)
  /\ row.out = "question" /\ row.pc \in {"release", "after", "write"} => row.call # 0

ThreadInv == \A t \in Threads : th[t].pc # "idle" => WorksFor(th[t])

\* Once the deletion of the session is confirmed no task is unfinished, and a
\* thread that still brings a question brings it for a command that is over.
FenceInv == session # "active" =>
  /\ \A c \in Commands : task[c].state \in TerminalTask \cup {"none"}
  /\ \A t \in Threads : th[t].pc \in {"release", "after", "write"} /\ th[t].out = "question" =>
       StatusOf(th[t].target) \in Over

ErasedInv == session = "deleted" => \A c \in Commands : StatusOf(c) \in {"absent", "deleted"}

\* The loop has a command in hand from the statement that marks it running to
\* the one that closes it or starts its thread, and a thread its target to the
\* statement that stores the result; while it forwards, the suspended one too.
Holds(t, c) ==
  \/ th[t].target = c /\ th[t].pc \notin {"idle", "reply"}
  \/ th[t].susp = c /\ th[t].pc = "forwarded"
InHand(c) ==
  \/ loop.cmd = c /\ loop.pc \in {"spawn", "control", "clear_jobs", "clear_lock", "close"}
  \/ \E t \in Threads : Holds(t, c)

HeldInv == crashes = 0 => \A c \in Commands :
  StatusOf(c) = "running" => InHand(c) \/ task[c].state # "none" \/ AskedForAnother(c)

\* Every /clear replaces the lock once.
Cleared == {c \in Commands : Kind(c) = "clear" /\ StatusOf(c) \notin {"absent", "pending"}}
Clearing == loop.pc \in {"control", "clear_jobs", "clear_lock"} /\ Kind(loop.cmd) = "clear"
LockInv == (IF Clearing THEN gen + 1 ELSE gen) <= Cardinality(Cleared)

QueueInv == QueueTyped /\ RowInv /\ TaskInv /\ LoopInv /\ ThreadInv /\ FenceInv /\ ErasedInv /\ HeldInv /\ LockInv
----------------------------------------------------------------------------
(* What a step does to the rows *)

\* The steps that only read the rows.
QuietStep ==
  \/ BeginRound \/ RecoverUncertain \/ Select \/ MarkFails \/ ClearTasks
  \/ (\E c \in Commands : RecoverRead(c) \/ Resolve(c) \/ LeaseExpires(c))
  \/ (\E t \in Threads : Spawn(t) \/ Start(t) \/ ForwardFails(t) \/ Enter(t) \/ LockAcquired(t) \/ LockCancelled(t)
                         \/ Dispatch(t) \/ DispatchRefused(t) \/ AnswerTask(t) \/ ClaimTask(t) \/ ClaimRefused(t)
                         \/ WorkEnds(t) \/ WorkLost(t) \/ Release(t) \/ After(t) \/ Reply(t) \/ ToolStep(t))
  \/ ConfirmDeletion \/ BeginDeletion \/ Crash \/ UNCHANGED vars

\* The steps outside the table leave every row alone.
LEMMA QuietRows == ASSUME QuietStep PROVE cmd' = cmd
<1>1. CASE BeginRound \/ RecoverUncertain \/ Select \/ MarkFails \/ ClearTasks
  BY <1>1 DEF BeginRound, RecoverUncertain, Select, MarkFails, ClearTasks
<1>2. CASE \E c \in Commands : RecoverRead(c) \/ Resolve(c) \/ LeaseExpires(c)
  BY <1>2 DEF RecoverRead, Resolve, LeaseExpires
<1>3. ASSUME NEW t \in Threads,
             Spawn(t) \/ Start(t) \/ ForwardFails(t) \/ Enter(t) \/ LockAcquired(t) \/ LockCancelled(t) \/ Dispatch(t)
             \/ DispatchRefused(t)
      PROVE  cmd' = cmd
  BY <1>3 DEF Spawn, Start, ForwardFails, Enter, LockAcquired, LockCancelled, Dispatch, DispatchRefused, ThreadOnly
<1>4. ASSUME NEW t \in Threads,
             AnswerTask(t) \/ ClaimTask(t) \/ ClaimRefused(t) \/ WorkEnds(t) \/ WorkLost(t) \/ Release(t) \/ After(t)
             \/ Reply(t) \/ ToolStep(t)
      PROVE  cmd' = cmd
  BY <1>4 DEF AnswerTask, ClaimTask, ClaimRefused, WorkEnds, WorkLost, Release, After, Reply, ToolStep, ThreadOnly
<1>5. CASE ConfirmDeletion \/ BeginDeletion \/ Crash \/ UNCHANGED vars
  BY <1>5 DEF ConfirmDeletion, BeginDeletion, Crash, vars
<1> QED
  BY <1>1, <1>2, <1>3, <1>4, <1>5 DEF QuietStep

\* A message that arrives takes a new row.
LEMMA IngestRow ==
  ASSUME CmdTyped, NEW c \in Commands, Ingest(c)
  PROVE  /\ CmdTyped' /\ RowSteps /\ NoneStarts /\ NoneSuspended
         /\ \A b \in Commands : b # c => cmd'[b] = cmd[b]
         /\ StatusOf(c) = "absent" /\ cmd'[c].status = "pending" /\ session # "deleted"
<1>1. PICK kind \in Kinds : cmd' = [cmd EXCEPT ![c] = [@ EXCEPT !.status = "pending", !.kind = kind]]
  BY DEF Ingest
<1>2. PICK row : row = [cmd[c] EXCEPT !.status = "pending", !.kind = kind]
  OBVIOUS
<1>3. cmd' = [cmd EXCEPT ![c] = row]
  BY <1>1, <1>2
<1>4. cmd[c] \in CmdRows /\ cmd[c].status = "absent"
  BY DEF Ingest, StatusOf, CmdTyped
<1>5. row \in CmdRows /\ row.status = "pending" /\ row.call = cmd[c].call
  BY <1>2, <1>4 DEF CmdRows, Statuses
<1>6. RowMay(cmd[c], row)
  BY <1>4, <1>5 DEF RowMay, Over
<1>7. CmdTyped' /\ RowSteps /\ (\A b \in Commands : b # c => cmd'[b] = cmd[b]) /\ cmd'[c] = row
  BY <1>3, <1>5, <1>6, RowReplaced
<1>8. session # "deleted"
  BY DEF Ingest, Open
<1> QED
  BY <1>4, <1>5, <1>7, <1>8 DEF NoneStarts, NoneSuspended, StatusOf

\* cancel_session of the queue, the end of /clear and the erasure write many rows.
LEMMA SweptRows ==
  ASSUME CmdTyped, NEW Swept, NEW status \in {"cancelled", "deleted"}, NEW Flagged,
         \A c \in Swept : cmd[c].status # "absent" /\ (cmd[c].status = "cancel_requested" => c \in Flagged),
         cmd' = [c \in Commands |-> IF c \in Swept
                                      THEN Settled(cmd[c], IF c \in Flagged THEN "cancel_requested" ELSE status)
                                      ELSE cmd[c]],
         \A c \in Flagged : cmd[c].status \in {"running", "cancel_requested"}
  PROVE  CmdTyped' /\ RowSteps /\ NoneStarts /\ NoneSuspended /\ NonePending
<1> SUFFICES ASSUME NEW c \in Commands
             PROVE  /\ cmd'[c] \in CmdRows /\ RowMay(cmd[c], cmd'[c])
                    /\ cmd'[c].status \in {"running", "suspended", "pending"} => cmd'[c] = cmd[c]
  BY DEF CmdTyped, RowSteps, NoneStarts, NoneSuspended, NonePending
<1>1. cmd[c] \in CmdRows
  BY DEF CmdTyped
<1>2. CASE c \notin Swept
  BY <1>1, <1>2 DEF RowMay, Cancelling
<1>3. CASE c \in Swept
  <2>1. PICK st : st = IF c \in Flagged THEN "cancel_requested" ELSE status
    OBVIOUS
  <2>2. st \in Statuses /\ st \in Over
    BY <2>1 DEF Statuses, Over
  <2>3. cmd'[c] = Settled(cmd[c], st)
    BY <1>3, <2>1
  <2>4. cmd'[c] \in CmdRows /\ cmd'[c].status = st /\ cmd'[c].kind = cmd[c].kind
    BY <1>1, <2>2, <2>3, RowSettled
  <2>5. /\ cmd[c].status = "cancel_requested" => st = "cancel_requested"
        /\ cmd[c].status = "cancelled" => st \in {"cancelled", "deleted"}
    BY <1>3, <2>1
  <2> QED
    BY <2>2, <2>4, <2>5 DEF RowMay, Over, Cancelling
<1> QED
  BY <1>2, <1>3

\* /clear ends the open rows of its session, all but its own.
LEMMA ClearJobsRows ==
  ASSUME CmdTyped, ClearJobs
  PROVE  /\ CmdTyped' /\ RowSteps /\ NoneStarts /\ NoneSuspended /\ NonePending /\ NonePending
         /\ \A c \in Commands : c = loop.cmd => cmd'[c] = cmd[c]
<1> DEFINE Swept == {c \in Commands : c # loop.cmd /\ StatusOf(c) \in {"pending", "running", "cancel_requested", "suspended"}}
           Flagged == {c \in Commands : StatusOf(c) \in {"running", "cancel_requested"}}
<1>1. cmd' = [c \in Commands |-> IF c \in Swept
                                   THEN Settled(cmd[c], IF c \in Flagged THEN "cancel_requested" ELSE "cancelled")
                                   ELSE cmd[c]]
  BY DEF ClearJobs
<1>2. /\ \A c \in Swept : cmd[c].status # "absent" /\ (cmd[c].status = "cancel_requested" => c \in Flagged)
      /\ \A c \in Flagged : cmd[c].status \in {"running", "cancel_requested"}
  BY DEF StatusOf
<1>3. CmdTyped' /\ RowSteps /\ NoneStarts /\ NoneSuspended /\ NonePending /\ NonePending
  <2> HIDE DEF Swept, Flagged
  <2> QED
    BY <1>1, <1>2, SweptRows
<1> QED
  BY <1>1, <1>3

\* /clear cancels every job that waits for an answer once its lock is ready.
LEMMA ClearLockRows ==
  ASSUME CmdTyped, ClearLock PROVE CmdTyped' /\ RowSteps /\ NoneStarts /\ NoneSuspended /\ NonePending
<1> DEFINE Swept == {c \in Commands : StatusOf(c) = "suspended"}
           None == {}
<1>1. cmd' = [c \in Commands |-> IF c \in Swept
                                   THEN Settled(cmd[c], IF c \in None THEN "cancel_requested" ELSE "cancelled")
                                   ELSE cmd[c]]
  BY DEF ClearLock
<1>2. \A c \in Swept : cmd[c].status # "absent" /\ (cmd[c].status = "cancel_requested" => c \in None)
  BY DEF StatusOf
<1>3. \A c \in None : cmd[c].status \in {"running", "cancel_requested"}
  OBVIOUS
<1> HIDE DEF Swept, None
<1> QED
  BY <1>1, <1>2, <1>3, SweptRows

\* The confirmed deletion overwrites every row of the session.
LEMMA EraseRows ==
  ASSUME CmdTyped, EraseSession
  PROVE  /\ CmdTyped' /\ RowSteps /\ NoneStarts /\ NoneSuspended /\ NonePending
         /\ \A c \in Commands : cmd'[c].status \in {"absent", "deleted"}
<1> DEFINE Swept == {c \in Commands : StatusOf(c) # "absent"}
           None == {}
<1>1. cmd' = [c \in Commands |-> IF c \in Swept
                                   THEN Settled(cmd[c], IF c \in None THEN "cancel_requested" ELSE "deleted")
                                   ELSE cmd[c]]
  BY DEF EraseSession
<1>2. \A c \in Swept : cmd[c].status # "absent" /\ (cmd[c].status = "cancel_requested" => c \in None)
  BY DEF EraseSession, ActiveJobs, StatusOf
<1>3. \A c \in None : cmd[c].status \in {"running", "cancel_requested"}
  OBVIOUS
<1>4. CmdTyped' /\ RowSteps /\ NoneStarts /\ NoneSuspended /\ NonePending
  <2> HIDE DEF Swept, None
  <2> QED
    BY <1>1, <1>2, <1>3, SweptRows
<1>5. \A c \in Commands : cmd'[c].status \in {"absent", "deleted"}
  BY <1>1, RowSettled DEF CmdTyped, StatusOf, Statuses
<1> QED
  BY <1>4, <1>5

\* Steps that write rows but mark none running and suspend none.
ClosingStep ==
  \/ RecoverTerminal \/ RecoverSettle \/ RecoverPending \/ DoCancel \/ ClearJobs \/ ClearLock \/ CloseControl \/ EraseSession
  \/ \E c \in Commands : Ingest(c)
  \/ \E t \in Threads : Forwarded(t) \/ WriteCancelled(t) \/ Fail(t) \/ (WriteResult(t) /\ th[t].out # "question")

\* A closing step starts no row and suspends none.
LEMMA ClosingRows ==
  ASSUME QueueTyped, ClosingStep PROVE CmdTyped' /\ RowSteps /\ NoneStarts /\ NoneSuspended
<1>0. CmdTyped /\ session \in {"active", "confirmed", "deleting", "deleted"}
  BY DEF QueueTyped, Sessions
<1>1. CASE RecoverTerminal
  <2>1. CASE loop.seen.state = "cancelled"
    BY <1>0, <1>1, <2>1, CancelsRow DEF RecoverTerminal
  <2>2. CASE loop.seen.state # "cancelled"
    <3>1. loop.seen.state \in {"completed", "failed"} /\ UpdateCommand(loop.cmd, loop.seen.state)
      BY <1>1, <2>2 DEF RecoverTerminal, TerminalTask
    <3> QED
      BY <1>0, <3>1, UpdatesRow
  <2> QED
    BY <2>1, <2>2
<1>2. CASE RecoverSettle
  BY <1>0, <1>2, UpdatesRow, RecoversRow DEF RecoverSettle
<1>3. CASE RecoverPending
  BY <1>0, <1>3, RecoversRow DEF RecoverPending
<1>4. CASE DoCancel
  BY <1>0, <1>4, CancelsRow DEF DoCancel
<1>5. CASE CloseControl
  BY <1>0, <1>5, UpdatesRow DEF CloseControl
<1>6. CASE ClearJobs \/ ClearLock \/ EraseSession
  BY <1>0, <1>6, ClearJobsRows, ClearLockRows, EraseRows
<1>7. CASE \E c \in Commands : Ingest(c)
  BY <1>0, <1>7, IngestRow
<1>8. CASE \E t \in Threads : Forwarded(t) \/ WriteCancelled(t) \/ Fail(t) \/ (WriteResult(t) /\ th[t].out # "question")
  BY <1>0, <1>8, UpdatesRow DEF Forwarded, WriteCancelled, Fail, WriteResult
<1> QED
  BY <1>1, <1>2, <1>3, <1>4, <1>5, <1>6, <1>7, <1>8 DEF ClosingStep

\* The two statements that suspend a command: of the recovery and of a thread.
SuspendingStep == RecoverSuspended \/ \E t \in Threads : WriteResult(t) /\ th[t].out = "question"

\* They are for ordinary messages and store the question.
LEMMA SuspendingRows ==
  ASSUME QueueTyped, LoopInv, ThreadInv, SuspendingStep
  PROVE  /\ CmdTyped' /\ RowSteps /\ NoneStarts
         /\ \E c : /\ AskRow(c) /\ \A b \in Commands : b # c => cmd'[b] = cmd[b]
                   /\ \/ Suspendable(c) /\ cmd'[c].status = "suspended" /\ cmd'[c].kind = cmd[c].kind /\ cmd'[c].call # 0
                      \/ ~Suspendable(c) /\ cmd'[c] = cmd[c]
<1>0. CmdTyped
  BY DEF QueueTyped
<1>1. CASE RecoverSuspended
  <2>1. SuspendCommand(loop.cmd, loop.seen.asked) /\ AskRow(loop.cmd) /\ loop.seen.asked # 0 /\ loop.seen.asked \in Questions
    BY <1>1 DEF RecoverSuspended, LoopInv, QueueTyped, LoopRows
  <2> QED
    BY <1>0, <2>1, SuspendsRow DEF AskRow, Known
<1>2. ASSUME NEW t \in Threads, WriteResult(t), th[t].out = "question"
      PROVE  /\ CmdTyped' /\ RowSteps /\ NoneStarts
             /\ \E c : /\ AskRow(c) /\ \A b \in Commands : b # c => cmd'[b] = cmd[b]
                       /\ \/ Suspendable(c) /\ cmd'[c].status = "suspended" /\ cmd'[c].kind = cmd[c].kind /\ cmd'[c].call # 0
                          \/ ~Suspendable(c) /\ cmd'[c] = cmd[c]
  <2>1. SuspendCommand(th[t].target, th[t].call) /\ AskRow(th[t].target) /\ th[t].call # 0 /\ th[t].call \in Questions
    BY <1>2 DEF WriteResult, ThreadInv, WorksFor, QueueTyped, ThreadRows
  <2> QED
    BY <1>0, <2>1, SuspendsRow DEF AskRow, Known
<1> QED
  BY <1>1, <1>2 DEF SuspendingStep

\* The three statements that mark a command running.
StartingStep == MarkControl \/ MarkAsk \/ \E t \in Threads : Forward(t) /\ MayRun(th[t].susp)
IdleForward == \E t \in Threads : Forward(t) /\ ~MayRun(th[t].susp)

\* A starting step suspends no row.
LEMMA StartingRows ==
  ASSUME QueueTyped, StartingStep PROVE CmdTyped' /\ RowSteps /\ NoneSuspended
<1>0. CmdTyped
  BY DEF QueueTyped
<1>1. CASE MarkControl \/ MarkAsk
  BY <1>0, <1>1, MarksRow DEF MarkControl, MarkAsk
<1>2. CASE \E t \in Threads : Forward(t) /\ MayRun(th[t].susp)
  BY <1>0, <1>2, MarksRow DEF Forward
<1> QED
  BY <1>1, <1>2 DEF StartingStep

\* Every step is of one of these kinds.
LEMMA StepKinds ==
  ASSUME [Next]_vars PROVE QuietStep \/ ClosingStep \/ SuspendingStep \/ StartingStep \/ IdleForward
<1>1. CASE LoopStep
  BY <1>1 DEF LoopStep, QuietStep, ClosingStep, SuspendingStep, StartingStep
<1>2. CASE \E t \in Threads : ThreadStep(t) \/ ToolStep(t)
  BY <1>2 DEF ThreadStep, QuietStep, ClosingStep, SuspendingStep, StartingStep, IdleForward
<1>3. CASE (\E c \in Commands : Ingest(c) \/ Resolve(c) \/ LeaseExpires(c)) \/ ConfirmDeletion \/ BeginDeletion
           \/ EraseSession \/ Crash \/ UNCHANGED vars
  BY <1>3 DEF QuietStep, ClosingStep
<1> QED
  BY <1>1, <1>2, <1>3 DEF Next

\* Every step moves every row as it may.
LEMMA NextRows ==
  ASSUME QueueTyped, LoopInv, ThreadInv, [Next]_vars PROVE CmdTyped' /\ RowSteps
<1>1. CmdTyped
  BY DEF QueueTyped
<1>2. IdleForward => cmd' = cmd
  BY DEF IdleForward, Forward
<1> QED
  BY <1>1, <1>2, StepKinds, QuietRows, RowsKept, ClosingRows, SuspendingRows, StartingRows
----------------------------------------------------------------------------
(* What a step does to the durable tasks *)

\* What a step may do to a task: it never disappears, only an ordinary message
\* gets one, and without an open session a finished task stays finished.
TaskMay(c, new) ==
  /\ new \in TaskRows
  /\ task[c].state # "none" => new.state # "none"
  /\ new.state # "none" => task[c].state # "none" \/ AskRow(c)
  /\ new.state = "suspended" => new.asked # 0
  /\ session # "active" /\ task[c].state \in TerminalTask \cup {"none"} => new.state \in TerminalTask \cup {"none"}

TaskSteps == task' \in [Commands -> TaskRows] /\ \A c \in Commands : TaskMay(c, task'[c])

\* The steps that leave the tasks alone.
LEMMA TasksKept ==
  ASSUME QueueTyped, TaskInv, task' = task PROVE TaskSteps
  BY DEF QueueTyped, TaskInv, TaskSteps, TaskMay

\* One task is replaced.
LEMMA TaskReplaced ==
  ASSUME QueueTyped, TaskInv, NEW c \in Commands, NEW row, TaskMay(c, row), task' = [task EXCEPT ![c] = row]
  PROVE  TaskSteps
<1>1. \A b \in Commands : TaskMay(b, task[b])
  BY DEF QueueTyped, TaskInv, TaskMay
<1>2. row \in TaskRows
  BY DEF TaskMay
<1> QED
  BY <1>1, <1>2 DEF TaskSteps, QueueTyped

\* A row with another state, and the row of a task that is not held any more.
LEMMA TaskStateWritten ==
  ASSUME NEW row \in TaskRows, NEW state \in TaskStates
  PROVE  /\ [row EXCEPT !.state = state] \in TaskRows
         /\ [row EXCEPT !.state = state].state = state
         /\ [row EXCEPT !.state = state].asked = row.asked
         /\ [row EXCEPT !.state = state].started = row.started
  BY DEF TaskRows

\* A task that ends keeps the question it asked.
LEMMA TaskRowFinished ==
  ASSUME NEW row \in TaskRows, NEW state \in TaskStates
  PROVE  /\ Finished(row, state) \in TaskRows
         /\ Finished(row, state).state = state
         /\ Finished(row, state).asked = row.asked
  BY DEF TaskRows, Finished

\* recover_tasks: a worker that died inside a tool leaves its task uncertain.
LEMMA UncertainTask ==
  ASSUME QueueTyped, TaskInv, LoopInv, RecoverUncertain PROVE TaskSteps
<1>1. loop.cmd \in Commands
  BY DEF RecoverUncertain, LoopInv, AskRow, Known
<1>2. task[loop.cmd] \in TaskRows
  BY <1>1 DEF QueueTyped
<1>3. CASE task' = task
  BY <1>3, TasksKept
<1>4. CASE task[loop.cmd].state = "running" /\ task' # task
  <2>1. PICK row : row = [task[loop.cmd] EXCEPT !.state = "uncertain", !.lease = "null", !.holder = NoThread]
    OBVIOUS
  <2>2. task' = [task EXCEPT ![loop.cmd] = row]
    BY <1>4, <2>1 DEF RecoverUncertain
  <2>3. row \in TaskRows /\ row.state = "uncertain"
    BY <1>2, <2>1 DEF TaskRows, TaskStates
  <2>4. TaskMay(loop.cmd, row)
    BY <1>4, <2>3 DEF TaskMay, TerminalTask
  <2> QED
    BY <1>1, <2>2, <2>4, TaskReplaced
<1> QED
  BY <1>3, <1>4 DEF RecoverUncertain

\* TaskStore.cancel_session
LEMMA ClearedTasks ==
  ASSUME QueueTyped, TaskInv, ClearTasks PROVE TaskSteps
<1> SUFFICES ASSUME NEW c \in Commands PROVE task'[c] \in TaskRows /\ TaskMay(c, task'[c])
  BY DEF ClearTasks, TaskSteps
<1>1. task[c] \in TaskRows
  BY DEF QueueTyped
<1>2. CASE task[c].state \in TerminalTask \cup {"none"}
  <2>1. task'[c] = task[c]
    BY <1>2 DEF ClearTasks
  <2> QED
    BY <1>1, <2>1 DEF TaskMay, TaskInv
<1>3. CASE task[c].state \notin TerminalTask \cup {"none"}
  <2>1. task'[c] = Finished(task[c], "cancelled")
    BY <1>3 DEF ClearTasks, Finished
  <2>2. task'[c] \in TaskRows /\ task'[c].state = "cancelled"
    BY <1>1, <2>1, TaskRowFinished DEF TaskStates
  <2> QED
    BY <1>3, <2>2 DEF TaskMay
<1> QED
  BY <1>2, <1>3

\* An answer is stored once, and only for the question the task asked.
LEMMA AnsweredTask ==
  ASSUME QueueTyped, TaskInv, NEW t \in Threads, AskRow(th[t].task), AnswerTask(t) PROVE TaskSteps
<1>1. CASE task' = task
  BY <1>1, TasksKept
<1>2. CASE task[th[t].task].state = "suspended" /\ task' = [task EXCEPT ![th[t].task].state = "pending"]
  <2>1. PICK row : row = [task[th[t].task] EXCEPT !.state = "pending"]
    OBVIOUS
  <2>2. task' = [task EXCEPT ![th[t].task] = row]
    BY <1>2, <2>1
  <2>3. th[t].task \in Commands /\ task[th[t].task] \in TaskRows
    BY DEF QueueTyped, AskRow, Known
  <2>4. row \in TaskRows /\ row.state = "pending"
    BY <2>1, <2>3, TaskStateWritten DEF TaskStates
  <2>5. TaskMay(th[t].task, row)
    BY <1>2, <2>4 DEF TaskMay, TerminalTask
  <2> QED
    BY <2>2, <2>3, <2>5, TaskReplaced
<1> QED
  BY <1>1, <1>2 DEF AnswerTask

\* TaskStore.claim
LEMMA ClaimedTask ==
  ASSUME QueueTyped, TaskInv, NEW t \in Threads, AskRow(th[t].task), ClaimTask(t) PROVE TaskSteps
<1>1. PICK row : row = [task[th[t].task] EXCEPT !.state = "running", !.lease = "live", !.holder = t]
  OBVIOUS
<1>2. task' = [task EXCEPT ![th[t].task] = row]
  BY <1>1 DEF ClaimTask
<1>3. th[t].task \in Commands /\ task[th[t].task] \in TaskRows
  BY DEF QueueTyped, AskRow, Known
<1>4. row \in TaskRows /\ row.state = "running"
  BY <1>1, <1>3 DEF TaskRows, TaskStates
<1>5. TaskMay(th[t].task, row)
  BY <1>4 DEF TaskMay, ClaimTask, TasksOpen
<1> QED
  BY <1>2, <1>3, <1>5, TaskReplaced

\* A claim that finds a started tool of a dead worker.
LEMMA RefusedTask ==
  ASSUME QueueTyped, TaskInv, NEW t \in Threads, AskRow(th[t].task), ClaimRefused(t) PROVE TaskSteps
<1>1. CASE task' = task
  BY <1>1, TasksKept
<1>2. CASE TasksOpen /\ task' = [task EXCEPT ![th[t].task].state = "uncertain"]
  <2>1. PICK row : row = [task[th[t].task] EXCEPT !.state = "uncertain"]
    OBVIOUS
  <2>2. task' = [task EXCEPT ![th[t].task] = row]
    BY <1>2, <2>1
  <2>3. th[t].task \in Commands /\ task[th[t].task] \in TaskRows
    BY DEF QueueTyped, AskRow, Known
  <2>4. row \in TaskRows /\ row.state = "uncertain"
    BY <2>1, <2>3, TaskStateWritten DEF TaskStates
  <2>5. TaskMay(th[t].task, row)
    BY <1>2, <2>4 DEF TaskMay, TasksOpen
  <2> QED
    BY <2>2, <2>3, <2>5, TaskReplaced
<1> QED
  BY <1>1, <1>2 DEF ClaimRefused

\* The turn ends: with an end, a question or an error.
LEMMA EndedTask ==
  ASSUME QueueTyped, TaskInv, NEW t \in Threads, AskRow(th[t].task), WorkEnds(t) PROVE TaskSteps
<1>1. th[t].task \in Commands /\ task[th[t].task] \in TaskRows /\ task[th[t].task].state = "running"
  BY DEF QueueTyped, AskRow, Known, WorkEnds, Owns
<1>2. CASE \E state \in {"completed", "failed", "cancelled", "uncertain", "pending"} :
             task' = [task EXCEPT ![th[t].task] = Finished(@, state)]
  <2>1. PICK state \in {"completed", "failed", "cancelled", "uncertain", "pending"} :
          task' = [task EXCEPT ![th[t].task] = Finished(@, state)]
    BY <1>2
  <2>2. state \in TaskStates
    BY DEF TaskStates
  <2>3. PICK row : row = Finished(task[th[t].task], state)
    OBVIOUS
  <2>4. row \in TaskRows /\ row.state = state
    BY <1>1, <2>2, <2>3, TaskRowFinished
  <2>5. TaskMay(th[t].task, row)
    BY <1>1, <2>4 DEF TaskMay, TerminalTask
  <2>6. task' = [task EXCEPT ![th[t].task] = row]
    BY <2>1, <2>3
  <2> QED
    BY <1>1, <2>5, <2>6, TaskReplaced
<1>3. CASE /\ task[th[t].task].asked < MaxQuestions
           /\ task' = [task EXCEPT ![th[t].task] = [Finished(task[th[t].task], "suspended")
                                                     EXCEPT !.asked = task[th[t].task].asked + 1]]
  <2>1. PICK done : done = Finished(task[th[t].task], "suspended")
    OBVIOUS
  <2>2. done \in TaskRows /\ done.state = "suspended" /\ done.asked = task[th[t].task].asked
    BY <1>1, <2>1, TaskRowFinished DEF TaskStates
  <2>3. PICK row : row = [done EXCEPT !.asked = task[th[t].task].asked + 1]
    OBVIOUS
  <2>4. task' = [task EXCEPT ![th[t].task] = row]
    BY <1>3, <2>1, <2>3
  <2>5. task[th[t].task].asked + 1 \in Questions /\ task[th[t].task].asked + 1 # 0
    BY <1>1, <1>3, <2>2, QueueAssumption DEF TaskRows, Questions
  <2>6. row \in TaskRows /\ row.state = "suspended" /\ row.asked # 0
    BY <2>2, <2>3, <2>5 DEF TaskRows
  <2>7. TaskMay(th[t].task, row)
    BY <1>1, <2>6 DEF TaskMay, TerminalTask
  <2> QED
    BY <1>1, <2>4, <2>7, TaskReplaced
<1> QED
  BY <1>2, <1>3 DEF WorkEnds

\* A tool starts or returns.
LEMMA ToolTask ==
  ASSUME QueueTyped, TaskInv, NEW t \in Threads, AskRow(th[t].task), ToolStep(t) PROVE TaskSteps
<1>1. th[t].task \in Commands /\ task[th[t].task] \in TaskRows
  BY DEF QueueTyped, AskRow, Known
<1>2. PICK row : row = [task[th[t].task] EXCEPT !.started = ~task[th[t].task].started]
  OBVIOUS
<1>3. task' = [task EXCEPT ![th[t].task] = row]
  BY <1>2 DEF ToolStep
<1>4. row \in TaskRows /\ row.state = task[th[t].task].state /\ row.asked = task[th[t].task].asked
  BY <1>1, <1>2 DEF TaskRows
<1>5. TaskMay(th[t].task, row)
  BY <1>1, <1>4 DEF TaskMay, TaskInv
<1> QED
  BY <1>1, <1>3, <1>5, TaskReplaced

\* /resolve, a lease that runs out, and a crash.
LEMMA OutsideTask ==
  ASSUME QueueTyped, TaskInv, Crash \/ \E c \in Commands : Resolve(c) \/ LeaseExpires(c) PROVE TaskSteps
<1>1. ASSUME NEW c \in Commands, Resolve(c) PROVE TaskSteps
  <2>1. PICK row : row = [task[c] EXCEPT !.state = "pending", !.started = FALSE, !.lease = "null"]
    OBVIOUS
  <2>2. task' = [task EXCEPT ![c] = row]
    BY <1>1, <2>1 DEF Resolve
  <2>3. task[c] \in TaskRows /\ task[c].state = "uncertain"
    BY <1>1 DEF Resolve, QueueTyped
  <2>4. row \in TaskRows /\ row.state = "pending"
    BY <2>1, <2>3 DEF TaskRows, TaskStates
  <2>5. TaskMay(c, row)
    BY <2>3, <2>4 DEF TaskMay, TerminalTask
  <2> QED
    BY <2>2, <2>5, TaskReplaced
<1>2. ASSUME NEW c \in Commands, LeaseExpires(c) PROVE TaskSteps
  <2>1. PICK row : row = [task[c] EXCEPT !.lease = "expired"]
    OBVIOUS
  <2>2. task' = [task EXCEPT ![c] = row]
    BY <1>2, <2>1 DEF LeaseExpires
  <2>3. task[c] \in TaskRows
    BY DEF QueueTyped
  <2>4. row \in TaskRows /\ row.state = task[c].state /\ row.asked = task[c].asked
    BY <2>1, <2>3 DEF TaskRows
  <2>5. TaskMay(c, row)
    BY <2>4 DEF TaskMay, TaskInv
  <2> QED
    BY <2>2, <2>5, TaskReplaced
<1>3. CASE Crash
  <2>1. \A c \in Commands : /\ task'[c] = [task[c] EXCEPT !.holder = NoThread] /\ task[c] \in TaskRows
    BY <1>3 DEF Crash, QueueTyped
  <2>2. \A c \in Commands : task'[c] \in TaskRows /\ task'[c].state = task[c].state /\ task'[c].asked = task[c].asked
    BY <2>1 DEF TaskRows
  <2>3. task' \in [Commands -> TaskRows]
    BY <1>3, <2>2 DEF Crash
  <2> QED
    BY <2>2, <2>3 DEF TaskSteps, TaskMay, TaskInv
<1> QED
  BY <1>1, <1>2, <1>3
\* The steps that read the tasks at most.
LEMMA OtherTasks ==
  ASSUME BeginRound \/ Select \/ MarkFails \/ RecoverTerminal \/ RecoverSettle \/ RecoverSuspended \/ RecoverPending
         \/ MarkControl \/ MarkAsk \/ DoCancel \/ ClearJobs \/ ClearLock \/ CloseControl \/ ConfirmDeletion \/ BeginDeletion
         \/ EraseSession \/ (\E c \in Commands : RecoverRead(c) \/ Ingest(c)) \/ UNCHANGED vars
  PROVE  task' = task
<1>1. CASE BeginRound \/ Select \/ MarkFails \/ RecoverTerminal \/ RecoverSettle \/ RecoverSuspended \/ RecoverPending
  BY <1>1 DEF BeginRound, Select, MarkFails, RecoverTerminal, RecoverSettle, RecoverSuspended, RecoverPending, StoreUnchanged
<1>2. CASE MarkControl \/ MarkAsk \/ DoCancel \/ ClearJobs \/ ClearLock \/ CloseControl
  BY <1>2 DEF MarkControl, MarkAsk, DoCancel, ClearJobs, ClearLock, CloseControl, StoreUnchanged
<1>3. CASE ConfirmDeletion \/ BeginDeletion \/ EraseSession \/ UNCHANGED vars \/ \E c \in Commands : RecoverRead(c) \/ Ingest(c)
  BY <1>3 DEF ConfirmDeletion, BeginDeletion, EraseSession, vars, RecoverRead, Ingest, StoreUnchanged
<1> QED
  BY <1>1, <1>2, <1>3

\* A step of a thread moves a durable task only as a task may move.
LEMMA ThreadTasks ==
  ASSUME QueueTyped, TaskInv, ThreadInv, NEW t \in Threads, ThreadStep(t) \/ ToolStep(t) \/ Spawn(t) PROVE TaskSteps
<1>1. th[t].pc \in {"answer", "claim", "work"} => AskRow(th[t].task)
  BY DEF ThreadInv, WorksFor
<1>2. CASE AnswerTask(t) \/ ClaimTask(t) \/ ClaimRefused(t) \/ WorkEnds(t) \/ ToolStep(t)
  <2>1. AskRow(th[t].task)
    BY <1>1, <1>2 DEF AnswerTask, ClaimTask, ClaimRefused, WorkEnds, ToolStep
  <2> QED
    BY <1>2, <2>1, AnsweredTask, ClaimedTask, RefusedTask, EndedTask, ToolTask
<1>3. CASE Spawn(t) \/ Start(t) \/ Forward(t) \/ Forwarded(t) \/ ForwardFails(t) \/ Enter(t) \/ LockAcquired(t) \/ LockCancelled(t)
           \/ Dispatch(t) \/ DispatchRefused(t)
  <2>1. task' = task
    BY <1>3 DEF Spawn, Start, Forward, Forwarded, ForwardFails, Enter, LockAcquired, LockCancelled, Dispatch, DispatchRefused,
                ThreadOnly, QueueOnly
  <2> QED
    BY <2>1, TasksKept
<1>4. CASE WorkLost(t) \/ Release(t) \/ After(t) \/ WriteCancelled(t) \/ WriteResult(t) \/ Reply(t) \/ Fail(t)
  <2>1. task' = task
    BY <1>4 DEF WorkLost, Release, After, WriteCancelled, WriteResult, Reply, Fail, ThreadOnly, QueueOnly
  <2> QED
    BY <2>1, TasksKept
<1> QED
  BY <1>2, <1>3, <1>4 DEF ThreadStep

\* Every step moves every task as it may.
LEMMA NextTasks ==
  ASSUME QueueTyped, TaskInv, LoopInv, ThreadInv, [Next]_vars PROVE TaskSteps
<1>1. CASE LoopStep
  BY <1>1, OtherTasks, TasksKept, UncertainTask, ClearedTasks, ThreadTasks DEF LoopStep
<1>2. CASE \E t \in Threads : ThreadStep(t) \/ ToolStep(t)
  BY <1>2, ThreadTasks
<1>3. CASE (\E c \in Commands : Ingest(c) \/ Resolve(c) \/ LeaseExpires(c)) \/ ConfirmDeletion \/ BeginDeletion
           \/ EraseSession \/ Crash \/ UNCHANGED vars
  BY <1>3, OtherTasks, TasksKept, OutsideTask
<1> QED
  BY <1>1, <1>2, <1>3 DEF Next

----------------------------------------------------------------------------
(* The rows and the tasks keep their invariants *)

\* A row that is known stays known, and keeps its kind.
LEMMA RowsStay ==
  ASSUME RowSteps
  PROVE  \A c \in Commands : /\ Known(c) => cmd'[c].status # "absent"
                             /\ AskRow(c) => cmd'[c].status # "absent" /\ cmd'[c].kind = "ask"
  BY DEF RowSteps, RowMay, Known, AskRow, StatusOf, Kind

\* A suspended row is a job that asked something, after every step.
LEMMA RowInvKept ==
  ASSUME QueueTyped, RowInv, LoopInv, ThreadInv, [Next]_vars PROVE RowInv'
<1>1. CmdTyped' /\ RowSteps
  BY NextRows
<1> SUFFICES ASSUME NEW c \in Commands, cmd'[c].status = "suspended"
             PROVE  cmd'[c].status # "absent" /\ cmd'[c].kind = "ask" /\ cmd'[c].call # 0
  BY DEF RowInv, AskRow, Known, StatusOf, Kind
<1>2. CASE cmd[c].status = "suspended"
  <2>1. AskRow(c) /\ cmd[c].call # 0
    BY <1>2 DEF RowInv, StatusOf
  <2> QED
    BY <1>1, <2>1, RowsStay DEF RowSteps, RowMay, Over
<1>3. CASE cmd[c].status # "suspended"
  <2>1. IdleForward => cmd' = cmd
    BY DEF IdleForward, Forward
  <2>2. ~QuietStep /\ ~ClosingStep /\ ~StartingStep /\ ~IdleForward
    BY <1>3, <2>1, QuietRows, ClosingRows, StartingRows DEF NoneSuspended
  <2>3. SuspendingStep
    BY <2>2, StepKinds
  <2>4. PICK b : /\ AskRow(b) /\ \A d \in Commands : d # b => cmd'[d] = cmd[d]
                 /\ \/ Suspendable(b) /\ cmd'[b].status = "suspended" /\ cmd'[b].kind = cmd[b].kind /\ cmd'[b].call # 0
                    \/ ~Suspendable(b) /\ cmd'[b] = cmd[b]
    BY <2>3, SuspendingRows
  <2>5. b = c
    BY <1>3, <2>4
  <2> QED
    BY <1>1, <1>3, <2>4, <2>5 DEF AskRow, Known, Kind
<1> QED
  BY <1>2, <1>3

\* A durable task belongs to a job, after every step.
LEMMA TaskInvKept ==
  ASSUME QueueTyped, TaskInv, LoopInv, ThreadInv, [Next]_vars PROVE TaskInv'
<1>1. RowSteps /\ TaskSteps
  BY NextRows, NextTasks
<1>2. \A c \in Commands : task'[c].state # "none" => AskRow(c)
  BY <1>1 DEF TaskSteps, TaskMay, TaskInv
<1> QED
  BY <1>1, <1>2, RowsStay DEF TaskSteps, TaskMay, TaskInv, AskRow, Known, StatusOf, Kind

\* The life of the session: nothing but the erasure ends in deleted, and nothing
\* leads back.
SessionStays ==
  /\ session' \in Sessions
  /\ session # "active" => session' # "active"
  /\ session = "deleted" => session' = "deleted"
  /\ session = "active" /\ session' # "active" => ConfirmDeletion
  /\ session # "deleted" /\ session' = "deleted" => EraseSession

\* No step but the deletion moves the session.
LEMMA NextSession ==
  ASSUME QueueTyped, [Next]_vars PROVE SessionStays
<1>0. session \in Sessions
  BY DEF QueueTyped
<1>1. CASE ConfirmDeletion \/ BeginDeletion \/ EraseSession
  BY <1>0, <1>1 DEF ConfirmDeletion, BeginDeletion, EraseSession, SessionStays, Sessions
<1>2. CASE session' = session
  BY <1>0, <1>2 DEF SessionStays
<1>3. CASE LoopStep /\ ~\E t \in Threads : Spawn(t)
  <2>1. session' = session
    BY <1>3 DEF LoopStep, BeginRound, RecoverTerminal, RecoverUncertain, RecoverSettle, RecoverSuspended, RecoverPending,
                RecoverRead, Select, MarkFails, MarkControl, MarkAsk, DoCancel, ClearTasks, ClearJobs, ClearLock,
                CloseControl, StoreUnchanged
  <2> QED
    BY <1>2, <2>1
<1>4. ASSUME NEW t \in Threads, ThreadStep(t) \/ ToolStep(t) \/ Spawn(t) PROVE session' = session
  <2>1. CASE Spawn(t) \/ Start(t) \/ Forward(t) \/ Forwarded(t) \/ ForwardFails(t) \/ Enter(t) \/ LockAcquired(t)
             \/ LockCancelled(t) \/ Dispatch(t) \/ DispatchRefused(t)
    BY <2>1 DEF Spawn, Start, Forward, Forwarded, ForwardFails, Enter, LockAcquired, LockCancelled, Dispatch, DispatchRefused,
                ThreadOnly, QueueOnly
  <2>2. CASE AnswerTask(t) \/ ClaimTask(t) \/ ClaimRefused(t) \/ WorkEnds(t) \/ ToolStep(t) \/ WorkLost(t) \/ Release(t)
             \/ After(t) \/ WriteCancelled(t) \/ WriteResult(t) \/ Reply(t) \/ Fail(t)
    BY <2>2 DEF AnswerTask, ClaimTask, ClaimRefused, WorkEnds, ToolStep, WorkLost, Release, After, WriteCancelled,
                WriteResult, Reply, Fail, ThreadOnly, QueueOnly
  <2> QED
    BY <1>4, <2>1, <2>2 DEF ThreadStep
<1>5. CASE \E c \in Commands : Ingest(c) \/ Resolve(c) \/ LeaseExpires(c)
  BY <1>2, <1>5 DEF Ingest, Resolve, LeaseExpires
<1>6. CASE Crash \/ UNCHANGED vars
  BY <1>2, <1>6 DEF Crash, vars
<1> QED
  BY <1>1, <1>2, <1>3, <1>4, <1>5, <1>6 DEF Next, LoopStep

\* The statements of the store leave an erased row as it is.
LEMMA ErasedRow ==
  ASSUME CmdTyped, session = "deleted", NEW c \in Commands, cmd[c].status \in {"absent", "deleted"}
  PROVE  /\ \A b, status : UpdateCommand(b, status) => cmd' = cmd
         /\ \A b : CancelCommand(b) => cmd'[c].status = cmd[c].status
         /\ \A b, status : SetRecoveryState(b, status) => cmd'[c] = cmd[c]
<1>1. \A b, status : UpdateCommand(b, status) => cmd' = cmd
  BY DEF UpdateCommand, Open
<1>2. ASSUME NEW b, CancelCommand(b) PROVE cmd'[c].status = cmd[c].status
  <2>1. CASE b = c
    <3>1. cmd[c] \in CmdRows
      BY DEF CmdTyped
    <3>2. CancelledStatus(cmd[c].status) = cmd[c].status
      BY DEF CancelledStatus
    <3>3. cmd' = [cmd EXCEPT ![c] = [cmd[c] EXCEPT !.status = cmd[c].status]]
      BY <1>2, <2>1, <3>2 DEF CancelCommand
    <3>4. cmd[c].status \in Statuses
      BY <3>1 DEF CmdRows
    <3> QED
      BY <3>1, <3>3, <3>4, StatusWritten DEF CmdTyped
  <2>2. CASE b # c
    BY <1>2, <2>2 DEF CancelCommand, CmdTyped
  <2> QED
    BY <2>1, <2>2
<1>3. ASSUME NEW b, NEW status, SetRecoveryState(b, status) PROVE cmd'[c] = cmd[c]
  BY <1>3 DEF SetRecoveryState, RecoveryStatus, StatusOf, CmdTyped
<1> QED
  BY <1>1, <1>2, <1>3

\* Nothing of an erased session comes back.
LEMMA ErasedKept ==
  ASSUME QueueTyped, LoopInv, ThreadInv, ErasedInv, [Next]_vars PROVE ErasedInv'
<1>1. SessionStays /\ RowSteps /\ CmdTyped
  BY NextSession, NextRows DEF QueueTyped
<1> SUFFICES ASSUME session' = "deleted", NEW c \in Commands PROVE cmd'[c].status \in {"absent", "deleted"}
  BY DEF ErasedInv, StatusOf
<1>2. CASE session # "deleted"
  <2>1. EraseSession
    BY <1>1, <1>2 DEF SessionStays
  <2> QED
    BY <2>1, EraseRows DEF QueueTyped
<1>3. CASE session = "deleted"
  <2>0. \A b \in Commands : cmd[b].status \in {"absent", "deleted"}
    BY <1>3 DEF ErasedInv, StatusOf
  <2>1. CASE QuietStep \/ IdleForward
    <3>1. cmd' = cmd
      BY <2>1, QuietRows DEF IdleForward, Forward
    <3> QED
      BY <2>0, <3>1
  <2>2. CASE StartingStep
    <3>1. \A b \in Commands : ~MayRun(b)
      BY <2>0 DEF MayRun, StatusOf
    <3>2. ~MarkControl /\ ~MarkAsk
      BY <3>1 DEF MarkControl, MarkAsk, LoopInv, Known
    <3>3. \A t \in Threads : ~(Forward(t) /\ MayRun(th[t].susp))
      BY <3>1 DEF Forward, ThreadInv, WorksFor, AskRow, Known
    <3> QED
      BY <2>2, <3>2, <3>3 DEF StartingStep
  <2>3. CASE SuspendingStep
    <3>1. PICK b : /\ \A d \in Commands : d # b => cmd'[d] = cmd[d]
                   /\ Suspendable(b) \/ cmd'[b] = cmd[b]
      BY <2>3, SuspendingRows
    <3>2. ~Suspendable(b)
      BY <1>3 DEF Suspendable, Open
    <3> QED
      BY <2>0, <3>1, <3>2
  <2>4. CASE ClosingStep
    <3>1. CASE RecoverTerminal \/ RecoverSettle \/ RecoverPending \/ DoCancel \/ CloseControl
      BY <1>1, <1>3, <2>0, <3>1, ErasedRow
      DEF RecoverTerminal, RecoverSettle, RecoverPending, DoCancel, CloseControl
    <3>2. CASE ClearJobs \/ ClearLock
      BY <2>0, <3>2 DEF ClearJobs, ClearLock, StatusOf
    <3>3. CASE EraseSession \/ \E b \in Commands : Ingest(b)
      BY <1>3, <3>3 DEF EraseSession, Ingest, Open
    <3>4. ASSUME NEW t \in Threads, Forwarded(t) \/ WriteCancelled(t) \/ Fail(t) \/ (WriteResult(t) /\ th[t].out # "question")
          PROVE  cmd' = cmd
      BY <1>1, <1>3, <2>0, <3>4, ErasedRow DEF Forwarded, WriteCancelled, Fail, WriteResult
    <3> QED
      BY <2>0, <2>4, <3>1, <3>2, <3>3, <3>4 DEF ClosingStep
  <2> QED
    BY <2>1, <2>2, <2>3, <2>4, StepKinds
<1> QED
  BY <1>2, <1>3

----------------------------------------------------------------------------
(* The main loop *)

\* Every set of naturals that is not empty has a least element.
LEMMA LeastNatural ==
  ASSUME NEW S, S \subseteq Nat, S # {} PROVE \E x \in S : \A y \in S : x <= y
<1>1. PICK x \in S : \A y \in S : <<y, x>> \notin OpToRel(<, Nat)
  BY WFMin, NatLessThanWellFounded, Zenon
<1>2. \A y \in S : ~(y < x)
  BY <1>1, Zenon DEF OpToRel
<1>3. \A y \in S : y \in Nat /\ x \in Nat
  OBVIOUS
<1> QED
  BY <1>2, <1>3

\* process_next takes a command out of those it may take.
LEMMA FirstAdmissible ==
  ASSUME Admissible # {} PROVE Min(Admissible) \in Admissible
<1>1. Admissible \subseteq Nat
  BY QueueAssumption DEF Admissible, Commands
<1> HIDE DEF Admissible
<1>2. PICK x \in Admissible : \A y \in Admissible : x <= y
  BY <1>1, LeastNatural
<1> QED
  BY <1>2 DEF Min

\* The question of get_suspended_command is that of a suspended job.
LEMMA LatestSuspended ==
  ASSUME SuspendedJob # NoCommand PROVE SuspendedJob \in SuspendedJobs /\ cmd[SuspendedJob].call # 0
<1> DEFINE Rest == {n \in Nat : \E c \in SuspendedJobs : n = NCommands - c}
<1>1. SuspendedJobs # {} /\ SuspendedJob = Max(SuspendedJobs) /\ cmd[SuspendedJob].call # 0
  BY DEF SuspendedJob
<1>2. SuspendedJobs \subseteq 1..NCommands /\ NCommands \in Nat
  BY QueueAssumption DEF SuspendedJobs, Commands
<1> HIDE DEF SuspendedJobs
<1>3. Rest # {} /\ Rest \subseteq Nat
  <2>1. PICK c : c \in SuspendedJobs
    BY <1>1
  <2>2. NCommands - c \in Nat
    BY <1>2, <2>1
  <2>3. NCommands - c \in Rest
    BY <2>1, <2>2
  <2> QED
    BY <2>3
<1>4. PICK n \in Rest : \A m \in Rest : n <= m
  BY <1>3, LeastNatural
<1>5. PICK c \in SuspendedJobs : n = NCommands - c
  BY <1>4
<1>6. \A d \in SuspendedJobs : c >= d
  <2> SUFFICES ASSUME NEW d \in SuspendedJobs PROVE c >= d
    OBVIOUS
  <2>1. NCommands - d \in Rest
    BY <1>2
  <2>2. n <= NCommands - d
    BY <1>4, <2>1
  <2> HIDE DEF Rest
  <2> QED
    BY <1>2, <1>5, <2>2
<1>7. Max(SuspendedJobs) \in SuspendedJobs
  BY <1>6 DEF Max
<1> QED
  BY <1>1, <1>7

\* While the loop stands still, what it knows of its row stays true.
LEMMA LoopSame ==
  ASSUME QueueTyped, LoopInv, RowSteps, TaskSteps, loop' = loop PROVE LoopInv'
<1>1. Known(loop.cmd) => /\ loop.cmd \in Commands /\ cmd'[loop.cmd].status # "absent"
                         /\ cmd'[loop.cmd].kind = cmd[loop.cmd].kind
  BY DEF RowSteps, RowMay, Known, StatusOf
<1>2. loop.cmd \in Commands /\ task[loop.cmd].state # "none" => task'[loop.cmd].state # "none"
  BY DEF TaskSteps, TaskMay
<1> QED
  BY <1>1, <1>2 DEF LoopInv, AskRow, Known, StatusOf, Kind

\* The loop between two rounds is well typed.
LEMMA NoneSeen == NotSeen \in [state : TaskStates, started : BOOLEAN, asked : Questions] /\ IdleLoop \in LoopRows
  BY QueueAssumption DEF NotSeen, IdleLoop, LoopRows, LoopPcs, TaskStates, Questions, NoCommand

\* The round of the recovery.
LEMMA RecoveryLoop ==
  ASSUME QueueTyped, TaskInv, LoopInv, RowSteps, TaskSteps,
         BeginRound \/ RecoverTerminal \/ RecoverUncertain \/ RecoverSettle \/ RecoverSuspended \/ RecoverPending
         \/ \E c \in Commands : RecoverRead(c)
  PROVE  loop' \in LoopRows /\ LoopInv'
<1>0. loop \in LoopRows
  BY DEF QueueTyped
<1>1. CASE BeginRound
  <2>1. loop' \in LoopRows /\ loop'.pc = "recover"
    BY <1>0, <1>1 DEF BeginRound, LoopRows, LoopPcs
  <2> QED
    BY <2>1 DEF LoopInv
<1>2. CASE NextRecovery
  <2>1. loop' \in LoopRows /\ loop'.pc = "recover"
    BY <1>0, <1>2, NoneSeen DEF NextRecovery, LoopRows, LoopPcs
  <2> QED
    BY <2>1 DEF LoopInv
<1>3. CASE loop.pc = "resolve" /\ loop' = [loop EXCEPT !.pc = "settle"]
  <2>1. loop' \in LoopRows /\ loop'.pc = "settle" /\ loop'.cmd = loop.cmd /\ loop'.seen = loop.seen
    BY <1>0, <1>3 DEF LoopRows, LoopPcs
  <2>2. AskRow(loop.cmd) /\ task[loop.cmd].state # "none"
    BY <1>3 DEF LoopInv
  <2>3. loop.cmd \in Commands /\ cmd'[loop.cmd].status # "absent" /\ cmd'[loop.cmd].kind = "ask"
    BY <2>2, RowsStay DEF AskRow, Known
  <2>4. task'[loop.cmd].state # "none"
    BY <2>2, <2>3 DEF TaskSteps, TaskMay
  <2> QED
    BY <1>3, <2>1, <2>3, <2>4 DEF LoopInv, AskRow, Known, StatusOf, Kind
<1>4. CASE \E c \in Commands : RecoverRead(c)
  <2>1. PICK c \in Commands : RecoverRead(c)
    BY <1>4
  <2>2. CASE Skipped(c)
    <3>1. loop' \in LoopRows /\ loop'.pc = "recover"
      BY <1>0, <2>1, <2>2 DEF RecoverRead, LoopRows
    <3> QED
      BY <3>1 DEF LoopInv
  <2>3. CASE ~Skipped(c)
    <3>1. task[c] \in TaskRows /\ task[c].state # "none"
      BY <2>3 DEF Skipped, QueueTyped
    <3>2. PICK seen : seen = [state |-> task[c].state, started |-> task[c].started, asked |-> task[c].asked]
      OBVIOUS
    <3>3. seen \in [state : TaskStates, started : BOOLEAN, asked : Questions]
          /\ seen.state # "none" /\ (seen.state = "suspended" => seen.asked # 0)
      BY <3>1, <3>2 DEF TaskRows, TaskInv
    <3>4. loop' = [loop EXCEPT !.pc = "resolve", !.cmd = c, !.seen = seen]
      BY <2>1, <2>3, <3>2 DEF RecoverRead
    <3>5. loop' \in LoopRows /\ loop'.pc = "resolve" /\ loop'.cmd = c /\ loop'.seen = seen
      BY <1>0, <3>3, <3>4 DEF LoopRows, LoopPcs
    <3>6. AskRow(c)
      BY <3>1 DEF TaskInv
    <3>7. cmd'[c].status # "absent" /\ cmd'[c].kind = "ask" /\ task'[c].state # "none"
      BY <3>1, <3>6, RowsStay DEF TaskSteps, TaskMay
    <3> QED
      BY <3>3, <3>5, <3>7 DEF LoopInv, AskRow, Known, StatusOf, Kind
  <2> QED
    BY <2>2, <2>3
<1> QED
  BY <1>1, <1>2, <1>3, <1>4 DEF RecoverTerminal, RecoverUncertain, RecoverSettle, RecoverSuspended, RecoverPending

\* The admission of a command and the control commands.
LEMMA AdmissionLoop ==
  ASSUME QueueTyped, LoopInv, RowSteps,
         Select \/ MarkFails \/ MarkControl \/ MarkAsk \/ DoCancel \/ ClearTasks \/ ClearJobs \/ ClearLock \/ CloseControl
         \/ Crash \/ \E t \in Threads : Spawn(t)
  PROVE  loop' \in LoopRows /\ LoopInv'
<1>0. loop \in LoopRows
  BY DEF QueueTyped
<1>1. CASE loop' = IdleLoop
  <2>1. IdleLoop.pc = "idle"
    BY DEF IdleLoop
  <2> QED
    BY <1>1, <2>1, NoneSeen DEF LoopInv
<1>2. CASE Select /\ Admissible # {}
  <2>1. Min(Admissible) \in Commands /\ StatusOf(Min(Admissible)) = "pending"
    BY <1>2, FirstAdmissible DEF Admissible
  <2>2. loop' = [IdleLoop EXCEPT !.pc = "mark", !.cmd = Min(Admissible)]
    BY <1>2 DEF Select
  <2>3. loop' \in LoopRows /\ loop'.pc = "mark" /\ loop'.cmd = Min(Admissible)
    BY <2>1, <2>2, NoneSeen DEF LoopRows, LoopPcs
  <2>4. cmd' = cmd
    BY <1>2 DEF Select
  <2> QED
    BY <2>1, <2>3, <2>4 DEF LoopInv, Known, StatusOf
<1>3. ASSUME Known(loop.cmd), NEW pc \in {"spawn", "control", "clear_jobs", "clear_lock", "close"}, loop' = [loop EXCEPT !.pc = pc],
             pc = "spawn" => Kind(loop.cmd) = "ask",
             pc # "spawn" => Kind(loop.cmd) # "ask",
             pc \in {"clear_jobs", "clear_lock"} => Kind(loop.cmd) = "clear"
      PROVE  loop' \in LoopRows /\ LoopInv'
  <2>1. loop' \in LoopRows /\ loop'.pc = pc /\ loop'.cmd = loop.cmd
    BY <1>0, <1>3 DEF LoopRows, LoopPcs
  <2>2. loop.cmd \in Commands /\ cmd'[loop.cmd].status # "absent" /\ cmd'[loop.cmd].kind = cmd[loop.cmd].kind
    BY <1>3 DEF RowSteps, RowMay, Known, StatusOf
  <2> QED
    BY <1>3, <2>1, <2>2 DEF LoopInv, AskRow, Known, StatusOf, Kind
<1>4. CASE MarkControl \/ MarkAsk
  <2>1. Known(loop.cmd)
    BY <1>4 DEF MarkControl, MarkAsk, LoopInv
  <2> QED
    BY <1>3, <1>4, <2>1 DEF MarkControl, MarkAsk
<1>5. CASE DoCancel \/ ClearTasks \/ ClearJobs \/ ClearLock
  <2>1. Known(loop.cmd) /\ Kind(loop.cmd) # "ask"
    BY <1>5 DEF DoCancel, ClearTasks, ClearJobs, ClearLock, LoopInv
  <2>2. ClearTasks \/ ClearJobs => Kind(loop.cmd) = "clear"
    BY DEF ClearTasks, ClearJobs, LoopInv
  <2> QED
    BY <1>3, <1>5, <2>1, <2>2 DEF DoCancel, ClearTasks, ClearJobs, ClearLock
<1> QED
  BY <1>1, <1>2, <1>4, <1>5 DEF Select, MarkFails, CloseControl, Crash, Spawn

\* Every step leaves the loop on a row its next step is for.
LEMMA LoopInvKept ==
  ASSUME QueueTyped, TaskInv, LoopInv, ThreadInv, [Next]_vars PROVE loop' \in LoopRows /\ LoopInv'
<1>1. RowSteps /\ TaskSteps
  BY NextRows, NextTasks
<1>2. CASE loop' = loop
  BY <1>1, <1>2, LoopSame DEF QueueTyped
<1>3. CASE LoopStep \/ Crash
  BY <1>1, <1>3, RecoveryLoop, AdmissionLoop DEF LoopStep
<1>4. CASE \E t \in Threads : ThreadStep(t) \/ ToolStep(t)
  <2>1. PICK t \in Threads : ThreadStep(t) \/ ToolStep(t)
    BY <1>4
  <2>2. CASE Start(t) \/ Forward(t) \/ Forwarded(t) \/ ForwardFails(t) \/ Enter(t) \/ LockAcquired(t)
             \/ LockCancelled(t) \/ Dispatch(t) \/ DispatchRefused(t)
    BY <1>2, <2>2 DEF Start, Forward, Forwarded, ForwardFails, Enter, LockAcquired, LockCancelled, Dispatch, DispatchRefused,
                ThreadOnly, QueueOnly
  <2>3. CASE AnswerTask(t) \/ ClaimTask(t) \/ ClaimRefused(t) \/ WorkEnds(t) \/ ToolStep(t) \/ WorkLost(t) \/ Release(t)
             \/ After(t) \/ WriteCancelled(t) \/ WriteResult(t) \/ Reply(t) \/ Fail(t)
    BY <1>2, <2>3 DEF AnswerTask, ClaimTask, ClaimRefused, WorkEnds, ToolStep, WorkLost, Release, After, WriteCancelled,
                WriteResult, Reply, Fail, ThreadOnly, QueueOnly
  <2> QED
    BY <2>1, <2>2, <2>3 DEF ThreadStep
<1>5. CASE (\E c \in Commands : Ingest(c) \/ Resolve(c) \/ LeaseExpires(c)) \/ ConfirmDeletion \/ BeginDeletion
           \/ EraseSession \/ UNCHANGED vars
  BY <1>2, <1>5 DEF Ingest, Resolve, LeaseExpires, ConfirmDeletion, BeginDeletion, EraseSession, vars
<1> QED
  BY <1>3, <1>4, <1>5 DEF Next
----------------------------------------------------------------------------
(* The threads *)

\* What a thread knows of its rows stays true.
LEMMA WorksForKept ==
  ASSUME RowSteps, NEW row, WorksFor(row) PROVE WorksFor(row)'
<1>1. \A c : AskRow(c) => c \in Commands /\ cmd'[c].status # "absent" /\ cmd'[c].kind = "ask"
  BY RowsStay DEF AskRow, Known
<1>2. \A c : AskRow(c) /\ (cmd[c].call # 0 \/ StatusOf(c) \in Over) => cmd'[c].call # 0 \/ cmd'[c].status \in Over
  BY DEF RowSteps, RowMay, AskRow, Known, StatusOf
<1> QED
  BY <1>1, <1>2 DEF WorksFor, AskRow, Known, StatusOf, Kind

\* A thread between two commands.
LEMMA IdleTyped == IdleThread \in ThreadRows /\ IdleThread.pc = "idle" /\ 0 \in Questions /\ NoCommand \in Commands \cup {NoCommand}
  BY QueueAssumption DEF IdleThread, ThreadRows, ThreadPcs, Questions, Generations, NoCommand

\* The threads stand still.
LEMMA ThreadsSame ==
  ASSUME QueueTyped, ThreadInv, RowSteps, th' = th PROVE th' \in [Threads -> ThreadRows] /\ ThreadInv'
<1>1. \A t \in Threads : th[t].pc # "idle" => WorksFor(th[t])'
  BY WorksForKept DEF ThreadInv
<1> QED
  BY <1>1 DEF ThreadInv, QueueTyped

\* One thread moves.
LEMMA ThreadMoves ==
  ASSUME QueueTyped, ThreadInv, RowSteps, NEW t \in Threads, NEW row \in ThreadRows,
         row.pc # "idle" => WorksFor(row), th' = [th EXCEPT ![t] = row]
  PROVE  th' \in [Threads -> ThreadRows] /\ ThreadInv'
<1>1. th' \in [Threads -> ThreadRows] /\ th'[t] = row /\ \A u \in Threads : u # t => th'[u] = th[u]
  BY DEF QueueTyped
<1>2. \A r : WorksFor(r) => WorksFor(r)'
  BY WorksForKept
<1>3. ASSUME NEW u \in Threads, th'[u].pc # "idle" PROVE WorksFor(th[u])' 
  <2>1. WorksFor(th'[u])
    BY <1>1, <1>3 DEF ThreadInv
  <2>2. PICK r : r = th'[u]
    OBVIOUS
  <2>3. WorksFor(r)'
    BY <1>2, <2>1, <2>2
  <2> QED
    BY <2>2, <2>3
<1> QED
  BY <1>1, <1>3 DEF ThreadInv

\* A thread that goes to another statement.
LEMMA ThreadGoes ==
  ASSUME QueueTyped, ThreadInv, RowSteps, NEW t \in Threads, NEW pc \in ThreadPcs \ {"idle"}, Go(t, pc), th[t].pc # "idle",
         pc \in {"start", "forward", "forwarded"} => th[t].pc \in {"start", "forward", "forwarded"},
         pc \in {"forward", "forwarded"} => th[t].susp # NoCommand,
         pc \in {"answer", "claim", "work"} => th[t].pc \in {"answer", "claim", "work"},
         pc \in {"release", "after", "write"} => th[t].pc \in {"release", "after", "write"}
  PROVE  th' \in [Threads -> ThreadRows] /\ ThreadInv'
<1>1. th[t] \in ThreadRows /\ WorksFor(th[t])
  BY DEF QueueTyped, ThreadInv
<1>2. PICK row : row = [th[t] EXCEPT !.pc = pc]
  OBVIOUS
<1>3. /\ row \in ThreadRows /\ row.pc = pc /\ row.cmd = th[t].cmd /\ row.target = th[t].target /\ row.task = th[t].task
      /\ row.susp = th[t].susp /\ row.call = th[t].call /\ row.out = th[t].out
  BY <1>1, <1>2 DEF ThreadRows
<1>4. WorksFor(row)
  BY <1>1, <1>3 DEF WorksFor
<1>5. th' = [th EXCEPT ![t] = row]
  BY <1>2 DEF Go
<1> QED
  BY <1>3, <1>4, <1>5, ThreadMoves
\* The steps before the session lock.
LEMMA ThreadWaits ==
  ASSUME QueueTyped, ThreadInv, RowSteps, NEW t \in Threads,
         Start(t) \/ Forward(t) \/ Forwarded(t) \/ ForwardFails(t) \/ Enter(t) \/ LockAcquired(t) \/ LockCancelled(t)
  PROVE  th' \in [Threads -> ThreadRows] /\ ThreadInv'
<1>0. th[t] \in ThreadRows /\ (th[t].pc # "idle" => WorksFor(th[t])) /\ gen \in Generations
  BY DEF QueueTyped, ThreadInv
<1>1. CASE Start(t)
  <2>1. \E pc \in {"fail", "forward", "enter"} : Go(t, pc) /\ (pc = "forward" => th[t].susp # NoCommand)
    BY <1>1 DEF Start
  <2> QED
    BY <1>1, <2>1, ThreadGoes DEF Start, ThreadPcs
<1>2. CASE Forward(t) /\ Go(t, "forwarded")
  <2>1. th[t].susp # NoCommand
    BY <1>0, <1>2 DEF Forward, WorksFor
  <2> QED
    BY <1>2, <2>1, ThreadGoes DEF Forward, ThreadPcs
<1>3. CASE /\ Forward(t) \/ ForwardFails(t)
           /\ th' = [th EXCEPT ![t].pc = "enter", ![t].susp = NoCommand]
  <2>1. PICK row : row = [th[t] EXCEPT !.pc = "enter", !.susp = NoCommand]
    OBVIOUS
  <2>2. th' = [th EXCEPT ![t] = row]
    BY <1>3, <2>1
  <2>3. row \in ThreadRows /\ row.pc = "enter" /\ row.cmd = th[t].cmd /\ row.target = th[t].target /\ row.susp = NoCommand
    BY <1>0, <2>1 DEF ThreadRows, ThreadPcs
  <2>4. WorksFor(th[t]) /\ th[t].target = th[t].cmd
    BY <1>0, <1>3 DEF Forward, ForwardFails, WorksFor
  <2>5. WorksFor(row)
    BY <2>3, <2>4 DEF WorksFor
  <2> QED
    BY <2>2, <2>3, <2>5, ThreadMoves
<1>4. CASE Forwarded(t)
  <2>1. PICK row : row = [th[t] EXCEPT !.pc = "enter", !.target = th[t].susp]
    OBVIOUS
  <2>2. th' = [th EXCEPT ![t] = row]
    BY <1>4, <2>1 DEF Forwarded
  <2>3. row \in ThreadRows /\ row.pc = "enter" /\ row.cmd = th[t].cmd /\ row.target = th[t].susp /\ row.susp = th[t].susp
    BY <1>0, <2>1 DEF ThreadRows, ThreadPcs
  <2>4. WorksFor(th[t]) /\ th[t].susp # NoCommand
    BY <1>0, <1>4 DEF Forwarded, WorksFor
  <2>5. WorksFor(row)
    BY <2>3, <2>4 DEF WorksFor
  <2> QED
    BY <2>2, <2>3, <2>5, ThreadMoves
<1>5. CASE Enter(t)
  <2>1. PICK row : row = [th[t] EXCEPT !.pc = "wait", !.gen = gen]
    OBVIOUS
  <2>2. th' = [th EXCEPT ![t] = row]
    BY <1>5, <2>1 DEF Enter
  <2>3. row \in ThreadRows /\ row.pc = "wait" /\ row.cmd = th[t].cmd /\ row.target = th[t].target /\ row.susp = th[t].susp
    BY <1>0, <2>1 DEF ThreadRows, ThreadPcs
  <2>4. WorksFor(th[t])
    BY <1>0, <1>5 DEF Enter
  <2>5. WorksFor(row)
    BY <2>3, <2>4 DEF WorksFor
  <2> QED
    BY <2>2, <2>3, <2>5, ThreadMoves
<1>6. CASE LockAcquired(t)
  BY <1>6, ThreadGoes DEF LockAcquired, ThreadPcs
<1>7. CASE LockCancelled(t)
  <2>1. PICK row : row = [th[t] EXCEPT !.pc = "after", !.out = "reply"]
    OBVIOUS
  <2>2. th' = [th EXCEPT ![t] = row]
    BY <1>7, <2>1 DEF LockCancelled
  <2>3. row \in ThreadRows /\ row.pc = "after" /\ row.out = "reply" /\ row.cmd = th[t].cmd /\ row.target = th[t].target
        /\ row.susp = th[t].susp
    BY <1>0, <2>1 DEF ThreadRows, ThreadPcs
  <2>4. WorksFor(th[t])
    BY <1>0, <1>7 DEF LockCancelled
  <2>5. WorksFor(row)
    BY <2>3, <2>4 DEF WorksFor
  <2> QED
    BY <2>2, <2>3, <2>5, ThreadMoves
<1>8. Forward(t) => Go(t, "forwarded") \/ th' = [th EXCEPT ![t].pc = "enter", ![t].susp = NoCommand]
  BY DEF Forward
<1> QED
  BY <1>1, <1>2, <1>3, <1>4, <1>5, <1>6, <1>7, <1>8 DEF ForwardFails

\* A turn ends without a question.
LEMMA ThreadReleases ==
  ASSUME QueueTyped, ThreadInv, RowSteps, NEW t \in Threads, th[t].pc # "idle", NEW out \in {"reply", "error"},
         th' = [th EXCEPT ![t].pc = "release", ![t].out = out]
  PROVE  th' \in [Threads -> ThreadRows] /\ ThreadInv'
<1>0. th[t] \in ThreadRows /\ WorksFor(th[t])
  BY DEF QueueTyped, ThreadInv
<1>1. PICK row : row = [th[t] EXCEPT !.pc = "release", !.out = out]
  OBVIOUS
<1>2. th' = [th EXCEPT ![t] = row]
  BY <1>1
<1>3. row \in ThreadRows /\ row.pc = "release" /\ row.out = out /\ row.cmd = th[t].cmd /\ row.target = th[t].target
      /\ row.susp = th[t].susp
  BY <1>0, <1>1 DEF ThreadRows, ThreadPcs
<1>4. WorksFor(row)
  BY <1>0, <1>3 DEF WorksFor
<1> QED
  BY <1>2, <1>3, <1>4, ThreadMoves

\* run() under the lock: the thread takes up the task of an ordinary message.
LEMMA ThreadDispatches ==
  ASSUME QueueTyped, TaskInv, ThreadInv, RowSteps, NEW t \in Threads, Dispatch(t) \/ DispatchRefused(t)
  PROVE  th' \in [Threads -> ThreadRows] /\ ThreadInv'
<1>0. th[t] \in ThreadRows /\ WorksFor(th[t]) /\ th[t].pc # "idle"
  BY DEF QueueTyped, ThreadInv, Dispatch, DispatchRefused
<1>1. ASSUME NEW pc \in {"answer", "claim"}, NEW c, AskRow(c), NEW call \in Questions,
             th' = [th EXCEPT ![t] = [th[t] EXCEPT !.pc = pc, !.task = c, !.call = call]]
      PROVE  th' \in [Threads -> ThreadRows] /\ ThreadInv'
  <2>1. PICK row : row = [th[t] EXCEPT !.pc = pc, !.task = c, !.call = call]
    OBVIOUS
  <2>2. c \in Commands \cup {NoCommand}
    BY <1>1 DEF AskRow, Known
  <2>3. row \in ThreadRows /\ row.pc = pc /\ row.task = c /\ row.cmd = th[t].cmd /\ row.target = th[t].target
        /\ row.susp = th[t].susp
    BY <1>0, <2>1, <2>2 DEF ThreadRows, ThreadPcs
  <2>4. WorksFor(row)
    BY <1>0, <1>1, <2>3 DEF WorksFor
  <2> QED
    BY <1>1, <2>1, <2>3, <2>4, ThreadMoves
<1>2. CASE /\ th[t].susp # NoCommand
           /\ th' = [th EXCEPT ![t].pc = "answer", ![t].task = th[t].susp]
  <2>1. AskRow(th[t].susp) /\ th[t].call \in Questions
    BY <1>0, <1>2 DEF WorksFor, ThreadRows
  <2>2. [th[t] EXCEPT !.pc = "answer", !.task = th[t].susp] = [th[t] EXCEPT !.pc = "answer", !.task = th[t].susp, !.call = th[t].call]
    BY <1>0 DEF ThreadRows
  <2>3. th' = [th EXCEPT ![t] = [th[t] EXCEPT !.pc = "answer", !.task = th[t].susp]]
    BY <1>2
  <2> QED
    BY <1>1, <2>1, <2>2, <2>3
<1>3. CASE \E c \in SuspendedTasks : th' = [th EXCEPT ![t].pc = "answer", ![t].task = c, ![t].call = task[c].asked]
  <2>1. PICK c \in SuspendedTasks : th' = [th EXCEPT ![t].pc = "answer", ![t].task = c, ![t].call = task[c].asked]
    BY <1>3
  <2>2. c \in Commands /\ task[c].state = "suspended"
    BY DEF SuspendedTasks
  <2>3. AskRow(c) /\ task[c].asked \in Questions
    BY <2>2 DEF TaskInv, QueueTyped, TaskRows
  <2> QED
    BY <1>1, <2>1, <2>3
<1>4. CASE th' = [th EXCEPT ![t].pc = "claim", ![t].task = th[t].target]
  <2>1. AskRow(th[t].target) /\ th[t].call \in Questions
    BY <1>0 DEF WorksFor, ThreadRows
  <2>2. [th[t] EXCEPT !.pc = "claim", !.task = th[t].target] = [th[t] EXCEPT !.pc = "claim", !.task = th[t].target, !.call = th[t].call]
    BY <1>0 DEF ThreadRows
  <2>3. th' = [th EXCEPT ![t] = [th[t] EXCEPT !.pc = "claim", !.task = th[t].target]]
    BY <1>4
  <2> QED
    BY <1>1, <2>1, <2>2, <2>3
<1>5. CASE DispatchRefused(t)
  <2>1. \E out \in {"reply", "error"} : th' = [th EXCEPT ![t].pc = "release", ![t].out = out]
    BY <1>5 DEF DispatchRefused
  <2> QED
    BY <1>0, <2>1, ThreadReleases
<1> QED
  BY <1>2, <1>3, <1>4, <1>5 DEF Dispatch

\* The turn, from the answer or the claim to its end.
LEMMA ThreadWorks ==
  ASSUME QueueTyped, ThreadInv, RowSteps, NEW t \in Threads,
         AnswerTask(t) \/ ClaimTask(t) \/ ClaimRefused(t) \/ WorkEnds(t) \/ WorkLost(t)
  PROVE  th' \in [Threads -> ThreadRows] /\ ThreadInv'
<1>0. th[t] \in ThreadRows /\ WorksFor(th[t]) /\ th[t].pc \in {"answer", "claim", "work"}
  BY DEF QueueTyped, ThreadInv, AnswerTask, ClaimTask, ClaimRefused, WorkEnds, WorkLost
<1>1. CASE \E out \in {"reply", "error"} : th' = [th EXCEPT ![t].pc = "release", ![t].out = out]
  BY <1>0, <1>1, ThreadReleases
<1>2. CASE AnswerTask(t) /\ th' = [th EXCEPT ![t].pc = "claim", ![t].call = 0]
  <2>1. PICK row : row = [th[t] EXCEPT !.pc = "claim", !.call = 0]
    OBVIOUS
  <2>2. th' = [th EXCEPT ![t] = row]
    BY <1>2, <2>1
  <2>3. row \in ThreadRows /\ row.pc = "claim" /\ row.cmd = th[t].cmd /\ row.target = th[t].target /\ row.susp = th[t].susp
        /\ row.task = th[t].task
    BY <1>0, <2>1, IdleTyped DEF ThreadRows, ThreadPcs
  <2>4. WorksFor(row)
    BY <1>0, <2>3 DEF WorksFor
  <2> QED
    BY <2>2, <2>3, <2>4, ThreadMoves
<1>3. CASE ClaimTask(t)
  BY <1>0, <1>3, ThreadGoes DEF ClaimTask, ThreadPcs
<1>4. CASE /\ WorkEnds(t) /\ task[th[t].task].asked < MaxQuestions
           /\ th' = [th EXCEPT ![t].pc = "release", ![t].out = "question", ![t].call = task[th[t].task].asked + 1]
  <2>0. th[t].task \in Commands /\ task[th[t].task].asked \in Questions
    BY <1>0 DEF QueueTyped, TaskRows, WorksFor, AskRow, Known
  <2>1. PICK call : call = task[th[t].task].asked + 1
    OBVIOUS
  <2>2. call \in Questions /\ call # 0
    BY <1>4, <2>0, <2>1, QueueAssumption DEF Questions
  <2>3. PICK row : row = [th[t] EXCEPT !.pc = "release", !.out = "question", !.call = call]
    OBVIOUS
  <2>4. th' = [th EXCEPT ![t] = row]
    BY <1>4, <2>1, <2>3
  <2>5. row \in ThreadRows /\ row.pc = "release" /\ row.call = call /\ row.cmd = th[t].cmd /\ row.target = th[t].target
        /\ row.susp = th[t].susp
    BY <1>0, <2>2, <2>3 DEF ThreadRows, ThreadPcs
  <2>6. WorksFor(row)
    BY <1>0, <2>2, <2>5 DEF WorksFor
  <2> QED
    BY <2>4, <2>5, <2>6, ThreadMoves
<1>5. AnswerTask(t) => th' = [th EXCEPT ![t].pc = "claim", ![t].call = 0]
                       \/ th' = [th EXCEPT ![t].pc = "release", ![t].out = "error"]
  BY DEF AnswerTask
<1>6. ClaimRefused(t) \/ WorkLost(t) => \E out \in {"reply", "error"} : th' = [th EXCEPT ![t].pc = "release", ![t].out = out]
  BY DEF ClaimRefused, WorkLost
<1>7. WorkEnds(t) => \/ \E out \in {"reply", "error"} : th' = [th EXCEPT ![t].pc = "release", ![t].out = out]
                     \/ /\ task[th[t].task].asked < MaxQuestions
                        /\ th' = [th EXCEPT ![t].pc = "release", ![t].out = "question", ![t].call = task[th[t].task].asked + 1]
  BY DEF WorkEnds
<1> QED
  BY <1>1, <1>2, <1>3, <1>4, <1>5, <1>6, <1>7

\* From the end of the turn to the end of the thread.
LEMMA ThreadSettles ==
  ASSUME QueueTyped, ThreadInv, RowSteps, NEW t \in Threads,
         Release(t) \/ After(t) \/ WriteCancelled(t) \/ WriteResult(t) \/ Reply(t) \/ Fail(t)
  PROVE  th' \in [Threads -> ThreadRows] /\ ThreadInv'
<1>1. CASE Release(t)
  <2>1. \E pc \in {"fail", "after"} : Go(t, pc)
    BY <1>1 DEF Release
  <2> QED
    BY <1>1, <2>1, ThreadGoes DEF Release, ThreadPcs
<1>2. CASE After(t)
  <2>1. \E pc \in {"cancelled", "write"} : Go(t, pc)
    BY <1>2 DEF After
  <2> QED
    BY <1>2, <2>1, ThreadGoes DEF After, ThreadPcs
<1>3. CASE WriteCancelled(t) \/ WriteResult(t)
  BY <1>3, ThreadGoes DEF WriteCancelled, WriteResult, ThreadPcs
<1>4. CASE Reply(t) /\ Go(t, "fail")
  BY <1>4, ThreadGoes DEF Reply, ThreadPcs
<1>5. CASE th' = [th EXCEPT ![t] = IdleThread]
  <2>1. IdleThread \in ThreadRows /\ IdleThread.pc = "idle"
    BY IdleTyped
  <2> QED
    BY <1>5, <2>1, ThreadMoves
<1>6. Reply(t) => Go(t, "fail") \/ th' = [th EXCEPT ![t] = IdleThread]
  BY DEF Reply, Go
<1>7. Fail(t) => th' = [th EXCEPT ![t] = IdleThread]
  BY DEF Fail
<1> QED
  BY <1>1, <1>2, <1>3, <1>4, <1>5, <1>6, <1>7

\* The main loop starts a thread for the command it has marked.
LEMMA ThreadSpawned ==
  ASSUME QueueTyped, RowInv, LoopInv, ThreadInv, RowSteps, NEW t \in Threads, Spawn(t)
  PROVE  th' \in [Threads -> ThreadRows] /\ ThreadInv'
<1>0. AskRow(loop.cmd)
  BY DEF Spawn, LoopInv
<1>1. SuspendedJob # NoCommand => AskRow(SuspendedJob) /\ cmd[SuspendedJob].call # 0 /\ cmd[SuspendedJob].call \in Questions
  BY LatestSuspended DEF SuspendedJobs, RowInv, QueueTyped, CmdTyped, CmdRows
<1>2. PICK susp : susp = SuspendedJob
  OBVIOUS
<1>3. PICK call : call = IF susp = NoCommand THEN 0 ELSE cmd[susp].call
  OBVIOUS
<1>4. susp \in Commands \cup {NoCommand} /\ call \in Questions
  BY <1>1, <1>2, <1>3, QueueAssumption DEF AskRow, Known, Questions
<1>5. PICK row : row = [IdleThread EXCEPT !.pc = "start", !.cmd = loop.cmd, !.target = loop.cmd, !.susp = susp, !.call = call]
  OBVIOUS
<1>6. th' = [th EXCEPT ![t] = row]
  BY <1>2, <1>3, <1>5 DEF Spawn
<1>7. /\ row \in ThreadRows /\ row.pc = "start" /\ row.cmd = loop.cmd /\ row.target = loop.cmd /\ row.susp = susp
      /\ row.out = "none"
  <2>1. PICK idle : idle = IdleThread
    OBVIOUS
  <2>2. idle \in ThreadRows /\ idle.out = "none"
    BY <2>1, IdleTyped DEF IdleThread
  <2>3. row = [idle EXCEPT !.pc = "start", !.cmd = loop.cmd, !.target = loop.cmd, !.susp = susp, !.call = call]
    BY <1>5, <2>1
  <2>4. loop.cmd \in Commands
    BY <1>0 DEF AskRow, Known
  <2> QED
    BY <1>4, <2>2, <2>3, <2>4 DEF ThreadRows, ThreadPcs
<1>8. WorksFor(row)
  BY <1>0, <1>1, <1>2, <1>7 DEF WorksFor
<1> QED
  BY <1>6, <1>7, <1>8, ThreadMoves

\* Every step leaves every thread with rows its next step is for.
LEMMA ThreadInvKept ==
  ASSUME QueueTyped, RowInv, TaskInv, LoopInv, ThreadInv, [Next]_vars PROVE th' \in [Threads -> ThreadRows] /\ ThreadInv'
<1>1. RowSteps
  BY NextRows
<1>2. CASE th' = th
  BY <1>1, <1>2, ThreadsSame
<1>3. CASE \E t \in Threads : ThreadStep(t) \/ Spawn(t)
  BY <1>1, <1>3, ThreadWaits, ThreadDispatches, ThreadWorks, ThreadSettles, ThreadSpawned DEF ThreadStep
<1>4. CASE Crash
  <2>1. IdleThread \in ThreadRows /\ IdleThread.pc = "idle"
    BY IdleTyped
  <2> QED
    BY <1>4, <2>1 DEF Crash, ThreadInv
<1>5. CASE \E t \in Threads : ToolStep(t)
  BY <1>2, <1>5 DEF ToolStep
<1>6. CASE LoopStep /\ ~\E t \in Threads : Spawn(t)
  <2>1. th' = th
    BY <1>6 DEF LoopStep, BeginRound, RecoverTerminal, RecoverUncertain, RecoverSettle, RecoverSuspended, RecoverPending,
                RecoverRead, Select, MarkFails, MarkControl, MarkAsk, DoCancel, ClearTasks, ClearJobs, ClearLock,
                CloseControl, StoreUnchanged
  <2> QED
    BY <1>2, <2>1
<1>7. CASE (\E c \in Commands : Ingest(c) \/ Resolve(c) \/ LeaseExpires(c)) \/ ConfirmDeletion \/ BeginDeletion
           \/ EraseSession \/ UNCHANGED vars
  BY <1>2, <1>7 DEF Ingest, Resolve, LeaseExpires, ConfirmDeletion, BeginDeletion, EraseSession, vars
<1> QED
  BY <1>3, <1>4, <1>5, <1>6, <1>7 DEF Next
----------------------------------------------------------------------------
(* The lock, the fence and the counters *)

\* A row that waits to be admitted was waiting before, is new, or is an ordinary
\* message the recovery has queued again.
LEMMA NextPending ==
  ASSUME QueueTyped, LoopInv, ThreadInv, [Next]_vars, NEW c \in Commands, cmd'[c].status = "pending"
  PROVE  cmd[c].status \in {"pending", "absent"} \/ AskRow(c)
<1>0. CmdTyped /\ session \in {"active", "confirmed", "deleting", "deleted"}
  BY DEF QueueTyped, Sessions
<1>1. CASE NonePending
  BY <1>1 DEF NonePending
<1>2. CASE QuietStep \/ IdleForward
  <2>1. cmd' = cmd
    BY <1>2, QuietRows DEF IdleForward, Forward
  <2> QED
    BY <2>1
<1>3. CASE StartingStep
  <2>1. NonePending
    BY <1>0, <1>3, MarksRow DEF StartingStep, MarkControl, MarkAsk, Forward, NonePending
  <2> QED
    BY <1>1, <2>1
<1>4. CASE SuspendingStep
  <2>1. NonePending
    BY <1>4, SuspendingRows DEF NonePending
  <2> QED
    BY <1>1, <2>1
<1>5. CASE ClosingStep
  <2>1. CASE RecoverTerminal
    <3>1. CancelCommand(loop.cmd) \/ \E status \in {"completed", "failed"} : UpdateCommand(loop.cmd, status)
      BY <2>1 DEF RecoverTerminal, TerminalTask
    <3> QED
      BY <1>0, <1>1, <3>1, CancelsRow, UpdatesRow
  <2>2. CASE RecoverSettle \/ RecoverPending
    <3>1. AskRow(loop.cmd)
      BY <2>2 DEF RecoverSettle, RecoverPending, LoopInv
    <3>2. CASE UpdateCommand(loop.cmd, "completed")
      BY <1>0, <1>1, <3>2, UpdatesRow
    <3>3. CASE \E status \in {"pending", "recovery_required"} : SetRecoveryState(loop.cmd, status)
      <4>1. \A b \in Commands : b # loop.cmd => cmd'[b] = cmd[b]
        BY <1>0, <3>3, RecoversRow
      <4> QED
        BY <3>1, <4>1
    <3> QED
      BY <2>2, <3>2, <3>3 DEF RecoverSettle, RecoverPending
  <2>3. CASE DoCancel \/ CloseControl
    BY <1>0, <1>1, <2>3, CancelsRow, UpdatesRow DEF DoCancel, CloseControl
  <2>4. CASE ClearJobs \/ ClearLock \/ EraseSession
    BY <1>0, <1>1, <2>4, ClearJobsRows, ClearLockRows, EraseRows
  <2>5. CASE \E b \in Commands : Ingest(b)
    BY <1>0, <2>5, IngestRow DEF StatusOf
  <2>6. CASE \E t \in Threads : Forwarded(t) \/ WriteCancelled(t) \/ Fail(t) \/ (WriteResult(t) /\ th[t].out # "question")
    BY <1>0, <1>1, <2>6, UpdatesRow DEF Forwarded, WriteCancelled, Fail, WriteResult
  <2> QED
    BY <1>5, <2>1, <2>2, <2>3, <2>4, <2>5, <2>6 DEF ClosingStep
<1> QED
  BY <1>2, <1>3, <1>4, <1>5, StepKinds

\* A /clear that has been started stays started.
LEMMA ClearedGrows ==
  ASSUME QueueTyped, LoopInv, ThreadInv, [Next]_vars
  PROVE  /\ Cleared \subseteq Cleared' /\ Cardinality(Cleared) <= Cardinality(Cleared')
         /\ Cardinality(Cleared) \in Nat /\ Cardinality(Cleared') \in Nat /\ Cardinality(Cleared') <= NCommands
         /\ IsFiniteSet(Cleared) /\ IsFiniteSet(Cleared')
<1>1. RowSteps
  BY NextRows
<1>2. ASSUME NEW c \in Cleared PROVE c \in Cleared'
  <2>1. c \in Commands /\ cmd[c].kind = "clear" /\ cmd[c].status \notin {"absent", "pending"}
    BY <1>2 DEF Cleared, StatusOf, Kind
  <2>2. cmd'[c].kind = "clear" /\ cmd'[c].status # "absent"
    BY <1>1, <2>1 DEF RowSteps, RowMay
  <2>3. cmd'[c].status # "pending"
    BY <2>1, NextPending DEF AskRow, Kind
  <2> QED
    BY <2>1, <2>2, <2>3 DEF Cleared, StatusOf, Kind
<1>3. IsFiniteSet(1..NCommands) /\ Cardinality(1..NCommands) = NCommands
  BY QueueAssumption, FS_Interval
<1>4. Cleared' \in SUBSET (1..NCommands) /\ Cleared \in SUBSET Cleared'
  BY <1>2 DEF Cleared, Commands
<1>5. IsFiniteSet(Cleared') /\ Cardinality(Cleared') <= NCommands
  BY <1>3, <1>4, FS_Subset
<1>6. IsFiniteSet(Cleared) /\ Cardinality(Cleared) <= Cardinality(Cleared')
  BY <1>4, <1>5, FS_Subset
<1> QED
  BY <1>4, <1>5, <1>6, FS_CardinalityType

\* The number of locks of the session is bounded by the /clear messages.
LEMMA LockInvKept ==
  ASSUME QueueTyped, RowInv, LoopInv, ThreadInv, LockInv, [Next]_vars
  PROVE  LockInv' /\ gen' \in Generations /\ locks' \in [Generations -> Threads \cup {NoThread}]
<1>0. gen \in Nat /\ gen \in Generations /\ locks \in [Generations -> Threads \cup {NoThread}] /\ NCommands \in Nat
  BY QueueAssumption DEF QueueTyped, Generations
<1>1. /\ Cleared \subseteq Cleared' /\ Cardinality(Cleared) <= Cardinality(Cleared')
      /\ Cardinality(Cleared) \in Nat /\ Cardinality(Cleared') \in Nat /\ Cardinality(Cleared') <= NCommands
      /\ IsFiniteSet(Cleared) /\ IsFiniteSet(Cleared')
  BY ClearedGrows
<1>2. ASSUME gen' = gen, Clearing' => Clearing, locks' \in [Generations -> Threads \cup {NoThread}]
      PROVE  LockInv' /\ gen' \in Generations /\ locks' \in [Generations -> Threads \cup {NoThread}]
  <2>1. CASE Clearing'
    BY <1>0, <1>1, <1>2, <2>1 DEF LockInv
  <2>2. CASE ~Clearing'
    <3>1. gen <= Cardinality(Cleared)
      BY <1>0, <1>1 DEF LockInv
    <3> QED
      BY <1>0, <1>1, <1>2, <2>2, <3>1 DEF LockInv
  <2> QED
    BY <2>1, <2>2
<1>3. ASSUME loop' = loop PROVE Clearing' => Clearing
  <2>1. RowSteps
    BY NextRows
  <2>2. Clearing' => Known(loop.cmd)
    BY <1>3 DEF Clearing, LoopInv
  <2> QED
    BY <1>3, <2>1, <2>2 DEF Clearing, RowSteps, RowMay, Known, StatusOf, Kind
<1>4. CASE MarkControl
  <2>1. Known(loop.cmd) /\ loop.pc = "mark" /\ MayRun(loop.cmd) /\ gen' = gen /\ locks' = locks
        /\ loop'.pc = "control" /\ loop'.cmd = loop.cmd
    BY <1>4 DEF MarkControl, LoopInv, StoreUnchanged, QueueTyped, LoopRows
  <2>2. CASE Kind(loop.cmd) # "clear"
    <3>1. ~Clearing'
      BY <2>1, <2>2, NextRows DEF Clearing, RowSteps, RowMay, Known, StatusOf, Kind
    <3> QED
      BY <1>0, <1>2, <2>1, <3>1
  <2>3. CASE Kind(loop.cmd) = "clear"
    <3>1. cmd[loop.cmd].status = "pending" /\ loop.cmd \in Commands
      BY <2>1, <2>3 DEF MayRun, RowInv, AskRow, Known, StatusOf
    <3>2. cmd'[loop.cmd].status = "running" /\ cmd'[loop.cmd].kind = "clear"
      BY <1>4, <2>3, <3>1, MarksRow DEF MarkControl, QueueTyped, Kind
    <3>3. loop.cmd \notin Cleared /\ loop.cmd \in Cleared'
      BY <3>1, <3>2 DEF Cleared, StatusOf, Kind
    <3>4. Cardinality(Cleared \cup {loop.cmd}) = Cardinality(Cleared) + 1
      BY <1>1, <3>3, FS_AddElement
    <3>5. Cardinality(Cleared \cup {loop.cmd}) <= Cardinality(Cleared')
      <4>1. Cleared \cup {loop.cmd} \in SUBSET Cleared'
        BY <1>1, <3>3
      <4> QED
        BY <1>1, <4>1, FS_Subset
    <3>6. ~Clearing
      BY <2>1 DEF Clearing
    <3> QED
      BY <1>0, <1>1, <2>1, <3>4, <3>5, <3>6 DEF LockInv
  <2> QED
    BY <2>2, <2>3
<1>5. CASE ClearLock
  <2>1. Clearing /\ ~Clearing' /\ gen' = gen + 1 /\ locks' = locks
    BY <1>5 DEF ClearLock, Clearing, LoopInv, NewLock, QueueTyped, LoopRows
  <2>2. gen + 1 <= Cardinality(Cleared)
    BY <1>0, <1>1, <2>1 DEF LockInv
  <2>3. gen + 1 <= Cardinality(Cleared') /\ gen + 1 <= NCommands
    BY <1>0, <1>1, <2>2
  <2> QED
    BY <1>0, <2>1, <2>3 DEF LockInv, Generations
<1>6. CASE Crash
  <2>1. IdleLoop.pc = "idle"
    BY DEF IdleLoop
  <2>2. gen' = 0 /\ ~Clearing' /\ locks' \in [Generations -> Threads \cup {NoThread}]
    BY <1>6, <2>1 DEF Crash, Clearing
  <2> QED
    BY <1>0, <1>1, <2>2 DEF LockInv, Generations
<1>7. CASE LoopStep /\ ~MarkControl /\ ~ClearLock
  <2>0. IdleLoop.pc = "idle" /\ loop \in LoopRows
    BY DEF IdleLoop, QueueTyped
  <2>1. gen' = gen /\ locks' = locks
    BY <1>7 DEF LoopStep, BeginRound, RecoverTerminal, RecoverUncertain, RecoverSettle, RecoverSuspended, RecoverPending,
                RecoverRead, Select, MarkFails, MarkAsk, DoCancel, ClearTasks, ClearJobs, CloseControl, Spawn, StoreUnchanged
  <2>2. CASE ClearTasks \/ ClearJobs
    <3>1. Kind(loop.cmd) = "clear" /\ loop.pc \in {"control", "clear_jobs"}
      BY <2>2 DEF ClearTasks, ClearJobs, LoopInv
    <3>2. Clearing
      BY <3>1 DEF Clearing
    <3> QED
      BY <1>0, <1>2, <2>1, <3>2
  <2>3. CASE ~ClearTasks /\ ~ClearJobs
    <3>1. loop'.pc \notin {"control", "clear_jobs", "clear_lock"}
      <4>1. CASE BeginRound \/ NextRecovery \/ loop' = [loop EXCEPT !.pc = "settle"]
        BY <2>0, <4>1 DEF BeginRound, NextRecovery, LoopRows
      <4>2. ASSUME NEW c \in Commands, RecoverRead(c) PROVE loop'.pc \in {"recover", "resolve"}
        BY <2>0, <4>2 DEF RecoverRead, LoopRows
      <4>3. CASE Select \/ MarkFails \/ MarkAsk \/ DoCancel \/ CloseControl \/ \E t \in Threads : Spawn(t)
        <5>1. \/ loop' = IdleLoop \/ loop' = [IdleLoop EXCEPT !.pc = "mark", !.cmd = Min(Admissible)]
              \/ loop' = [loop EXCEPT !.pc = "spawn"] \/ loop' = [loop EXCEPT !.pc = "close"]
          BY <4>3 DEF Select, MarkFails, MarkAsk, DoCancel, CloseControl, Spawn
        <5> QED
          BY <2>0, <5>1 DEF LoopRows, IdleLoop
      <4>4. RecoverTerminal \/ RecoverUncertain \/ RecoverSettle \/ RecoverSuspended \/ RecoverPending
              => NextRecovery \/ loop' = [loop EXCEPT !.pc = "settle"]
        BY DEF RecoverTerminal, RecoverUncertain, RecoverSettle, RecoverSuspended, RecoverPending
      <4> QED
        BY <1>7, <2>3, <4>1, <4>2, <4>3, <4>4 DEF LoopStep
    <3> QED
      BY <1>0, <1>2, <2>1, <3>1 DEF Clearing
  <2> QED
    BY <2>2, <2>3
<1>8. ASSUME NEW t \in Threads, ThreadStep(t) \/ ToolStep(t)
      PROVE  LockInv' /\ gen' \in Generations /\ locks' \in [Generations -> Threads \cup {NoThread}]
  <2>1. CASE Start(t) \/ Forward(t) \/ Forwarded(t) \/ ForwardFails(t) \/ Enter(t) \/ LockAcquired(t)
             \/ LockCancelled(t) \/ Dispatch(t) \/ DispatchRefused(t)
    <3>1. loop' = loop /\ gen' = gen /\ (locks' = locks \/ locks' = [locks EXCEPT ![th[t].gen] = t])
      BY <2>1 DEF Start, Forward, Forwarded, ForwardFails, Enter, LockAcquired, LockCancelled, Dispatch, DispatchRefused,
                ThreadOnly, QueueOnly
    <3> QED
      BY <1>0, <1>2, <1>3, <3>1
  <2>2. CASE AnswerTask(t) \/ ClaimTask(t) \/ ClaimRefused(t) \/ WorkEnds(t) \/ ToolStep(t) \/ WorkLost(t) \/ Release(t)
             \/ After(t) \/ WriteCancelled(t) \/ WriteResult(t) \/ Reply(t) \/ Fail(t)
    <3>1. loop' = loop /\ gen' = gen /\ (locks' = locks \/ locks' = [locks EXCEPT ![th[t].gen] = NoThread])
      BY <2>2 DEF AnswerTask, ClaimTask, ClaimRefused, WorkEnds, ToolStep, WorkLost, Release, After, WriteCancelled,
                WriteResult, Reply, Fail, ThreadOnly, QueueOnly
    <3> QED
      BY <1>0, <1>2, <1>3, <3>1
  <2> QED
    BY <1>8, <2>1, <2>2 DEF ThreadStep
<1>9. CASE (\E c \in Commands : Ingest(c) \/ Resolve(c) \/ LeaseExpires(c)) \/ ConfirmDeletion \/ BeginDeletion
           \/ EraseSession \/ UNCHANGED vars
  <2>1. loop' = loop /\ gen' = gen /\ locks' = locks
    BY <1>9 DEF Ingest, Resolve, LeaseExpires, ConfirmDeletion, BeginDeletion, EraseSession, vars
  <2> QED
    BY <1>0, <1>2, <1>3, <2>1
<1> QED
  BY <1>4, <1>5, <1>6, <1>7, <1>8, <1>9 DEF Next
\* The counters of the model's bounds.
LEMMA CountersKept ==
  ASSUME QueueTyped, [Next]_vars
  PROVE  /\ tools' \in 0..MaxTools /\ pauses' \in 0..MaxPauses /\ crashes' \in 0..MaxCrashes
         /\ crashes' = crashes \/ (Crash /\ crashes' # 0)
<1>0. tools \in 0..MaxTools /\ pauses \in 0..MaxPauses /\ crashes \in 0..MaxCrashes
      /\ MaxTools \in Nat /\ MaxPauses \in Nat /\ MaxCrashes \in Nat
  BY QueueAssumption DEF QueueTyped
<1>1. CASE tools' = tools /\ pauses' = pauses /\ crashes' = crashes
  BY <1>0, <1>1
<1>2. CASE Crash
  BY <1>0, <1>2 DEF Crash
<1>3. CASE LoopStep
  BY <1>1, <1>3 DEF LoopStep, BeginRound, RecoverTerminal, RecoverUncertain, RecoverSettle, RecoverSuspended, RecoverPending,
     RecoverRead, Select, MarkFails, MarkControl, MarkAsk, DoCancel, ClearTasks, ClearJobs, ClearLock, CloseControl, Spawn,
     StoreUnchanged
<1>4. ASSUME NEW t \in Threads, ThreadStep(t) PROVE tools' = tools /\ pauses' = pauses /\ crashes' = crashes
  <2>1. CASE Start(t) \/ Forward(t) \/ Forwarded(t) \/ ForwardFails(t) \/ Enter(t) \/ LockAcquired(t)
             \/ LockCancelled(t) \/ Dispatch(t) \/ DispatchRefused(t)
    BY <2>1 DEF Start, Forward, Forwarded, ForwardFails, Enter, LockAcquired, LockCancelled, Dispatch, DispatchRefused,
                ThreadOnly, QueueOnly
  <2>2. CASE AnswerTask(t) \/ ClaimTask(t) \/ ClaimRefused(t) \/ WorkEnds(t) \/ WorkLost(t) \/ Release(t)
             \/ After(t) \/ WriteCancelled(t) \/ WriteResult(t) \/ Reply(t) \/ Fail(t)
    BY <2>2 DEF AnswerTask, ClaimTask, ClaimRefused, WorkEnds, WorkLost, Release, After, WriteCancelled,
                WriteResult, Reply, Fail, ThreadOnly, QueueOnly
  <2> QED
    BY <1>4, <2>1, <2>2 DEF ThreadStep
<1>5. CASE \E t \in Threads : ToolStep(t)
  <2>1. (tools' = tools \/ (tools < MaxTools /\ tools' = tools + 1)) /\ pauses' = pauses /\ crashes' = crashes
    BY <1>5 DEF ToolStep
  <2> QED
    BY <1>0, <2>1
<1>6. CASE \E c \in Commands : LeaseExpires(c)
  <2>1. (pauses' = pauses \/ (pauses < MaxPauses /\ pauses' = pauses + 1)) /\ tools' = tools /\ crashes' = crashes
    BY <1>6 DEF LeaseExpires
  <2> QED
    BY <1>0, <2>1
<1>7. CASE (\E c \in Commands : Ingest(c) \/ Resolve(c)) \/ ConfirmDeletion \/ BeginDeletion \/ EraseSession \/ UNCHANGED vars
  BY <1>1, <1>7 DEF Ingest, Resolve, ConfirmDeletion, BeginDeletion, EraseSession, vars
<1> QED
  BY <1>1, <1>2, <1>3, <1>4, <1>5, <1>6, <1>7 DEF Next

Asking(row) == row.pc \in {"release", "after", "write"} /\ row.out = "question"

\* Without an open session no thread comes to ask.
LEMMA AskingKept ==
  ASSUME QueueTyped, ThreadInv, FenceInv, session # "active", NEW t \in Threads, ThreadStep(t) \/ Spawn(t) \/ Crash,
         NEW u \in Threads, Asking(th'[u])
  PROVE  Asking(th[u]) /\ th'[u].target = th[u].target
<1>0. th[u] \in ThreadRows /\ th[t] \in ThreadRows
  BY DEF QueueTyped
<1>1. CASE u # t /\ ~Crash
  <2>1. th'[u] = th[u]
    <3>1. CASE Spawn(t) \/ Start(t) \/ Forward(t) \/ Forwarded(t) \/ ForwardFails(t) \/ Enter(t) \/ LockAcquired(t)
               \/ LockCancelled(t) \/ Dispatch(t) \/ DispatchRefused(t)
      BY <1>1, <3>1 DEF Spawn, Start, Forward, Forwarded, ForwardFails, Enter, LockAcquired, LockCancelled, Dispatch,
                        DispatchRefused, Go, QueueTyped
    <3>2. CASE AnswerTask(t) \/ ClaimTask(t) \/ ClaimRefused(t) \/ WorkEnds(t) \/ WorkLost(t) \/ Release(t)
               \/ After(t) \/ WriteCancelled(t) \/ WriteResult(t) \/ Reply(t) \/ Fail(t)
      BY <1>1, <3>2 DEF AnswerTask, ClaimTask, ClaimRefused, WorkEnds, WorkLost, Release, After, WriteCancelled,
                        WriteResult, Reply, Fail, Go, QueueTyped
    <3> QED
      BY <1>1, <3>1, <3>2 DEF ThreadStep
  <2> QED
    BY <2>1
<1>2. CASE Crash
  BY <1>2 DEF Crash, Asking, IdleThread
<1>3. CASE u = t /\ (Spawn(t) \/ Start(t) \/ Forward(t) \/ Forwarded(t) \/ ForwardFails(t) \/ Enter(t) \/ LockAcquired(t))
  <2>1. th'[t].pc \in {"start", "fail", "forward", "enter", "forwarded", "wait", "locked"}
    <3>1. CASE Spawn(t)
      BY <3>1 DEF Spawn, IdleThread, QueueTyped
    <3>2. CASE Start(t) \/ Forward(t) \/ Forwarded(t) \/ ForwardFails(t) \/ Enter(t) \/ LockAcquired(t)
      BY <1>0, <3>2 DEF Start, Forward, Forwarded, ForwardFails, Enter, LockAcquired, Go, QueueTyped, ThreadRows
    <3> QED
      BY <1>3, <3>1, <3>2
  <2> QED
    BY <1>3, <2>1 DEF Asking
<1>4. CASE u = t /\ (LockCancelled(t) \/ Dispatch(t) \/ DispatchRefused(t) \/ AnswerTask(t) \/ ClaimTask(t)
                     \/ ClaimRefused(t) \/ WorkLost(t))
  <2>1. th'[t].pc \in {"answer", "claim", "work"} \/ th'[t].out \in {"reply", "error"}
    <3>1. CASE LockCancelled(t) \/ DispatchRefused(t)
      BY <1>0, <3>1 DEF LockCancelled, DispatchRefused, QueueTyped, ThreadRows
    <3>2. CASE Dispatch(t)
      BY <3>2 DEF Dispatch, TasksOpen
    <3>3. CASE AnswerTask(t)
      <4>1. th' = [th EXCEPT ![t].pc = "claim", ![t].call = 0] \/ th' = [th EXCEPT ![t].pc = "release", ![t].out = "error"]
        BY <3>3 DEF AnswerTask
      <4> QED
        BY <1>0, <4>1 DEF QueueTyped, ThreadRows
    <3>4. CASE ClaimTask(t)
      BY <1>0, <3>4 DEF ClaimTask, Go, QueueTyped, ThreadRows
    <3>5. CASE ClaimRefused(t) \/ WorkLost(t)
      <4>1. \E out \in {"reply", "error"} : th' = [th EXCEPT ![t].pc = "release", ![t].out = out]
        BY <3>5 DEF ClaimRefused, WorkLost
      <4> QED
        BY <1>0, <4>1 DEF QueueTyped, ThreadRows
    <3> QED
      BY <1>4, <3>1, <3>2, <3>3, <3>4, <3>5
  <2> QED
    BY <1>4, <2>1 DEF Asking
<1>5. ~WorkEnds(t)
  <2>1. WorkEnds(t) => th[t].task \in Commands
    BY DEF WorkEnds, ThreadInv, WorksFor, AskRow, Known
  <2> QED
    BY <2>1 DEF WorkEnds, Owns, FenceInv, TerminalTask
<1>6. CASE u = t /\ (Release(t) \/ After(t))
  BY <1>0, <1>6 DEF Release, After, Go, Asking, QueueTyped, ThreadRows
<1>7. CASE u = t /\ (WriteCancelled(t) \/ WriteResult(t) \/ Reply(t) \/ Fail(t))
  <2>1. th'[t].pc \in {"reply", "fail", "idle"}
    BY <1>0, <1>7 DEF WriteCancelled, WriteResult, Reply, Fail, Go, QueueTyped, ThreadRows, IdleThread
  <2> QED
    BY <1>7, <2>1 DEF Asking
<1> QED
  BY <1>1, <1>2, <1>3, <1>4, <1>5, <1>6, <1>7 DEF ThreadStep

\* The steps that move no thread.
LEMMA ThreadsStill ==
  ASSUME [Next]_vars, ~Crash, \A t \in Threads : ~ThreadStep(t) /\ ~Spawn(t) PROVE th' = th
<1>1. CASE LoopStep
  BY <1>1 DEF LoopStep, BeginRound, RecoverTerminal, RecoverUncertain, RecoverSettle, RecoverSuspended, RecoverPending,
     RecoverRead, Select, MarkFails, MarkControl, MarkAsk, DoCancel, ClearTasks, ClearJobs, ClearLock, CloseControl,
     StoreUnchanged
<1>2. CASE \E t \in Threads : ToolStep(t)
  BY <1>2 DEF ToolStep
<1>3. CASE (\E c \in Commands : Ingest(c) \/ Resolve(c) \/ LeaseExpires(c)) \/ ConfirmDeletion \/ BeginDeletion
           \/ EraseSession \/ UNCHANGED vars
  BY <1>3 DEF Ingest, Resolve, LeaseExpires, ConfirmDeletion, BeginDeletion, EraseSession, vars
<1> QED
  BY <1>1, <1>2, <1>3 DEF Next

\* The fence of a confirmed deletion holds.
LEMMA FenceKept ==
  ASSUME QueueTyped, TaskInv, LoopInv, ThreadInv, FenceInv, [Next]_vars PROVE FenceInv'
<1>1. RowSteps /\ TaskSteps /\ SessionStays /\ CmdTyped
  BY NextRows, NextTasks, NextSession DEF QueueTyped
<1> SUFFICES ASSUME session' # "active"
             PROVE  /\ \A c \in Commands : task'[c].state \in TerminalTask \cup {"none"}
                    /\ \A t \in Threads : Asking(th'[t]) => cmd'[th'[t].target].status \in Over
  BY DEF FenceInv, Asking, StatusOf
<1>2. CASE session = "active"
  <2>1. ConfirmDeletion
    BY <1>1, <1>2 DEF SessionStays
  <2>2. task' = task /\ th' = th /\ cmd' = cmd
    BY <2>1 DEF ConfirmDeletion
  <2>3. \A c \in Commands : task[c].state \in TerminalTask \cup {"none"}
    BY <2>1 DEF ConfirmDeletion
  <2>4. ASSUME NEW t \in Threads, Asking(th[t]) PROVE cmd[th[t].target].status \in Over
    <3>1. AskRow(th[t].target)
      BY <2>4 DEF Asking, ThreadInv, WorksFor
    <3>2. th[t].target \in Commands /\ cmd[th[t].target] \in CmdRows /\ cmd[th[t].target].status # "absent"
      BY <1>1, <3>1 DEF AskRow, Known, CmdTyped, StatusOf
    <3>3. cmd[th[t].target].status \notin {"pending", "running", "cancel_requested", "suspended", "recovery_required"}
      BY <2>1, <3>2 DEF ConfirmDeletion, ActiveJobs, StatusOf
    <3> QED
      BY <3>2, <3>3 DEF CmdRows, Statuses, Over
  <2> QED
    BY <2>2, <2>3, <2>4
<1>3. CASE session # "active"
  <2>1. \A c \in Commands : task'[c].state \in TerminalTask \cup {"none"}
    BY <1>1, <1>3 DEF FenceInv, TaskSteps, TaskMay
  <2>2. ASSUME NEW u \in Threads, Asking(th'[u]) PROVE cmd'[th'[u].target].status \in Over
    <3>1. Asking(th[u]) /\ th'[u].target = th[u].target
      <4>1. CASE Crash /\ Threads # {}
        BY <1>3, <2>2, <4>1, AskingKept
      <4>2. CASE \E t \in Threads : ThreadStep(t) \/ Spawn(t)
        BY <1>3, <2>2, <4>2, AskingKept
      <4>3. CASE ~Crash /\ \A t \in Threads : ~ThreadStep(t) /\ ~Spawn(t)
        BY <2>2, <4>3, ThreadsStill
      <4> QED
        BY <4>1, <4>2, <4>3
    <3>2. StatusOf(th[u].target) \in Over /\ th[u].target \in Commands
      BY <1>3, <3>1 DEF FenceInv, Asking, ThreadInv, WorksFor, AskRow, Known
    <3> QED
      BY <1>1, <3>1, <3>2 DEF RowSteps, RowMay, StatusOf
  <2> QED
    BY <2>1, <2>2
<1> QED
  BY <1>2, <1>3
----------------------------------------------------------------------------
(* No running command is forgotten *)

\* A thread that moves keeps its hands on a command as long as that runs.
LEMMA ThreadKeeps ==
  ASSUME QueueTyped, ThreadInv, FenceInv, ErasedInv, RowSteps, TaskSteps,
         NEW t \in Threads, ThreadStep(t), NEW c \in Commands, Holds(t, c),
         cmd[c].status = "running", cmd'[c].status = "running"
  PROVE  Holds(t, c)' \/ cmd'[c].call # 0
<1>0. /\ th[t] \in ThreadRows /\ WorksFor(th[t]) /\ th[t].pc \notin {"idle", "reply"}
      /\ CmdTyped /\ session \in {"active", "confirmed", "deleting", "deleted"}
  BY DEF QueueTyped, ThreadInv, Holds, Sessions
<1>1. ASSUME NEW status \in {"completed", "failed"} PROVE ~UpdateCommand(c, status)
  <2>1. session # "deleted"
    BY DEF ErasedInv, StatusOf
  <2> QED
    BY <1>0, <2>1, UpdatesRow DEF Over
<1>2. ASSUME th[t].target = c, th'[t].target = c, th'[t].pc \notin {"idle", "reply"} PROVE Holds(t, c)'
  BY <1>2 DEF Holds
<1>3. CASE th[t].pc = "forwarded"
  <2>1. th[t].target = th[t].cmd /\ th[t].susp # NoCommand
    BY <1>0, <1>3 DEF WorksFor
  <2>2. CASE Forwarded(t)
    <3>1. th[t].target # c
      BY <1>1, <2>1, <2>2 DEF Forwarded
    <3>2. th[t].susp = c
      BY <3>1 DEF Holds
    <3>3. th'[t].target = c /\ th'[t].pc = "enter"
      BY <1>0, <2>2, <3>2 DEF Forwarded, QueueTyped, ThreadRows
    <3> QED
      BY <3>3 DEF Holds
  <2>3. CASE ForwardFails(t)
    <3>1. cmd' = cmd /\ th'[t].target = th[t].target /\ th'[t].pc = "enter"
      BY <1>0, <2>3 DEF ForwardFails, ThreadOnly, QueueTyped, ThreadRows
    <3>2. CASE th[t].target = c
      BY <1>2, <3>1, <3>2
    <3>3. CASE th[t].target # c
      <4>1. th[t].susp = c
        BY <3>3 DEF Holds
      <4>2. cmd[c].call # 0
        BY <1>0, <1>3, <2>1, <4>1 DEF WorksFor, StatusOf, Over
      <4> QED
        BY <3>1, <4>2
    <3> QED
      BY <3>2, <3>3
  <2>4. Forwarded(t) \/ ForwardFails(t)
    BY <1>3 DEF ThreadStep, Start, Forward, Enter, LockAcquired, LockCancelled, Dispatch, DispatchRefused, AnswerTask,
                ClaimTask, ClaimRefused, WorkEnds, WorkLost, Release, After, WriteCancelled, WriteResult, Reply, Fail
  <2> QED
    BY <2>2, <2>3, <2>4
<1>4. CASE th[t].pc # "forwarded"
  <2>0. th[t].target = c
    BY <1>4 DEF Holds
  <2>1. CASE Start(t) \/ LockAcquired(t) \/ ClaimTask(t) \/ Release(t) \/ After(t)
    <3>1. \E pc \in {"fail", "forward", "enter", "locked", "work", "after", "cancelled", "write"} : Go(t, pc)
      BY <2>1 DEF Start, LockAcquired, ClaimTask, Release, After
    <3>2. th'[t].target = c /\ th'[t].pc \notin {"idle", "reply"}
      BY <1>0, <2>0, <3>1 DEF Go, QueueTyped, ThreadRows
    <3> QED
      BY <1>2, <2>0, <3>2
  <2>2. CASE Forward(t)
    <3>1. Go(t, "forwarded") \/ th' = [th EXCEPT ![t].pc = "enter", ![t].susp = NoCommand]
      BY <2>2 DEF Forward
    <3>2. th'[t].target = c /\ th'[t].pc \notin {"idle", "reply"}
      BY <1>0, <2>0, <3>1 DEF Go, QueueTyped, ThreadRows
    <3> QED
      BY <1>2, <2>0, <3>2
  <2>3. CASE Enter(t) \/ LockCancelled(t)
    <3>1. th'[t].target = c /\ th'[t].pc \notin {"idle", "reply"}
      BY <1>0, <2>0, <2>3 DEF Enter, LockCancelled, QueueTyped, ThreadRows
    <3> QED
      BY <1>2, <2>0, <3>1
  <2>4. CASE Dispatch(t)
    <3>1. th'[t].target = c /\ th'[t].pc \notin {"idle", "reply"}
      <4>1. CASE th' = [th EXCEPT ![t].pc = "answer", ![t].task = th[t].susp]
        BY <1>0, <2>0, <4>1 DEF QueueTyped, ThreadRows
      <4>2. CASE \E k \in SuspendedTasks : th' = [th EXCEPT ![t].pc = "answer", ![t].task = k, ![t].call = task[k].asked]
        <5>1. PICK k \in SuspendedTasks : th' = [th EXCEPT ![t].pc = "answer", ![t].task = k, ![t].call = task[k].asked]
          BY <4>2
        <5> QED
          BY <1>0, <2>0, <5>1 DEF QueueTyped, ThreadRows
      <4>3. CASE th' = [th EXCEPT ![t].pc = "claim", ![t].task = th[t].target]
        BY <1>0, <2>0, <4>3 DEF QueueTyped, ThreadRows
      <4> QED
        BY <2>4, <4>1, <4>2, <4>3 DEF Dispatch
    <3> QED
      BY <1>2, <2>0, <3>1
  <2>5. CASE DispatchRefused(t) \/ AnswerTask(t) \/ ClaimRefused(t) \/ WorkEnds(t) \/ WorkLost(t)
    <3>1. \/ th' = [th EXCEPT ![t].pc = "claim", ![t].call = 0]
          \/ \E out \in {"reply", "error"} : th' = [th EXCEPT ![t].pc = "release", ![t].out = out]
          \/ \E call : th' = [th EXCEPT ![t].pc = "release", ![t].out = "question", ![t].call = call]
      <4>1. DispatchRefused(t) \/ ClaimRefused(t) \/ WorkLost(t)
              => \E out \in {"reply", "error"} : th' = [th EXCEPT ![t].pc = "release", ![t].out = out]
        BY DEF DispatchRefused, ClaimRefused, WorkLost
      <4>2. AnswerTask(t) => \/ th' = [th EXCEPT ![t].pc = "claim", ![t].call = 0]
                             \/ th' = [th EXCEPT ![t].pc = "release", ![t].out = "error"]
        BY DEF AnswerTask
      <4>3. WorkEnds(t) => \/ \E out \in {"reply", "error"} : th' = [th EXCEPT ![t].pc = "release", ![t].out = out]
                           \/ \E call : th' = [th EXCEPT ![t].pc = "release", ![t].out = "question", ![t].call = call]
        BY DEF WorkEnds
      <4> QED
        BY <2>5, <4>1, <4>2, <4>3
    <3>2. th'[t].target = c /\ th'[t].pc \notin {"idle", "reply"}
      BY <1>0, <2>0, <3>1 DEF QueueTyped, ThreadRows
    <3> QED
      BY <1>2, <2>0, <3>2
  <2>6. ~WriteCancelled(t) /\ ~Fail(t)
    BY <1>1, <2>0 DEF WriteCancelled, Fail
  <2>7. ~WriteResult(t)
    <3> SUFFICES ASSUME WriteResult(t) PROVE FALSE
      OBVIOUS
    <3>1. CASE th[t].out # "question"
      BY <1>1, <2>0, <3>1 DEF WriteResult
    <3>2. CASE th[t].out = "question"
      <4>1. SuspendCommand(c, th[t].call) /\ th[t].call \in Questions /\ th[t].call # 0
        BY <1>0, <2>0, <3>2 DEF WriteResult, ThreadRows, WorksFor
      <4>2. ~Suspendable(c)
        BY <1>0, <4>1, SuspendsRow
      <4>3. session # "active"
        BY <4>2 DEF Suspendable, Open, StatusOf
      <4> QED
        BY <2>0, <3>2, <4>3 DEF FenceInv, WriteResult, StatusOf, Over
    <3> QED
      BY <3>1, <3>2
  <2>8. ~Forwarded(t) /\ ~ForwardFails(t) /\ ~Reply(t)
    BY <1>0, <1>4 DEF Forwarded, ForwardFails, Reply
  <2> QED
    BY <2>1, <2>2, <2>3, <2>4, <2>5, <2>6, <2>7, <2>8 DEF ThreadStep
<1> QED
  BY <1>3, <1>4

\* So does the loop.
LEMMA LoopKeeps ==
  ASSUME QueueTyped, LoopInv, ErasedInv, LoopStep, NEW c \in Commands, loop.cmd = c,
         loop.pc \in {"spawn", "control", "clear_jobs", "clear_lock", "close"},
         cmd[c].status = "running", cmd'[c].status = "running"
  PROVE  InHand(c)'
<1>0. loop \in LoopRows /\ CmdTyped /\ session \in {"active", "confirmed", "deleting", "deleted"}
  BY DEF QueueTyped, Sessions
<1>1. ~CloseControl
  <2>1. session # "deleted"
    BY DEF ErasedInv, StatusOf
  <2> QED
    BY <1>0, <2>1, UpdatesRow DEF CloseControl, Over
<1>2. CASE DoCancel \/ ClearTasks \/ ClearJobs \/ ClearLock
  <2>1. loop'.cmd = c /\ loop'.pc \in {"close", "clear_jobs", "clear_lock"}
    BY <1>0, <1>2 DEF DoCancel, ClearTasks, ClearJobs, ClearLock, LoopRows
  <2> QED
    BY <2>1 DEF InHand
<1>3. CASE \E t \in Threads : Spawn(t)
  <2>1. PICK t \in Threads : Spawn(t)
    BY <1>3
  <2>2. th'[t].target = c /\ th'[t].pc = "start"
    BY <2>1 DEF Spawn, IdleThread, QueueTyped
  <2> QED
    BY <2>2 DEF InHand, Holds
<1>4. \/ CloseControl \/ DoCancel \/ ClearTasks \/ ClearJobs \/ ClearLock \/ \E t \in Threads : Spawn(t)
  BY DEF LoopStep, BeginRound, RecoverTerminal, RecoverUncertain, RecoverSettle, RecoverSuspended, RecoverPending,
         RecoverRead, Select, MarkFails, MarkControl, MarkAsk
<1> QED
  BY <1>1, <1>2, <1>3, <1>4

\* A command that is marked running is taken in hand.
LEMMA StartedKept ==
  ASSUME QueueTyped, LoopInv, ThreadInv, [Next]_vars, NEW c \in Commands, cmd[c].status # "running", cmd'[c].status = "running"
  PROVE  InHand(c)'
<1>0. CmdTyped /\ loop \in LoopRows /\ th \in [Threads -> ThreadRows]
  BY DEF QueueTyped
<1>1. ~NoneStarts /\ cmd' # cmd
  BY DEF NoneStarts
<1>2. StartingStep
  BY <1>1, StepKinds, QuietRows, ClosingRows, SuspendingRows DEF IdleForward, Forward
<1>3. CASE MarkControl \/ MarkAsk
  <2>1. loop.cmd = c
    BY <1>0, <1>3, MarksRow DEF MarkControl, MarkAsk
  <2>2. loop'.cmd = c /\ loop'.pc \in {"control", "spawn"}
    BY <1>0, <1>3, <2>1 DEF MarkControl, MarkAsk, LoopRows
  <2> QED
    BY <2>2 DEF InHand
<1>4. ASSUME NEW t \in Threads, Forward(t), MayRun(th[t].susp) PROVE InHand(c)'
  <2>1. MarkRunning(th[t].susp) /\ Go(t, "forwarded")
    BY <1>4 DEF Forward
  <2>2. th[t].susp = c
    BY <1>0, <1>4, <2>1, MarksRow
  <2>3. th'[t].susp = c /\ th'[t].pc = "forwarded"
    BY <1>0, <2>1, <2>2 DEF Go, ThreadRows
  <2> QED
    BY <2>3 DEF InHand, Holds
<1> QED
  BY <1>2, <1>3, <1>4 DEF StartingStep

\* The threads that do not move keep what they hold.
LEMMA OthersKeep ==
  ASSUME QueueTyped, [Next]_vars, ~Crash, NEW u \in Threads, NEW c \in Commands, Holds(u, c), ~ThreadStep(u)
  PROVE  Holds(u, c)'
<1>1. th'[u] = th[u]
  <2>0. th \in [Threads -> ThreadRows]
    BY DEF QueueTyped
  <2>1. CASE \A t \in Threads : ~ThreadStep(t) /\ ~Spawn(t)
    BY <2>1, ThreadsStill
  <2>2. ASSUME NEW t \in Threads, Spawn(t) PROVE th'[u] = th[u]
    <3>1. th[t].pc = "idle"
      BY <2>2 DEF Spawn
    <3>2. t # u
      BY <3>1 DEF Holds
    <3> QED
      BY <2>0, <2>2, <3>2 DEF Spawn
  <2>3. ASSUME NEW t \in Threads, ThreadStep(t) PROVE th'[u] = th[u]
    <3>0. t # u
      BY <2>3
    <3>1. CASE Start(t) \/ Forward(t) \/ Forwarded(t) \/ ForwardFails(t) \/ Enter(t) \/ LockAcquired(t)
               \/ LockCancelled(t) \/ Dispatch(t) \/ DispatchRefused(t)
      BY <2>0, <3>0, <3>1 DEF Start, Forward, Forwarded, ForwardFails, Enter, LockAcquired, LockCancelled, Dispatch,
                        DispatchRefused, Go
    <3>2. CASE AnswerTask(t) \/ ClaimTask(t) \/ ClaimRefused(t) \/ WorkEnds(t) \/ WorkLost(t) \/ Release(t)
               \/ After(t) \/ WriteCancelled(t) \/ WriteResult(t) \/ Reply(t) \/ Fail(t)
      BY <2>0, <3>0, <3>2 DEF AnswerTask, ClaimTask, ClaimRefused, WorkEnds, WorkLost, Release, After, WriteCancelled,
                        WriteResult, Reply, Fail, Go
    <3> QED
      BY <2>3, <3>1, <3>2 DEF ThreadStep
  <2> QED
    BY <2>1, <2>2, <2>3
<1> QED
  BY <1>1 DEF Holds

\* While a thread or something outside moves, the loop keeps what it has in hand.
LEMMA LoopStill ==
  ASSUME [Next]_vars, ~LoopStep, ~Crash PROVE loop' = loop
<1>1. ASSUME NEW t \in Threads, ThreadStep(t) \/ ToolStep(t) PROVE loop' = loop
  <2>1. CASE Start(t) \/ Forward(t) \/ Forwarded(t) \/ ForwardFails(t) \/ Enter(t) \/ LockAcquired(t)
             \/ LockCancelled(t) \/ Dispatch(t) \/ DispatchRefused(t)
    BY <2>1 DEF Start, Forward, Forwarded, ForwardFails, Enter, LockAcquired, LockCancelled, Dispatch, DispatchRefused,
                ThreadOnly, QueueOnly
  <2>2. CASE AnswerTask(t) \/ ClaimTask(t) \/ ClaimRefused(t) \/ WorkEnds(t) \/ ToolStep(t) \/ WorkLost(t) \/ Release(t)
             \/ After(t) \/ WriteCancelled(t) \/ WriteResult(t) \/ Reply(t) \/ Fail(t)
    BY <2>2 DEF AnswerTask, ClaimTask, ClaimRefused, WorkEnds, ToolStep, WorkLost, Release, After, WriteCancelled,
                WriteResult, Reply, Fail, ThreadOnly, QueueOnly
  <2> QED
    BY <1>1, <2>1, <2>2 DEF ThreadStep
<1>2. CASE (\E c \in Commands : Ingest(c) \/ Resolve(c) \/ LeaseExpires(c)) \/ ConfirmDeletion \/ BeginDeletion
           \/ EraseSession \/ UNCHANGED vars
  BY <1>2 DEF Ingest, Resolve, LeaseExpires, ConfirmDeletion, BeginDeletion, EraseSession, vars
<1> QED
  BY <1>1, <1>2 DEF Next

\* No step forgets a running command.
LEMMA HeldKept ==
  ASSUME QueueTyped, RowInv, TaskInv, LoopInv, ThreadInv, FenceInv, ErasedInv, HeldInv, [Next]_vars PROVE HeldInv'
<1>0. RowSteps /\ TaskSteps
  BY NextRows, NextTasks
<1> SUFFICES ASSUME crashes' = 0, NEW c \in Commands, cmd'[c].status = "running"
             PROVE  InHand(c)' \/ task'[c].state # "none" \/ cmd'[c].call # 0
  BY DEF HeldInv, AskedForAnother, StatusOf
<1>1. crashes = 0 /\ ~Crash
  BY CountersKept DEF Crash, QueueTyped
<1>2. CASE cmd[c].status # "running"
  BY <1>2, StartedKept
<1>3. CASE cmd[c].status = "running"
  <2>1. InHand(c) \/ task[c].state # "none" \/ cmd[c].call # 0
    BY <1>1, <1>3 DEF HeldInv, AskedForAnother, StatusOf
  <2>2. CASE task[c].state # "none"
    BY <1>0, <2>2 DEF TaskSteps, TaskMay
  <2>3. CASE cmd[c].call # 0
    BY <1>0, <2>3 DEF RowSteps, RowMay, Over
  <2>4. CASE loop.cmd = c /\ loop.pc \in {"spawn", "control", "clear_jobs", "clear_lock", "close"}
    <3>1. CASE LoopStep
      BY <1>3, <2>4, <3>1, LoopKeeps
    <3>2. CASE ~LoopStep
      BY <1>1, <2>4, <3>2, LoopStill DEF InHand
    <3> QED
      BY <3>1, <3>2
  <2>5. ASSUME NEW t \in Threads, Holds(t, c) PROVE InHand(c)' \/ cmd'[c].call # 0
    <3>1. CASE ThreadStep(t)
      BY <1>0, <1>3, <2>5, <3>1, ThreadKeeps DEF InHand
    <3>2. CASE ~ThreadStep(t)
      BY <1>1, <2>5, <3>2, OthersKeep DEF InHand
    <3> QED
      BY <3>1, <3>2
  <2> QED
    BY <2>1, <2>2, <2>3, <2>4, <2>5 DEF InHand
<1> QED
  BY <1>2, <1>3
----------------------------------------------------------------------------
(* The theorems *)

\* The empty queue satisfies the invariant.
LEMMA QueueInit == Init => QueueInv
<1> SUFFICES ASSUME Init PROVE QueueInv
  OBVIOUS
<1>0. 0 \in Questions /\ 0 \in Generations /\ IdleThread \in ThreadRows /\ IdleThread.pc = "idle" /\ IdleLoop \in LoopRows
      /\ IdleLoop.pc = "idle"
  BY IdleTyped, NoneSeen, QueueAssumption DEF Generations, IdleLoop
<1>1. cmd \in [Commands -> CmdRows] /\ \A c \in Commands : cmd[c].status = "absent"
  BY <1>0 DEF Init, CmdRows, Kinds, Statuses
<1>2. NoTask \in TaskRows /\ NoTask.state = "none"
  BY <1>0 DEF NoTask, TaskRows, TaskStates
<1>3. task \in [Commands -> TaskRows] /\ \A c \in Commands : task[c].state = "none"
  BY <1>2 DEF Init
<1>4. QueueTyped
  BY <1>0, <1>1, <1>3, QueueAssumption DEF Init, QueueTyped, CmdTyped, Sessions
<1>5. Cleared = {}
  BY <1>1 DEF Cleared, StatusOf
<1>6. LockInv
  <2>1. ~Clearing /\ gen = 0
    BY <1>0 DEF Init, Clearing
  <2>2. Cardinality({}) = 0
    BY FS_EmptySet
  <2> QED
    BY <1>5, <2>1, <2>2 DEF LockInv
<1>7. RowInv /\ TaskInv /\ LoopInv /\ ThreadInv /\ FenceInv /\ ErasedInv /\ HeldInv
  BY <1>0, <1>1, <1>3 DEF Init, RowInv, TaskInv, LoopInv, ThreadInv, FenceInv, ErasedInv, HeldInv, StatusOf
<1> QED
  BY <1>4, <1>6, <1>7 DEF QueueInv

\* Every step of the loop, of a thread and of the session keeps the invariant.
LEMMA QueueNext == QueueInv /\ [Next]_vars => QueueInv'
<1> SUFFICES ASSUME QueueInv, [Next]_vars PROVE QueueInv'
  OBVIOUS
<1>1. CmdTyped' /\ TaskSteps /\ SessionStays
  BY NextRows, NextTasks, NextSession DEF QueueInv
<1>2. loop' \in LoopRows /\ LoopInv'
  BY LoopInvKept DEF QueueInv
<1>3. th' \in [Threads -> ThreadRows] /\ ThreadInv'
  BY ThreadInvKept DEF QueueInv
<1>4. LockInv' /\ gen' \in Generations /\ locks' \in [Generations -> Threads \cup {NoThread}]
  BY LockInvKept DEF QueueInv
<1>5. tools' \in 0..MaxTools /\ pauses' \in 0..MaxPauses /\ crashes' \in 0..MaxCrashes
  BY CountersKept DEF QueueInv
<1>6. QueueTyped'
  BY <1>1, <1>2, <1>3, <1>4, <1>5 DEF QueueTyped, TaskSteps, SessionStays
<1>7. RowInv' /\ TaskInv' /\ FenceInv' /\ ErasedInv' /\ HeldInv'
  BY RowInvKept, TaskInvKept, FenceKept, ErasedKept, HeldKept DEF QueueInv
<1> QED
  BY <1>2, <1>3, <1>4, <1>6, <1>7 DEF QueueInv

\* The invariant holds throughout.
LEMMA QueueInvariant == Spec => []QueueInv
  BY QueueInit, QueueNext, PTL DEF Spec

\* Every variable keeps its type; a suspended job keeps the question it is
\* resumed with, and no more locks are made than there are /clear messages.
THEOREM QueueTypeCorrect == Spec => []TypeOK
<1>1. QueueInv => TypeOK
  <2> SUFFICES ASSUME QueueInv PROVE TypeOK
    OBVIOUS
  <2>1. loop.pc \in LoopPcs /\ loop.todo \subseteq Commands /\ loop.cmd \in Commands \cup {NoCommand}
    BY DEF QueueInv, QueueTyped, LoopRows
  <2>2. \A c \in Commands : StatusOf(c) = "suspended" => cmd[c].call # 0
    BY DEF QueueInv, RowInv
  <2> QED
    BY <2>1, <2>2 DEF QueueInv, QueueTyped, TypeOK, CmdTyped, CmdRows, TaskRows, ThreadRows, Sessions
<1> QED
  BY <1>1, QueueInvariant, PTL

\* A command that is cancelled, or asked to cancel, is not brought back by a
\* result that comes late, by the recovery or by an answer that resumes it.
THEOREM CancelledStaysCancelled == Spec => CancelIsFinal
<1>1. QueueInv /\ [Next]_vars =>
        [\A c \in Commands :
           /\ StatusOf(c) = "cancelled" => cmd'[c].status \in {"cancelled", "deleted"}
           /\ StatusOf(c) = "cancel_requested" => cmd'[c].status \in Cancelling]_vars
  <2>1. QueueInv /\ [Next]_vars => RowSteps
    BY NextRows DEF QueueInv
  <2> QED
    BY <2>1 DEF RowSteps, RowMay, StatusOf
<1> QED
  BY <1>1, QueueInvariant, PTL DEF Spec, CancelIsFinal

\* While the process lives somebody holds every running command, or its task is
\* there to settle it from; and an erased session stays erased.
THEOREM RunningNotForgotten == Spec => []CommandsHeld
<1>1. QueueInv => CommandsHeld
  <2> SUFFICES ASSUME QueueInv PROVE CommandsHeld
    OBVIOUS
  <2>1. ASSUME NEW c \in Commands, InHand(c) PROVE Handled(c)
    <3>1. CASE loop.cmd = c /\ loop.pc \in {"spawn", "control", "clear_jobs", "clear_lock", "close"}
      BY <3>1 DEF Handled
    <3>2. ASSUME NEW t \in Threads, Holds(t, c) PROVE Handled(c)
      <4>1. th[t].pc # "idle" /\ (c = th[t].target \/ c = th[t].susp)
        BY <3>2 DEF Holds
      <4>2. th[t].target \in {th[t].cmd, th[t].susp}
        BY <4>1 DEF QueueInv, ThreadInv, WorksFor
      <4> QED
        BY <4>1, <4>2 DEF Handled
    <3> QED
      BY <2>1, <3>1, <3>2 DEF InHand
  <2> QED
    BY <2>1 DEF QueueInv, HeldInv, ErasedInv, CommandsHeld
<1> QED
  BY <1>1, QueueInvariant, PTL

----------------------------------------------------------------------------
(* The durable tasks as rows of TaskRow *)

\* A tool is started by a worker only, and nobody but a human takes the task up again.
StartedRows == \A c \in Commands : task[c].started => task[c].state \in {"running", "uncertain", "cancelled"}

RowMoves(c) == [TableRow(c)!RowNext]_(TableRow(c)!rowVars)

\* What TaskRow looks at stays.
LEMMA RowStays ==
  ASSUME NEW c \in Commands, task'[c].state = task[c].state, task'[c].lease = task[c].lease,
         task'[c].started = task[c].started, task'[c].asked = task[c].asked
  PROVE  RowMoves(c)
BY DEF RowMoves, TableRow!rowVars, Question, Closed

\* Only one row moves.
LEMMA OneRowMoves ==
  ASSUME QueueTyped, NEW c \in Commands, NEW row, task' = [task EXCEPT ![c] = row], RowMoves(c)
  PROVE  \A b \in Commands : RowMoves(b)
<1>1. ASSUME NEW b \in Commands, b # c PROVE RowMoves(b)
  <2>1. task'[b] = task[b]
    BY <1>1 DEF QueueTyped
  <2> QED
    BY <2>1, RowStays
<1> QED
  BY <1>1

\* TaskStore.claim
LEMMA ClaimMoves ==
  ASSUME QueueTyped, NEW t \in Threads, AskRow(th[t].task), ClaimTask(t) PROVE \A b \in Commands : RowMoves(b)
<1>1. PICK c \in Commands : c = th[t].task
  BY DEF AskRow, Known
<1>2. PICK row : row = [task[c] EXCEPT !.state = "running", !.lease = "live", !.holder = t]
  OBVIOUS
<1>3. task' = [task EXCEPT ![c] = row] /\ task'[c] = row /\ task[c] \in TaskRows
  BY <1>1, <1>2 DEF ClaimTask, QueueTyped
<1>4. row.state = "running" /\ row.lease = "live" /\ row.started = task[c].started /\ row.asked = task[c].asked
  BY <1>2, <1>3 DEF TaskRows
<1>5. task[c].state \in {"none", "pending", "running"} /\ task[c].lease # "live" /\ ~task[c].started
  BY <1>1 DEF ClaimTask, Free
<1>6. Question(c)' = Question(c) /\ Closed(c)' = Closed(c)
  BY <1>3, <1>4, <1>5 DEF Question, Closed, TerminalTask
<1>7. TableRow(c)!Claim
  BY <1>3, <1>4, <1>5, <1>6 DEF TableRow!Claim
<1> QED
  BY <1>3, <1>7, OneRowMoves DEF RowMoves, TableRow!RowNext

\* A started tool of a worker that is gone.
LEMMA RefusalMoves ==
  ASSUME QueueTyped, StartedRows, NEW t \in Threads, AskRow(th[t].task), ClaimRefused(t)
  PROVE  \A b \in Commands : RowMoves(b)
<1>1. PICK c \in Commands : c = th[t].task
  BY DEF AskRow, Known
<1>2. CASE task' = task
  BY <1>2, RowStays
<1>3. CASE /\ task[c].state \notin TerminalTask /\ task[c].lease # "live" /\ task[c].started
           /\ task' = [task EXCEPT ![c].state = "uncertain"]
  <2>1. PICK row : row = [task[c] EXCEPT !.state = "uncertain"]
    OBVIOUS
  <2>2. task' = [task EXCEPT ![c] = row] /\ task'[c] = row /\ task[c] \in TaskRows
    BY <1>3, <2>1 DEF QueueTyped
  <2>3. row.state = "uncertain" /\ row.lease = task[c].lease /\ row.started = task[c].started /\ row.asked = task[c].asked
    BY <2>1, <2>2 DEF TaskRows
  <2>4. task[c].state \in {"running", "uncertain"}
    BY <1>3 DEF StartedRows, TerminalTask
  <2>5. CASE task[c].state = "uncertain"
    <3>1. RowMoves(c)
      BY <2>2, <2>3, <2>5, RowStays
    <3> QED
      BY <2>2, <3>1, OneRowMoves
  <2>6. CASE task[c].state = "running"
    <3>1. Question(c)' = Question(c) /\ Closed(c)' = Closed(c)
      BY <2>2, <2>3, <2>6 DEF Question, Closed, TerminalTask
    <3>2. TableRow(c)!GiveUp
      BY <1>3, <2>2, <2>3, <2>6, <3>1 DEF TableRow!GiveUp
    <3> QED
      BY <2>2, <3>2, OneRowMoves DEF RowMoves, TableRow!RowNext
  <2> QED
    BY <2>4, <2>5, <2>6
<1> QED
  BY <1>1, <1>2, <1>3 DEF ClaimRefused

\* recover_tasks finds a worker that is gone.
LEMMA UncertainMoves ==
  ASSUME QueueTyped, LoopInv, RecoverUncertain PROVE \A b \in Commands : RowMoves(b)
<1>1. PICK c \in Commands : c = loop.cmd
  BY DEF RecoverUncertain, LoopInv, AskRow, Known
<1>2. CASE task' = task
  BY <1>2, RowStays
<1>3. CASE /\ task[c].state = "running" /\ task[c].lease = "expired"
           /\ task' = [task EXCEPT ![c].state = "uncertain", ![c].lease = "null", ![c].holder = NoThread]
  <2>1. PICK row : row = [task[c] EXCEPT !.state = "uncertain", !.lease = "null", !.holder = NoThread]
    OBVIOUS
  <2>2. task' = [task EXCEPT ![c] = row] /\ task'[c] = row /\ task[c] \in TaskRows
    BY <1>3, <2>1 DEF QueueTyped
  <2>3. row.state = "uncertain" /\ row.lease = "null" /\ row.started = task[c].started /\ row.asked = task[c].asked
    BY <2>1, <2>2 DEF TaskRows
  <2>4. Question(c)' = Question(c) /\ Closed(c)' = Closed(c)
    BY <1>3, <2>2, <2>3 DEF Question, Closed, TerminalTask
  <2>5. TableRow(c)!GiveUp
    BY <1>3, <2>2, <2>3, <2>4 DEF TableRow!GiveUp
  <2> QED
    BY <2>2, <2>5, OneRowMoves DEF RowMoves, TableRow!RowNext
<1> QED
  BY <1>1, <1>2, <1>3 DEF RecoverUncertain

\* An answer closes the question.
LEMMA AnswerMoves ==
  ASSUME QueueTyped, TaskInv, NEW t \in Threads, AskRow(th[t].task), AnswerTask(t) PROVE \A b \in Commands : RowMoves(b)
<1>1. PICK c \in Commands : c = th[t].task
  BY DEF AskRow, Known
<1>2. CASE task' = task
  BY <1>2, RowStays
<1>3. CASE task[c].state = "suspended" /\ task' = [task EXCEPT ![c].state = "pending"]
  <2>1. PICK row : row = [task[c] EXCEPT !.state = "pending"]
    OBVIOUS
  <2>2. task' = [task EXCEPT ![c] = row] /\ task'[c] = row /\ task[c] \in TaskRows
    BY <1>3, <2>1 DEF QueueTyped
  <2>3. row.state = "pending" /\ row.lease = task[c].lease /\ row.started = task[c].started /\ row.asked = task[c].asked
    BY <2>1, <2>2 DEF TaskRows
  <2>4. task[c].asked \in Nat /\ task[c].asked # 0
    BY <1>3, <2>2 DEF TaskInv, TaskRows, Questions
  <2>5. Question(c) = task[c].asked /\ Question(c)' = 0
    BY <1>3, <2>2, <2>3 DEF Question
  <2>6. Closed(c) = (1..task[c].asked) \ {task[c].asked} /\ Closed(c)' = (1..task[c].asked) \ {0}
    BY <1>3, <2>2, <2>3, <2>5 DEF Closed, TerminalTask
  <2>7. Closed(c)' = Closed(c) \cup {Question(c)}
    BY <2>4, <2>5, <2>6
  <2>8. TableRow(c)!Answer
    BY <1>3, <2>2, <2>3, <2>5, <2>7 DEF TableRow!Answer
  <2> QED
    BY <2>2, <2>8, OneRowMoves DEF RowMoves, TableRow!RowNext
<1> QED
  BY <1>1, <1>2, <1>3 DEF AnswerTask

\* A tool starts or returns.
LEMMA ToolMoves ==
  ASSUME QueueTyped, NEW t \in Threads, AskRow(th[t].task), ToolStep(t) PROVE \A b \in Commands : RowMoves(b)
<1>1. PICK c \in Commands : c = th[t].task
  BY DEF AskRow, Known
<1>2. PICK row : row = [task[c] EXCEPT !.started = ~task[c].started]
  OBVIOUS
<1>3. task' = [task EXCEPT ![c] = row] /\ task'[c] = row /\ task[c] \in TaskRows
  BY <1>1, <1>2 DEF ToolStep, QueueTyped
<1>4. row.state = task[c].state /\ row.lease = task[c].lease /\ row.asked = task[c].asked
  BY <1>2, <1>3 DEF TaskRows
<1>5. task'[c].started = ~task[c].started
  BY <1>2, <1>3, Zenon DEF TaskRows
<1>6. task[c].state = "running" /\ task[c].lease = "live"
  BY <1>1 DEF ToolStep, Owns
<1>7. Question(c)' = Question(c) /\ Closed(c)' = Closed(c)
  BY <1>3, <1>4, <1>6 DEF Question, Closed
<1>8. TableRow(c)!Checkpoint
  <2>1. task'[c].state = task[c].state /\ task'[c].lease = task[c].lease
    BY <1>3, <1>4
  <2> QED
    BY <1>5, <1>6, <1>7, <2>1, Zenon DEF TableRow!Checkpoint, TableRow!Held
<1> QED
  BY <1>3, <1>8, OneRowMoves DEF RowMoves, TableRow!RowNext

\* The turn ends with a reply, a question or an error.
LEMMA EndMoves ==
  ASSUME QueueTyped, NEW t \in Threads, AskRow(th[t].task), WorkEnds(t) PROVE \A b \in Commands : RowMoves(b)
<1>1. PICK c \in Commands : c = th[t].task
  BY DEF AskRow, Known
<1>2. task[c].state = "running" /\ task[c].lease = "live" /\ task[c] \in TaskRows
  BY <1>1 DEF WorkEnds, Owns, QueueTyped
<1>3. ASSUME NEW state \in {"completed", "failed", "cancelled", "uncertain", "pending"},
             state = "uncertain" <=> task[c].started, task' = [task EXCEPT ![c] = Finished(@, state)]
      PROVE  \A b \in Commands : RowMoves(b)
  <2>1. PICK row : row = Finished(task[c], state)
    OBVIOUS
  <2>2. task' = [task EXCEPT ![c] = row] /\ task'[c] = row
    BY <1>3, <2>1 DEF QueueTyped
  <2>3. row.state = state /\ row.lease = "null" /\ row.started = task[c].started /\ row.asked = task[c].asked
    BY <1>2, <2>1 DEF TaskRows, Finished
  <2>4. Question(c)' = Question(c)
    BY <1>2, <1>3, <2>2, <2>3 DEF Question
  <2>5. Closed(c)' = IF state \in TerminalTask THEN {} ELSE Closed(c)
    BY <1>2, <2>2, <2>3, <2>4 DEF Closed, TerminalTask
  <2>6. CASE state = "uncertain"
    <3>1. task[c].started /\ Closed(c)' = Closed(c)
      BY <1>3, <2>5, <2>6 DEF TerminalTask
    <3>2. task'[c].state = "uncertain" /\ task'[c].lease = "null" /\ task'[c].started = task[c].started
      BY <2>2, <2>3, <2>6
    <3>3. TableRow(c)!GiveUp
      BY <1>2, <2>4, <3>1, <3>2 DEF TableRow!GiveUp
    <3> QED
      BY <2>2, <3>3, OneRowMoves DEF RowMoves, TableRow!RowNext
  <2>7. CASE state # "uncertain"
    <3>1. ~task[c].started /\ state \in TableRow(c)!Over \cup {"pending"} /\ TableRow(c)!Over = TerminalTask
      BY <1>3, <2>7 DEF TableRow!Over, TerminalTask
    <3>2. TableRow(c)!Finish(state)
      BY <1>2, <2>2, <2>3, <2>4, <2>5, <3>1 DEF TableRow!Finish, TableRow!Held
    <3> QED
      BY <2>2, <3>1, <3>2, OneRowMoves DEF RowMoves, TableRow!RowNext
  <2> QED
    BY <2>6, <2>7
<1>4. CASE /\ ~task[c].started /\ task[c].asked < MaxQuestions
           /\ task' = [task EXCEPT ![c] = [Finished(task[c], "suspended") EXCEPT !.asked = task[c].asked + 1]]
  <2>1. PICK done : done = Finished(task[c], "suspended")
    OBVIOUS
  <2>2. /\ done \in TaskRows /\ done.state = "suspended" /\ done.lease = "null"
        /\ done.started = task[c].started /\ done.asked = task[c].asked
    BY <1>2, <2>1 DEF TaskRows, TaskStates, Finished
  <2>3. PICK row : row = [done EXCEPT !.asked = task[c].asked + 1]
    OBVIOUS
  <2>4. task' = [task EXCEPT ![c] = row] /\ task'[c] = row
    BY <1>4, <2>1, <2>3 DEF QueueTyped
  <2>5. row.state = "suspended" /\ row.lease = "null" /\ row.started = task[c].started /\ row.asked = task[c].asked + 1
    BY <2>2, <2>3 DEF TaskRows
  <2>6. task[c].asked \in Nat /\ task[c].asked + 1 \in 1..MaxQuestions
    BY <1>2, <1>4, QueueAssumption DEF TaskRows, Questions
  <2>7. Question(c)' = task[c].asked + 1 /\ Question(c) = 0
    BY <1>2, <2>4, <2>5 DEF Question
  <2>8. Closed(c) = (1..task[c].asked) \ {0} /\ Closed(c)' = (1..(task[c].asked + 1)) \ {task[c].asked + 1}
    BY <1>2, <2>4, <2>5, <2>7 DEF Closed, TerminalTask
  <2>9. Closed(c)' = Closed(c) /\ task[c].asked + 1 \notin Closed(c)
    BY <2>6, <2>8
  <2>10. TableRow(c)!Suspend(task[c].asked + 1)
    BY <1>2, <1>4, <2>4, <2>5, <2>7, <2>9 DEF TableRow!Suspend, TableRow!Held
  <2> QED
    BY <2>4, <2>6, <2>10, OneRowMoves DEF RowMoves, TableRow!RowNext
<1>5. \/ \E state \in {"completed", "failed", "cancelled", "uncertain", "pending"} :
           (state = "uncertain" <=> task[c].started) /\ task' = [task EXCEPT ![c] = Finished(@, state)]
      \/ /\ ~task[c].started /\ task[c].asked < MaxQuestions
         /\ task' = [task EXCEPT ![c] = [Finished(task[c], "suspended") EXCEPT !.asked = task[c].asked + 1]]
  BY <1>1 DEF WorkEnds
<1> QED
  BY <1>3, <1>4, <1>5

\* TaskStore.cancel_session
LEMMA ClearMoves ==
  ASSUME QueueTyped, ClearTasks PROVE \A b \in Commands : RowMoves(b)
<1> SUFFICES ASSUME NEW c \in Commands PROVE RowMoves(c)
  OBVIOUS
<1>1. task[c] \in TaskRows
  BY DEF QueueTyped
<1>2. CASE task[c].state \in TerminalTask \cup {"none"}
  <2>1. task'[c] = task[c]
    BY <1>2 DEF ClearTasks
  <2> QED
    BY <2>1, RowStays
<1>3. CASE task[c].state \notin TerminalTask \cup {"none"}
  <2>1. task'[c] = Finished(task[c], "cancelled")
    BY <1>3 DEF ClearTasks, Finished
  <2>2. task'[c].state = "cancelled" /\ task'[c].lease = "null" /\ task'[c].started = task[c].started
    BY <1>1, <2>1 DEF TaskRows, Finished
  <2>3. Question(c)' = 0 /\ Closed(c)' = {}
    BY <2>2 DEF Question, Closed, TerminalTask
  <2>4. TableRow(c)!Cancel
    BY <1>3, <2>2, <2>3 DEF TableRow!Cancel, TableRow!Over, TerminalTask
  <2> QED
    BY <2>4 DEF RowMoves, TableRow!RowNext
<1> QED
  BY <1>2, <1>3

\* /resolve, a lease that runs out, and a crash.
LEMMA OutsideMoves ==
  ASSUME QueueTyped, Crash \/ \E c \in Commands : Resolve(c) \/ LeaseExpires(c) PROVE \A b \in Commands : RowMoves(b)
<1>1. ASSUME NEW c \in Commands, Resolve(c) PROVE \A b \in Commands : RowMoves(b)
  <2>1. PICK row : row = [task[c] EXCEPT !.state = "pending", !.started = FALSE, !.lease = "null"]
    OBVIOUS
  <2>2. task' = [task EXCEPT ![c] = row] /\ task'[c] = row /\ task[c] \in TaskRows
    BY <1>1, <2>1 DEF Resolve, QueueTyped
  <2>3. row.state = "pending" /\ row.lease = "null" /\ row.started = FALSE /\ row.asked = task[c].asked
    BY <2>1, <2>2 DEF TaskRows
  <2>4. task[c].state = "uncertain" /\ task[c].started
    BY <1>1 DEF Resolve
  <2>5. Question(c)' = Question(c) /\ Closed(c)' = Closed(c)
    BY <2>2, <2>3, <2>4 DEF Question, Closed, TerminalTask
  <2>6. TableRow(c)!Resolve
    BY <2>2, <2>3, <2>4, <2>5 DEF TableRow!Resolve
  <2> QED
    BY <2>2, <2>6, OneRowMoves DEF RowMoves, TableRow!RowNext
<1>2. ASSUME NEW c \in Commands, LeaseExpires(c) PROVE \A b \in Commands : RowMoves(b)
  <2>1. PICK row : row = [task[c] EXCEPT !.lease = "expired"]
    OBVIOUS
  <2>2. task' = [task EXCEPT ![c] = row] /\ task'[c] = row /\ task[c] \in TaskRows
    BY <1>2, <2>1 DEF LeaseExpires, QueueTyped
  <2>3. /\ row.state = task[c].state /\ row.lease = "expired" /\ row.started = task[c].started
        /\ row.asked = task[c].asked
    BY <2>1, <2>2 DEF TaskRows
  <2>4. Question(c)' = Question(c) /\ Closed(c)' = Closed(c)
    BY <2>2, <2>3 DEF Question, Closed
  <2>5. TableRow(c)!LeaseExpires
    BY <1>2, <2>2, <2>3, <2>4 DEF LeaseExpires, TableRow!LeaseExpires
  <2> QED
    BY <2>2, <2>5, OneRowMoves DEF RowMoves, TableRow!RowNext
<1>3. CASE Crash
  <2>1. \A c \in Commands : task'[c] = [task[c] EXCEPT !.holder = NoThread] /\ task[c] \in TaskRows
    BY <1>3 DEF Crash, QueueTyped
  <2>2. \A c \in Commands : /\ task'[c].state = task[c].state /\ task'[c].lease = task[c].lease
                            /\ task'[c].started = task[c].started /\ task'[c].asked = task[c].asked
    BY <2>1 DEF TaskRows
  <2> QED
    BY <2>2, RowStays
<1> QED
  BY <1>1, <1>2, <1>3

\* A step of a thread moves the rows as TaskRow does.
LEMMA ThreadRowMoves ==
  ASSUME QueueTyped, TaskInv, ThreadInv, StartedRows, NEW t \in Threads, ThreadStep(t) \/ ToolStep(t) \/ Spawn(t)
  PROVE  \A b \in Commands : RowMoves(b)
<1>1. th[t].pc \in {"answer", "claim", "work"} => AskRow(th[t].task)
  BY DEF ThreadInv, WorksFor
<1>2. CASE AnswerTask(t) \/ ClaimTask(t) \/ ClaimRefused(t) \/ WorkEnds(t) \/ ToolStep(t)
  <2>1. AskRow(th[t].task)
    BY <1>1, <1>2 DEF AnswerTask, ClaimTask, ClaimRefused, WorkEnds, ToolStep
  <2> QED
    BY <1>2, <2>1, AnswerMoves, ClaimMoves, RefusalMoves, EndMoves, ToolMoves
<1>3. CASE Spawn(t) \/ Start(t) \/ Forward(t) \/ Forwarded(t) \/ ForwardFails(t) \/ Enter(t) \/ LockAcquired(t) \/ LockCancelled(t)
           \/ Dispatch(t) \/ DispatchRefused(t)
  <2>1. task' = task
    BY <1>3 DEF Spawn, Start, Forward, Forwarded, ForwardFails, Enter, LockAcquired, LockCancelled, Dispatch, DispatchRefused,
                ThreadOnly, QueueOnly
  <2> QED
    BY <2>1, RowStays
<1>4. CASE WorkLost(t) \/ Release(t) \/ After(t) \/ WriteCancelled(t) \/ WriteResult(t) \/ Reply(t) \/ Fail(t)
  <2>1. task' = task
    BY <1>4 DEF WorkLost, Release, After, WriteCancelled, WriteResult, Reply, Fail, ThreadOnly, QueueOnly
  <2> QED
    BY <2>1, RowStays
<1> QED
  BY <1>2, <1>3, <1>4 DEF ThreadStep

\* Every step does.
LEMMA NextRowMoves ==
  ASSUME QueueTyped, TaskInv, LoopInv, ThreadInv, StartedRows, [Next]_vars PROVE \A b \in Commands : RowMoves(b)
<1>1. CASE LoopStep
  BY <1>1, OtherTasks, RowStays, UncertainMoves, ClearMoves, ThreadRowMoves DEF LoopStep
<1>2. CASE \E t \in Threads : ThreadStep(t) \/ ToolStep(t)
  BY <1>2, ThreadRowMoves
<1>3. CASE (\E c \in Commands : Ingest(c) \/ Resolve(c) \/ LeaseExpires(c)) \/ ConfirmDeletion \/ BeginDeletion
           \/ EraseSession \/ Crash \/ UNCHANGED vars
  BY <1>3, OtherTasks, RowStays, OutsideMoves
<1> QED
  BY <1>1, <1>2, <1>3 DEF Next

\* No step of a row hands a started tool to anybody but a human.
LEMMA StartedStays ==
  ASSUME StartedRows, \A b \in Commands : RowMoves(b) PROVE StartedRows'
<1> SUFFICES ASSUME NEW c \in Commands, task'[c].started PROVE task'[c].state \in {"running", "uncertain", "cancelled"}
  BY DEF StartedRows
<1>1. task[c].started => task[c].state \in {"running", "uncertain", "cancelled"}
  BY DEF StartedRows
<1>2. CASE UNCHANGED TableRow(c)!rowVars
  BY <1>1, <1>2 DEF TableRow!rowVars
<1>3. CASE TableRow(c)!Claim \/ TableRow(c)!Checkpoint \/ TableRow(c)!GiveUp
  BY <1>1, <1>3 DEF TableRow!Claim, TableRow!Checkpoint, TableRow!Held, TableRow!GiveUp
<1>4. CASE TableRow(c)!Answer \/ TableRow(c)!Resolve \/ TableRow(c)!Cancel \/ TableRow(c)!LeaseExpires
  BY <1>1, <1>4 DEF TableRow!Answer, TableRow!Resolve, TableRow!Cancel, TableRow!LeaseExpires
<1>5. CASE (\E result : TableRow(c)!Finish(result)) \/ (\E q : TableRow(c)!Suspend(q))
  BY <1>5 DEF TableRow!Finish, TableRow!Suspend
<1> QED
  BY <1>2, <1>3, <1>4, <1>5 DEF RowMoves, TableRow!RowNext

\* Before anything was ingested.
LEMMA RowsBegin == Init => StartedRows /\ \A c \in Commands : TableRow(c)!RowInit
<1> SUFFICES ASSUME Init, NEW c \in Commands PROVE ~task[c].started /\ TableRow(c)!RowInit
  BY DEF StartedRows
<1>1. task[c] = NoTask
  BY DEF Init
<1>2. Question(c) = 0 /\ Closed(c) = {}
  BY <1>1 DEF NoTask, Question, Closed, TerminalTask
<1> QED
  BY <1>1, <1>2 DEF NoTask, TableRow!RowInit

\* Every step keeps a started tool where it belongs and moves the rows as TaskRow says.
LEMMA RowsGoOn == QueueInv /\ StartedRows /\ [Next]_vars => StartedRows' /\ \A c \in Commands : RowMoves(c)
BY NextRowMoves, StartedStays DEF QueueInv

\* The durable tasks behind the commands begin as rows of TaskRow and take no other steps:
\* whatever threads, recovery rounds, forwarded answers, /clear and deletions do, a started
\* tool is not taken up again without a human and what is over stays over.
THEOREM QueuedTasksAsRows == Spec => \A c \in Commands : TableRow(c)!RowSpec
<1> SUFFICES ASSUME NEW c \in Commands PROVE Spec => TableRow(c)!RowSpec
  OBVIOUS
<1>1. Init => StartedRows /\ TableRow(c)!RowInit
  BY RowsBegin
<1>2. QueueInv /\ StartedRows /\ [Next]_vars => StartedRows' /\ [TableRow(c)!RowNext]_(TableRow(c)!rowVars)
  BY RowsGoOn DEF RowMoves
<1> QED
  BY <1>1, <1>2, QueueInvariant, PTL DEF Spec, TableRow!RowSpec
=============================================================================
