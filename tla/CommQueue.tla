----------------------------- MODULE CommQueue -----------------------------
(****************************************************************************)
(* The command queue of one conversation session: table agent_command_jobs  *)
(* of communication_store.py, the main loop (process_next, recover_tasks)   *)
(* and the background threads of communication_worker.py, the session lock  *)
(* of agent_execution/sessions.py, and the durable task behind each command *)
(* (agent_execution/tasks.py, reduced to the columns this code looks at;    *)
(* TaskLease models it in full).                                            *)
(*                                                                          *)
(* Commands are numbered in the order of their rows.  A command is an       *)
(* ordinary message, a /cancel of another command or a /clear.  A question  *)
(* of ask_user is the number of the question the task has asked, 0 for none.*)
(* What is sent to the platform is CommDelivery's.                          *)
(****************************************************************************)
EXTENDS Naturals, FiniteSets, FiniteSetsExt

CONSTANTS
  NCommands,      \* messages that arrive (model bound)
  MaxOf,          \* how many messages of each kind arrive (model bound)
  CancelTarget,   \* the command a /cancel names
  Threads,        \* AGENT_TASK_CONCURRENCY background threads
  NoThread,
  MaxQuestions,   \* questions one task asks (model bound)
  MaxTools,       \* tools started in the whole run (model bound)
  MaxDeletions,   \* whether the session is deleted, 0 or 1 (model bound)
  MaxPauses,      \* leases that run out under a living worker (model bound)
  MaxCrashes      \* deaths of the process (model bound)

Commands == 1..NCommands
Kinds == {"ask", "cancel", "clear"}
NoCommand == 0

ASSUME QueueAssumption ==
  /\ NCommands \in Nat /\ MaxQuestions \in Nat /\ MaxTools \in Nat /\ MaxDeletions \in {0, 1}
  /\ MaxPauses \in Nat /\ MaxCrashes \in Nat
  /\ MaxOf \in [Kinds -> Nat]
  /\ CancelTarget \in [Commands -> Commands]
  /\ NoThread \notin Threads

VARIABLES
  cmd,      \* agent_command_jobs: kind of its text, status, question kept in suspended_tool_call_id
  task,     \* tasks: state, lease, phase of a started tool, holder of the token, question asked
  session,  \* wl_sessions and comm_session_states (see Open)
  locks,    \* who holds each generation of the session lock
  gen,      \* the generation RuntimeSessions.get returns now
  th,       \* the background threads
  loop,     \* the main loop
  tools, pauses, crashes

vars == <<cmd, task, session, locks, gen, th, loop, tools, pauses, crashes>>

Statuses == {"absent", "pending", "running", "suspended", "recovery_required",
             "cancel_requested", "cancelled", "completed", "failed", "deleted"}
Questions == 0..MaxQuestions
TaskStates == {"none", "pending", "running", "suspended", "uncertain", "completed", "failed", "cancelled"}
TerminalTask == {"completed", "failed", "cancelled"}
NoTask == [state |-> "none", lease |-> "null", started |-> FALSE, holder |-> NoThread, asked |-> 0]

ThreadPcs == {"idle", "start", "forward", "forwarded", "enter", "wait", "locked", "answer", "claim",
              "work", "release", "after", "write", "cancelled", "reply", "fail"}
IdleThread == [pc |-> "idle", cmd |-> NoCommand, target |-> NoCommand, task |-> NoCommand,
               susp |-> NoCommand, call |-> 0, out |-> "none", gen |-> 0]

LoopPcs == {"idle", "recover", "resolve", "settle", "mark", "spawn", "control", "clear_jobs", "clear_lock", "close"}
NotSeen == [state |-> "none", started |-> FALSE, asked |-> 0]
IdleLoop == [pc |-> "idle", todo |-> {}, cmd |-> NoCommand, seen |-> NotSeen]

Generations == 0..NCommands

Init ==
  /\ cmd = [c \in Commands |-> [kind |-> "ask", status |-> "absent", call |-> 0]]
  /\ task = [c \in Commands |-> NoTask]
  /\ session = "active"
  /\ locks = [g \in Generations |-> NoThread]
  /\ gen = 0
  /\ th = [t \in Threads |-> IdleThread]
  /\ loop = IdleLoop
  /\ tools = 0 /\ pauses = 0 /\ crashes = 0

----------------------------------------------------------------------------
(* The statements of the store *)

\* A confirmed deletion fences the tasks (wl_sessions, assert_owner_active) before
\* it reaches comm_session_states, which the commands look at.
Open == session \in {"active", "confirmed"}
TasksOpen == session = "active"

StatusOf(c) == cmd[c].status
Kind(c) == cmd[c].kind
Settled(row, status) == [row EXCEPT !.status = status, !.call = 0]
Cancelling == {"cancel_requested", "cancelled"}
CancelSeen(c) == StatusOf(c) \in Cancelling \cup {"deleted"}     \* is_cancel_requested

UpdatedAlways(c, status) == status

\* The CASE of _update_command, for status completed or failed.
Updated(c, status) == IF StatusOf(c) \in Cancelling THEN "cancelled" ELSE status

UpdateCommandUnfenced(c, status) == cmd' = [cmd EXCEPT ![c].status = Updated(c, status)]

UpdateCommand(c, status) ==
  cmd' = CASE Open -> [cmd EXCEPT ![c].status = Updated(c, status)]
           [] session = "deleting" -> [cmd EXCEPT ![c] = Settled(@, "cancelled")]
           [] session = "deleted" -> cmd

\* mark_command_running
MayRun(c) ==
  /\ Open \/ Kind(c) = "cancel"
  /\ StatusOf(c) \in {"pending", "suspended"}

MarkRunning(c) == cmd' = [cmd EXCEPT ![c].status = "running"]

\* suspend_command
Suspendable(c) == Open /\ StatusOf(c) \in {"pending", "running"}
SuspendedRowBare(row, question) == [row EXCEPT !.status = "suspended"]
SuspendedRow(row, question) == [row EXCEPT !.status = "suspended", !.call = question]
SuspendCommand(c, question) ==
  cmd' = IF Suspendable(c) THEN [cmd EXCEPT ![c] = SuspendedRow(@, question)] ELSE cmd

\* cancel_command
CancelledStatus(status) ==
  CASE status = "running" -> "cancel_requested"
    [] status \in {"pending", "suspended"} -> "cancelled"
    [] OTHER -> status
CancelCommand(c) == cmd' = [cmd EXCEPT ![c].status = CancelledStatus(@)]

\* set_recovery_state
RecoveryStatus(c) == StatusOf(c) \in {"running", "recovery_required"}
SetRecoveryState(c, status) ==
  cmd' = IF RecoveryStatus(c) THEN [cmd EXCEPT ![c].status = status] ELSE cmd

----------------------------------------------------------------------------
(* Messages arrive *)

\* ingest_inbound_message of a new event; a repeated event changes nothing.
Ingest(c) ==
  /\ StatusOf(c) = "absent" /\ \A b \in 1..(c - 1) : StatusOf(b) # "absent"
  /\ \E kind \in Kinds :
       /\ Open \/ (session = "deleting" /\ kind = "cancel")
       /\ Cardinality({b \in 1..(c - 1) : Kind(b) = kind}) < MaxOf[kind]
       /\ cmd' = [cmd EXCEPT ![c] = [@ EXCEPT !.status = "pending", !.kind = kind]]
  /\ UNCHANGED <<task, session, locks, gen, th, loop, tools, pauses, crashes>>

----------------------------------------------------------------------------
(* The main loop: recovery *)

StoreUnchanged == UNCHANGED <<task, session, locks, gen, th, tools, pauses, crashes>>

\* process_next begins; recoverable_commands is read once.
BeginRound ==
  /\ loop.pc = "idle"
  /\ loop' = [loop EXCEPT !.pc = "recover", !.todo = {c \in Commands : RecoveryStatus(c)}]
  /\ UNCHANGED cmd /\ StoreUnchanged

SkippedLeased(c) == task[c].state = "none" \/ task[c].lease # "null"

\* No durable task, or one whose lease is in the future.
Skipped(c) == task[c].state = "none" \/ task[c].lease = "live"

RecoverRead(c) ==
  /\ loop.pc = "recover" /\ c \in loop.todo
  /\ loop' = IF Skipped(c) THEN [loop EXCEPT !.todo = @ \ {c}]
             ELSE [loop EXCEPT !.pc = "resolve", !.cmd = c, !.seen = [state |-> task[c].state, started |-> task[c].started, asked |-> task[c].asked]]
  /\ UNCHANGED cmd /\ StoreUnchanged

NextRecovery == loop' = [loop EXCEPT !.pc = "recover", !.todo = @ \ {loop.cmd}, !.cmd = NoCommand, !.seen = NotSeen]

\* What the task row said a moment ago decides what happens to the command.
RecoverTerminal ==
  /\ loop.pc = "resolve" /\ loop.seen.state \in TerminalTask
  /\ IF loop.seen.state = "cancelled"
       THEN CancelCommand(loop.cmd) /\ loop' = [loop EXCEPT !.pc = "settle"]
       ELSE UpdateCommand(loop.cmd, loop.seen.state) /\ NextRecovery
  /\ StoreUnchanged

Dangling == loop.seen.started \/ loop.seen.state = "uncertain"

RecoverUncertain ==
  /\ loop.pc = "resolve" /\ loop.seen.state \notin TerminalTask /\ Dangling
  /\ task' = IF task[loop.cmd].state = "running" /\ task[loop.cmd].lease = "expired"
               THEN [task EXCEPT ![loop.cmd].state = "uncertain", ![loop.cmd].lease = "null",
                                 ![loop.cmd].holder = NoThread]
               ELSE task
  /\ loop' = [loop EXCEPT !.pc = "settle"]
  /\ UNCHANGED <<cmd, session, locks, gen, th, tools, pauses, crashes>>

\* The second statement of the two branches that have two.
RecoverSettle ==
  /\ loop.pc = "settle"
  /\ IF loop.seen.state = "cancelled" THEN UpdateCommand(loop.cmd, "completed")
     ELSE SetRecoveryState(loop.cmd, "recovery_required")
  /\ NextRecovery
  /\ StoreUnchanged

RecoverSuspended ==
  /\ loop.pc = "resolve" /\ loop.seen.state = "suspended" /\ ~Dangling
  /\ SuspendCommand(loop.cmd, loop.seen.asked)
  /\ NextRecovery
  /\ StoreUnchanged

RecoverPending ==
  /\ loop.pc = "resolve" /\ loop.seen.state \in {"pending", "running"} /\ ~Dangling
  /\ SetRecoveryState(loop.cmd, "pending")
  /\ NextRecovery
  /\ StoreUnchanged

----------------------------------------------------------------------------
(* The main loop: admission *)

Busy == \A t \in Threads : th[t].pc # "idle"

AdmissibleQuiet ==
  {c \in Commands : StatusOf(c) = "pending" /\ \A b \in Commands : StatusOf(b) # "suspended"}

\* The first pending command; while every thread is taken, the first control command.
Admissible == {c \in Commands : StatusOf(c) = "pending" /\ (Busy => Kind(c) # "ask")}

Select ==
  /\ loop.pc = "recover" /\ loop.todo = {}
  /\ loop' = IF Admissible = {} THEN IdleLoop ELSE [IdleLoop EXCEPT !.pc = "mark", !.cmd = Min(Admissible)]
  /\ UNCHANGED cmd /\ StoreUnchanged

MarkFails ==
  /\ loop.pc = "mark" /\ ~MayRun(loop.cmd)
  /\ loop' = IdleLoop
  /\ UNCHANGED cmd /\ StoreUnchanged

MarkControl ==
  /\ loop.pc = "mark" /\ MayRun(loop.cmd) /\ Kind(loop.cmd) # "ask"
  /\ MarkRunning(loop.cmd)
  /\ loop' = [loop EXCEPT !.pc = "control"]
  /\ StoreUnchanged

\* get_suspended_command: the latest suspended job, if it has a question.
SuspendedJobs == {c \in Commands : StatusOf(c) = "suspended"}
SuspendedJob ==
  IF SuspendedJobs = {} \/ cmd[Max(SuspendedJobs)].call = 0 THEN NoCommand ELSE Max(SuspendedJobs)

MarkAsk ==
  /\ loop.pc = "mark" /\ MayRun(loop.cmd) /\ Kind(loop.cmd) = "ask"
  /\ MarkRunning(loop.cmd)
  /\ loop' = [loop EXCEPT !.pc = "spawn"]
  /\ StoreUnchanged

\* The suspended job is looked up here, and used by the thread later.
Spawn(t) ==
  /\ loop.pc = "spawn" /\ th[t].pc = "idle"
  /\ LET s == SuspendedJob IN
     th' = [th EXCEPT ![t] = [IdleThread EXCEPT !.pc = "start", !.cmd = loop.cmd, !.target = loop.cmd,
                                                !.susp = s, !.call = IF s = NoCommand THEN 0 ELSE cmd[s].call]]
  /\ loop' = IdleLoop
  /\ UNCHANGED <<cmd, task, session, locks, gen, tools, pauses, crashes>>

DoCancel ==
  /\ loop.pc = "control" /\ Kind(loop.cmd) = "cancel"
  /\ CancelCommand(CancelTarget[loop.cmd])
  /\ loop' = [loop EXCEPT !.pc = "close"]
  /\ StoreUnchanged

\* /clear: TaskStore.cancel_session, then cancel_session of the queue, then the
\* session runtime with its lock, then clear_suspended_command.
ClearTasks ==
  /\ loop.pc = "control" /\ Kind(loop.cmd) = "clear"
  /\ task' = [c \in Commands |-> IF task[c].state \in TerminalTask \cup {"none"} THEN task[c]
                                 ELSE [task[c] EXCEPT !.state = "cancelled", !.lease = "null", !.holder = NoThread]]
  /\ loop' = [loop EXCEPT !.pc = "clear_jobs"]
  /\ UNCHANGED <<cmd, session, locks, gen, th, tools, pauses, crashes>>

ClearJobs ==
  /\ loop.pc = "clear_jobs"
  /\ cmd' = [c \in Commands |->
               IF c # loop.cmd /\ StatusOf(c) \in {"pending", "running", "cancel_requested", "suspended"}
                 THEN Settled(cmd[c], IF StatusOf(c) \in {"running", "cancel_requested"}
                                        THEN "cancel_requested" ELSE "cancelled")
                 ELSE cmd[c]]
  /\ loop' = [loop EXCEPT !.pc = "clear_lock"]
  /\ StoreUnchanged

\* clear_session drops the runtime together with its lock.
NewLock(g) == g + 1

ClearLock ==
  /\ loop.pc = "clear_lock"
  /\ gen' = NewLock(gen)
  /\ cmd' = [c \in Commands |-> IF StatusOf(c) = "suspended" THEN Settled(cmd[c], "cancelled") ELSE cmd[c]]
  /\ loop' = [loop EXCEPT !.pc = "close"]
  /\ UNCHANGED <<task, session, locks, th, tools, pauses, crashes>>

CloseControlForgotten == loop.pc = "close" /\ loop' = IdleLoop /\ UNCHANGED cmd /\ StoreUnchanged

CloseControl ==
  /\ loop.pc = "close"
  /\ UpdateCommand(loop.cmd, "completed")
  /\ loop' = IdleLoop
  /\ StoreUnchanged

----------------------------------------------------------------------------
(* A background thread *)

ThreadOnly == UNCHANGED <<cmd, task, session, locks, gen, loop, tools, pauses, crashes>>
QueueOnly == UNCHANGED <<task, session, locks, gen, loop, tools, pauses, crashes>>
Go(t, pc) == th' = [th EXCEPT ![t].pc = pc]

\* load_attachments raises for a session that is being deleted.
Start(t) ==
  /\ th[t].pc = "start"
  /\ Go(t, IF ~Open THEN "fail" ELSE IF th[t].susp # NoCommand THEN "forward" ELSE "enter")
  /\ ThreadOnly

\* The answer goes to the suspended job if nobody else resumed or cancelled it.
Forward(t) ==
  /\ th[t].pc = "forward"
  /\ IF MayRun(th[t].susp)
       THEN MarkRunning(th[t].susp) /\ Go(t, "forwarded")
       ELSE UNCHANGED cmd /\ th' = [th EXCEPT ![t].pc = "enter", ![t].susp = NoCommand]
  /\ QueueOnly

Forwarded(t) ==
  /\ th[t].pc = "forwarded"
  /\ UpdateCommand(th[t].cmd, "completed")
  /\ th' = [th EXCEPT ![t].pc = "enter", ![t].target = th[t].susp]
  /\ QueueOnly

\* A storage error in between: the message runs as a command of its own.
ForwardFails(t) ==
  /\ th[t].pc = "forwarded"
  /\ th' = [th EXCEPT ![t].pc = "enter", ![t].susp = NoCommand]
  /\ ThreadOnly

\* RuntimeSessions.get
Enter(t) ==
  /\ th[t].pc = "enter"
  /\ th' = [th EXCEPT ![t].pc = "wait", ![t].gen = gen]
  /\ ThreadOnly

LockAcquired(t) ==
  /\ th[t].pc = "wait" /\ locks[th[t].gen] = NoThread
  /\ locks' = [locks EXCEPT ![th[t].gen] = t]
  /\ Go(t, "locked")
  /\ UNCHANGED <<cmd, task, session, gen, loop, tools, pauses, crashes>>

LockCancelled(t) ==
  /\ th[t].pc = "wait" /\ CancelSeen(th[t].target)
  /\ th' = [th EXCEPT ![t].pc = "after", ![t].out = "reply"]
  /\ ThreadOnly

SuspendedTasks == {c \in Commands : task[c].state = "suspended"}

\* run() under the lock: an answer goes to the task of the suspended job; any
\* other text goes to a suspended task of the session, if there is one.
Dispatch(t) ==
  /\ th[t].pc = "locked" /\ ~CancelSeen(th[t].target) /\ TasksOpen
  /\ \/ /\ th[t].susp # NoCommand
        /\ th' = [th EXCEPT ![t].pc = "answer", ![t].task = th[t].susp]
     \/ /\ th[t].susp = NoCommand
        /\ \E c \in SuspendedTasks :
             th' = [th EXCEPT ![t].pc = "answer", ![t].task = c, ![t].call = task[c].asked]
     \/ /\ th[t].susp = NoCommand /\ SuspendedTasks = {}
        /\ th' = [th EXCEPT ![t].pc = "claim", ![t].task = th[t].target]
  /\ ThreadOnly

\* Cancelled while waiting, or the session is gone.
DispatchRefused(t) ==
  /\ th[t].pc = "locked" /\ (CancelSeen(th[t].target) \/ ~TasksOpen)
  /\ th' = [th EXCEPT ![t].pc = "release", ![t].out = IF CancelSeen(th[t].target) THEN "reply" ELSE "error"]
  /\ ThreadOnly

\* durable_invoke(resume): store the answer if the task is still suspended.
AnswerTask(t) ==
  LET row == task[th[t].task] IN
  /\ th[t].pc = "answer"
  /\ \/ /\ row.state = "suspended" /\ row.asked = th[t].call
        /\ task' = [task EXCEPT ![th[t].task].state = "pending"]
        /\ th' = [th EXCEPT ![t].pc = "claim", ![t].call = 0]
     \/ /\ row.state = "suspended" /\ row.asked # th[t].call
        /\ th' = [th EXCEPT ![t].pc = "release", ![t].out = "error"]
        /\ UNCHANGED task
     \/ /\ row.state # "suspended"
        /\ th' = [th EXCEPT ![t].pc = "claim", ![t].call = 0] /\ UNCHANGED task
  /\ UNCHANGED <<cmd, session, locks, gen, loop, tools, pauses, crashes>>

Free(row) == row.lease # "live" /\ ~row.started /\ row.state \in {"none", "pending", "running"}

\* TaskStore.claim
ClaimTask(t) ==
  LET row == task[th[t].task] IN
  /\ th[t].pc = "claim" /\ TasksOpen /\ Free(row)
  /\ task' = [task EXCEPT ![th[t].task] =
                [@ EXCEPT !.state = "running", !.lease = "live", !.holder = t]]
  /\ Go(t, "work")
  /\ UNCHANGED <<cmd, session, locks, gen, loop, tools, pauses, crashes>>

\* A finished task gives its stored reply; a busy, started, suspended or
\* uncertain one raises, and a started one is uncertain from then on.
ClaimRefused(t) ==
  LET row == task[th[t].task] IN
  /\ th[t].pc = "claim" /\ ~(TasksOpen /\ Free(row))
  /\ th' = [th EXCEPT ![t].pc = "release",
                      ![t].out = IF TasksOpen /\ row.state \in TerminalTask THEN "reply" ELSE "error"]
  /\ task' = IF TasksOpen /\ row.state \notin TerminalTask /\ row.lease # "live" /\ row.started
               THEN [task EXCEPT ![th[t].task].state = "uncertain"] ELSE task
  /\ UNCHANGED <<cmd, session, locks, gen, loop, tools, pauses, crashes>>

Owns(t) == LET row == task[th[t].task] IN row.state = "running" /\ row.lease = "live" /\ row.holder = t

ToolStep(t) ==
  /\ th[t].pc = "work" /\ Owns(t)
  /\ task' = [task EXCEPT ![th[t].task].started = ~@]
  /\ IF task[th[t].task].started THEN UNCHANGED tools ELSE tools < MaxTools /\ tools' = tools + 1
  /\ UNCHANGED <<cmd, session, locks, gen, th, loop, pauses, crashes>>

Finished(row, state) == [row EXCEPT !.state = state, !.lease = "null", !.holder = NoThread]

\* The turn ends while the worker owns the task: with a reply, a question or an error.
WorkEnds(t) ==
  LET k == th[t].task IN
  /\ th[t].pc = "work" /\ Owns(t)
  /\ \/ /\ ~task[k].started
        /\ \E state \in (IF CancelSeen(th[t].target) THEN {"cancelled"} ELSE {"completed", "failed"}) :
             task' = [task EXCEPT ![k] = Finished(@, state)]
        /\ th' = [th EXCEPT ![t].pc = "release", ![t].out = "reply"]
     \/ /\ ~task[k].started /\ task[k].asked < MaxQuestions
        /\ task' = [task EXCEPT ![k] = [Finished(task[k], "suspended") EXCEPT !.asked = task[k].asked + 1]]
        /\ th' = [th EXCEPT ![t].pc = "release", ![t].out = "question", ![t].call = task[k].asked + 1]
     \/ /\ task' = [task EXCEPT ![k] = Finished(@, IF task[k].started THEN "uncertain" ELSE "pending")]
        /\ th' = [th EXCEPT ![t].pc = "release", ![t].out = "error"]
  /\ UNCHANGED <<cmd, session, locks, gen, loop, tools, pauses, crashes>>

\* The lease is lost: a cancelled row is left alone, any other one raises TaskBusy.
WorkLost(t) ==
  /\ th[t].pc = "work" /\ ~Owns(t)
  /\ th' = [th EXCEPT ![t].pc = "release",
                      ![t].out = IF task[th[t].task].state = "cancelled" THEN "reply" ELSE "error"]
  /\ ThreadOnly

Release(t) ==
  /\ th[t].pc = "release"
  /\ locks' = [locks EXCEPT ![th[t].gen] = NoThread]
  /\ Go(t, IF th[t].out = "error" THEN "fail" ELSE "after")
  /\ UNCHANGED <<cmd, task, session, gen, loop, tools, pauses, crashes>>

\* The lifecycle and the cancel flag are read after the turn.
After(t) ==
  /\ th[t].pc = "after"
  /\ Go(t, IF ~Open \/ CancelSeen(th[t].target) THEN "cancelled" ELSE "write")
  /\ ThreadOnly

\* complete_command of a cancelled command, or of one whose session is deleted.
WriteCancelled(t) ==
  /\ th[t].pc = "cancelled"
  /\ UpdateCommand(th[t].target, "completed")
  /\ Go(t, "reply")
  /\ QueueOnly

WriteResult(t) ==
  /\ th[t].pc = "write"
  /\ IF th[t].out = "question" THEN SuspendCommand(th[t].target, th[t].call)
                               ELSE UpdateCommand(th[t].target, "completed")
  /\ Go(t, "reply")
  /\ QueueOnly

\* _send_reply returns or raises (a full ledger, a session deleted meanwhile).
Reply(t) ==
  /\ th[t].pc = "reply"
  /\ \E raised \in BOOLEAN : th' = [th EXCEPT ![t] = IF raised THEN [@ EXCEPT !.pc = "fail"] ELSE IdleThread]
  /\ ThreadOnly

Fail(t) ==
  /\ th[t].pc = "fail"
  /\ UpdateCommand(th[t].target, "failed")
  /\ th' = [th EXCEPT ![t] = IdleThread]
  /\ QueueOnly

----------------------------------------------------------------------------
(* Humans, time, deletion and crashes *)

\* /resolve by an admin
Resolve(c) ==
  /\ task[c].state = "uncertain" /\ task[c].started
  /\ task' = [task EXCEPT ![c].state = "pending", ![c].started = FALSE, ![c].lease = "null"]
  /\ UNCHANGED <<cmd, session, locks, gen, th, loop, tools, pauses, crashes>>

\* A lease runs out: its worker is dead, or it was paused for 180 seconds.
Working(c) == task[c].holder # NoThread /\ th[task[c].holder].pc = "work" /\ th[task[c].holder].task = c

LeaseExpires(c) ==
  /\ task[c].lease = "live"
  /\ IF Working(c) THEN pauses < MaxPauses /\ pauses' = pauses + 1 ELSE UNCHANGED pauses
  /\ task' = [task EXCEPT ![c].lease = "expired"]
  /\ UNCHANGED <<cmd, session, locks, gen, th, loop, tools, crashes>>

ActiveJobs == {c \in Commands : StatusOf(c) \in {"pending", "running", "cancel_requested", "suspended",
                                                "recovery_required"}}

\* execute: nothing is active at the check, and the tasks are fenced.
ConfirmDeletion ==
  /\ session = "active" /\ MaxDeletions = 1
  /\ ActiveJobs = {} /\ \A c \in Commands : task[c].state \in TerminalTask \cup {"none"}
  /\ session' = "confirmed"
  /\ UNCHANGED <<cmd, task, locks, gen, th, loop, tools, pauses, crashes>>

\* begin_session_deletion stores the state; only then does it look for active jobs.
BeginDeletion ==
  /\ session = "confirmed"
  /\ session' = "deleting"
  /\ UNCHANGED <<cmd, task, locks, gen, th, loop, tools, pauses, crashes>>

EraseSession ==
  /\ session = "deleting" /\ ActiveJobs = {}
  /\ session' = "deleted"
  /\ cmd' = [c \in Commands |-> IF StatusOf(c) = "absent" THEN cmd[c] ELSE Settled(cmd[c], "deleted")]
  /\ UNCHANGED <<task, locks, gen, th, loop, tools, pauses, crashes>>

\* The process dies and is started again.
Crash ==
  /\ crashes < MaxCrashes
  /\ crashes' = crashes + 1
  /\ locks' = [g \in Generations |-> NoThread]
  /\ gen' = 0
  /\ th' = [t \in Threads |-> IdleThread]
  /\ loop' = IdleLoop
  /\ task' = [c \in Commands |-> [task[c] EXCEPT !.holder = NoThread]]
  /\ UNCHANGED <<cmd, session, tools, pauses>>

----------------------------------------------------------------------------
LoopStep ==
  \/ BeginRound \/ RecoverTerminal \/ RecoverUncertain \/ RecoverSettle \/ RecoverSuspended \/ RecoverPending
  \/ \E c \in Commands : RecoverRead(c)
  \/ Select \/ MarkFails \/ MarkControl \/ MarkAsk \/ DoCancel
  \/ ClearTasks \/ ClearJobs \/ ClearLock \/ CloseControl
  \/ \E t \in Threads : Spawn(t)

ThreadStep(t) ==
  \/ Start(t) \/ Forward(t) \/ Forwarded(t) \/ ForwardFails(t) \/ Enter(t) \/ LockAcquired(t) \/ LockCancelled(t)
  \/ Dispatch(t) \/ DispatchRefused(t) \/ AnswerTask(t) \/ ClaimTask(t) \/ ClaimRefused(t)
  \/ WorkEnds(t) \/ WorkLost(t) \/ Release(t) \/ After(t)
  \/ WriteCancelled(t) \/ WriteResult(t) \/ Reply(t) \/ Fail(t)

Next ==
  \/ LoopStep
  \/ \E t \in Threads : ThreadStep(t) \/ ToolStep(t)
  \/ \E c \in Commands : Ingest(c) \/ Resolve(c) \/ LeaseExpires(c)
  \/ ConfirmDeletion \/ BeginDeletion \/ EraseSession \/ Crash

Spec == Init /\ [][Next]_vars

\* The main loop never stops, a thread that is not waiting for its session goes
\* on (model calls and tools have timeouts), the lock goes to some waiter in the
\* end, and the clock runs out the lease of a dead worker.
FairSpec ==
  /\ Spec
  /\ WF_vars(LoopStep)
  /\ \A t \in Threads : WF_vars(ThreadStep(t)) /\ SF_vars(LockAcquired(t))
  /\ \A c \in Commands : WF_vars(LeaseExpires(c) /\ ~Working(c))

----------------------------------------------------------------------------
(* Properties *)

\* Every variable keeps its type, and a suspended job keeps the question that
\* get_suspended_command needs to resume it.
TypeOK ==
  /\ cmd \in [Commands -> [kind : Kinds, status : Statuses, call : Questions]]
  /\ \A c \in Commands : StatusOf(c) = "suspended" => cmd[c].call # 0
  /\ task \in [Commands -> [state : TaskStates, lease : {"null", "live", "expired"}, started : BOOLEAN,
                           holder : Threads \cup {NoThread}, asked : Questions]]
  /\ session \in {"active", "confirmed", "deleting", "deleted"}
  /\ locks \in [Generations -> Threads \cup {NoThread}]
  /\ gen \in Generations
  /\ th \in [Threads -> [pc : ThreadPcs, cmd : Commands \cup {NoCommand}, target : Commands \cup {NoCommand},
                         task : Commands \cup {NoCommand}, susp : Commands \cup {NoCommand}, call : Questions,
                         out : {"none", "reply", "question", "error"}, gen : Generations]]
  /\ loop.pc \in LoopPcs /\ loop.todo \subseteq Commands /\ loop.cmd \in Commands \cup {NoCommand}
  /\ tools \in 0..MaxTools /\ pauses \in 0..MaxPauses /\ crashes \in 0..MaxCrashes

\* README.md:494: what is cancelled is not overwritten, neither by a result
\* that arrives late, nor by the recovery, nor by an answer that resumes the
\* job; a request to cancel ends in cancelled and nowhere else.
CancelIsFinal ==
  [][\A c \in Commands :
       /\ StatusOf(c) = "cancelled" => cmd'[c].status \in {"cancelled", "deleted"}
       /\ StatusOf(c) = "cancel_requested" => cmd'[c].status \in Cancelling]_vars

\* The threads and the loop that still have to settle a command.
Handled(c) ==
  \/ loop.cmd = c /\ loop.pc \notin {"idle", "recover", "resolve", "settle"}
  \/ \E t \in Threads : th[t].pc # "idle" /\ (c = th[t].cmd \/ c = th[t].susp)

\* As long as the process lives, a running command has somebody who will settle
\* it or a durable task the recovery can settle it from: nothing is forgotten
\* between two statements of admission, resumption and recovery.  The exception
\* is a command without a task that was suspended for the question of another
\* command's task, which its text had answered: forwarded to again, it is
\* forgotten when the forwarding fails.  And nothing of an erased session comes
\* back: no late thread, no recovery and no new message leaves a command in
\* another state (erase_session).
AskedForAnother(c) == cmd[c].call # 0 /\ task[c].state = "none"
CommandsHeld ==
  /\ crashes = 0 => \A c \in Commands :
       StatusOf(c) = "running" => Handled(c) \/ task[c].state # "none" \/ AskedForAnother(c)
  /\ session = "deleted" => \A c \in Commands : StatusOf(c) \in {"absent", "deleted"}

\* A running command with a durable task is settled even if its worker died:
\* the recovery ends it, asks again, asks for a human or queues it again.
\* A pending command is admitted, although threads are limited and earlier
\* commands may be waiting for their session, unless the session is deleted.
CommandsMove ==
  \A c \in Commands :
    /\ (StatusOf(c) = "running" /\ task[c].state # "none") ~> (StatusOf(c) # "running")
    /\ (StatusOf(c) = "pending") ~> (StatusOf(c) # "pending" \/ ~Open)

\* workspace_lifecycle/README.md:29: work that blocks a deletion is cancelled
\* first with /cancel, which mark_command_running lets through.  A waiting
\* /cancel is admitted (violated: a message that was pending when the deletion
\* began can never be marked running, and process_next looks at nothing behind it).
CancelAdmitted ==
  \A c \in Commands : (Kind(c) = "cancel" /\ StatusOf(c) = "pending") ~> (StatusOf(c) # "pending")

\* The durable task of a command is a row of TaskRow, as it is in TaskLease
\* (Spec => \A c : TableRow(c)!RowSpec, CommQueueProofs): its questions are numbered, and
\* those before the open one are closed.
Question(c) == IF task[c].state = "suspended" THEN task[c].asked ELSE 0
Closed(c) == IF task[c].state \in TerminalTask THEN {} ELSE (1..task[c].asked) \ {Question(c)}
TableRow(c) == INSTANCE TaskRow WITH
  Questions <- 1..MaxQuestions,
  NoQuestion <- 0,
  state <- task[c].state,
  lease <- task[c].lease,
  started <- task[c].started,
  question <- Question(c),
  closed <- Closed(c)
=============================================================================
