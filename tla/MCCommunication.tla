--------------------------- MODULE MCCommunication ---------------------------
(****************************************************************************)
(* What the delivery ledger and the command queue owe in the end, in one    *)
(* instance.  As in MCStores, each behaviour is one component's: side names *)
(* it, and the other stays as it was created.                               *)
(****************************************************************************)
EXTENDS MCCommDelivery

CONSTANTS
  QueueThreads, NoThread, NCommands, MaxOf, CancelTarget,  \* of CommQueue, which see
  MaxQuestions, MaxTools, MaxDeletions, MaxPauses, MaxDeaths

VARIABLES
  side,
  wlSession, deaths,                             \* session and crashes of CommQueue
  cmd, task, locks, gen, th, loop, tools, pauses

Jobs == INSTANCE CommQueue WITH
  Threads <- QueueThreads, MaxCrashes <- MaxDeaths, session <- wlSession, crashes <- deaths

\* A /cancel names the first command; two questions at most, one /cancel, one /clear.
FirstCommand == [c \in 1..NCommands |-> 1]
MixedCommands == [ask |-> 2, cancel |-> 1, clear |-> 1]

queueVars == <<cmd, task, wlSession, locks, gen, th, loop, tools, pauses, deaths>>
sidesVars == <<side, vars, queueVars>>

SidesInit == side \in {"ledger", "queue"} /\ Init /\ Jobs!Init

LedgerSteps == side = "ledger" /\ Next /\ UNCHANGED <<side, queueVars>>
QueueSteps == side = "queue" /\ Jobs!Next /\ UNCHANGED <<side, vars>>

\* The fairness each module states, while its component is the one that runs.
SidesFairness ==
  /\ \A s \in Senders : WF_vars(side = "ledger" /\ Deliver(s))
  /\ \A d \in Deliveries : WF_vars(side = "ledger" /\ LapseLease(d))
  /\ WF_queueVars(side = "queue" /\ Jobs!LoopStep)
  /\ \A t \in QueueThreads : /\ WF_queueVars(side = "queue" /\ Jobs!ThreadStep(t))
                             /\ SF_queueVars(side = "queue" /\ Jobs!LockAcquired(t))
  /\ \A c \in 1..NCommands : WF_queueVars(side = "queue" /\ Jobs!LeaseExpires(c) /\ ~Jobs!Working(c))

SidesSpec == SidesInit /\ [][LedgerSteps \/ QueueSteps]_sidesVars /\ SidesFairness

\* A running command with a durable task is settled, a pending one admitted (CommQueue).
CommandsMove == Jobs!CommandsMove
=============================================================================
