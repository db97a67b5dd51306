------------------------------ MODULE TaskRow ------------------------------
(****************************************************************************)
(* One row of table tasks as the command queue sees it: its state, whether  *)
(* the lease is live, whether a tool was started whose result is not        *)
(* recorded, and which question waits for a human.  These are all the steps *)
(* the row takes, whoever takes them; TaskLease has the workers, the        *)
(* checkpoints and the calls behind them, CommQueue the commands.           *)
(****************************************************************************)
EXTENDS Naturals

CONSTANTS
  Questions,    \* the questions a task may ask
  NoQuestion

VARIABLES
  state,
  lease,
  started,
  question,     \* the one a suspended task waits for
  closed        \* those that were answered; of no interest once the task is over

rowVars == <<state, lease, started, question, closed>>

Over == {"completed", "failed", "cancelled"}

RowInit == state = "none" /\ lease = "null" /\ started = FALSE /\ question = NoQuestion /\ closed = {}

\* A worker works only while it holds a live lease.
Held == state = "running" /\ lease = "live"

\* A started tool is never taken up again without a human.
Claim ==
  /\ state \in {"none", "pending", "running"} /\ lease # "live" /\ ~started
  /\ state' = "running" /\ lease' = "live"
  /\ UNCHANGED <<started, question, closed>>

\* A checkpoint before a tool, or with its result.
Checkpoint ==
  /\ Held /\ started' = ~started
  /\ UNCHANGED <<state, lease, question, closed>>

\* The worker is done, or leaves the task for another attempt.
Finish(result) ==
  /\ Held /\ ~started
  /\ state' = result /\ lease' = "null"
  /\ closed' = IF result \in Over THEN {} ELSE closed
  /\ UNCHANGED <<started, question>>

\* It asks what nobody has answered.
Suspend(q) ==
  /\ Held /\ ~started /\ q \notin closed
  /\ state' = "suspended" /\ lease' = "null" /\ question' = q
  /\ UNCHANGED <<started, closed>>

\* It fails between a tool and the record of its result, or it is gone.
GiveUp ==
  /\ state = "running" /\ (started \/ lease = "expired")
  /\ state' = "uncertain" /\ lease' \in IF lease = "live" THEN {"null"} ELSE {lease, "null"}
  /\ UNCHANGED <<started, question, closed>>

Answer ==
  /\ state = "suspended"
  /\ state' = "pending" /\ question' = NoQuestion /\ closed' = closed \cup {question}
  /\ UNCHANGED <<lease, started>>

Resolve ==
  /\ state = "uncertain" /\ started
  /\ state' = "pending" /\ lease' = "null" /\ started' = FALSE
  /\ UNCHANGED <<question, closed>>

Cancel ==
  /\ state \notin Over \cup {"none"}
  /\ state' = "cancelled" /\ lease' = "null" /\ question' = NoQuestion /\ closed' = {}
  /\ UNCHANGED started

LeaseExpires ==
  /\ lease = "live" /\ lease' = "expired"
  /\ UNCHANGED <<state, started, question, closed>>

RowNext ==
  \/ Claim \/ Checkpoint \/ GiveUp \/ Answer \/ Resolve \/ Cancel \/ LeaseExpires
  \/ \E result \in Over \cup {"pending"} : Finish(result)
  \/ \E q \in Questions : Suspend(q)

RowSpec == RowInit /\ [][RowNext]_rowVars
=============================================================================
