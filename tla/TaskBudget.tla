----------------------------- MODULE TaskBudget -----------------------------
(****************************************************************************)
(* The budget of one root task (budgets.py): the requests and tokens that   *)
(* its model calls are charged, the rows of budget_calls, and the slots     *)
(* every process on the machine shares.  A call is one BudgetEndpoint       *)
(* .create; its answer comes whole or as a BudgetStream that a second       *)
(* thread may close.  The tokens a call really uses are bounded by its      *)
(* estimate, or not; the budget knows of them what the provider says, which *)
(* is nothing, the usage of an answer, or that of some chunks of a stream.  *)
(****************************************************************************)
EXTENDS FiniteSetsExt, Naturals

CONSTANTS
  BudgetCalls,    \* the calls of the task and of its children
  MaxTokens,      \* max_tokens, as frozen in the budget's row
  MaxRequests,    \* max_requests
  Estimate,       \* prompt_tokens + output_tokens of a call
  Excess,         \* how much more a provider may report
  Concurrency     \* AGENT_MODEL_CONCURRENCY

ASSUME BudgetAssumption ==
  IsFiniteSet(BudgetCalls) /\ {MaxTokens, MaxRequests, Estimate, Excess, Concurrency} \subseteq Nat

VARIABLES
  spent,     \* task_budgets: requests and tokens
  over,      \* the deadline has passed
  call,      \* the thread of each call, the tokens the provider has used for it, and the last usage
             \* it has told the budget, if any
  paid,      \* budget_calls: status and tokens of each call
  slot,      \* model_slots: "none", "live", "stale" (expires passed)
  watch      \* the monitor of each stream: "none", "on", "closed"

budgetVars == <<spent, over, call, paid, slot, watch>>

CallPcs == {"idle", "slot", "reserve", "sent", "answered", "stream", "finish", "release", "gone", "end"}
Tokens == 0..(Estimate + Excess)

BudInit ==
  /\ spent = [requests |-> 0, tokens |-> 0] /\ over = FALSE
  /\ call = [c \in BudgetCalls |-> [pc |-> "idle", used |-> 0, told |-> {}]]
  /\ paid = [c \in BudgetCalls |-> [st |-> "none", tokens |-> 0]]
  /\ slot = [c \in BudgetCalls |-> "none"]
  /\ watch = [c \in BudgetCalls |-> "none"]

CallAt(c, pc) == call[c].pc = pc
Moves(c, pc) == call' = [call EXCEPT ![c].pc = pc]

\* TaskBudget.check
Exhausted == over \/ spent.tokens > MaxTokens

\* create refuses an exhausted budget and a cancelled task before anything is charged.
Begin(c) ==
  /\ CallAt(c, "idle") /\ (Moves(c, "end") \/ (~Exhausted /\ Moves(c, "slot")))
  /\ UNCHANGED <<spent, over, paid, slot, watch>>

\* One round of slot: expired rows are deleted, then the rest counted; or the wait is
\* given up for the deadline or a cancellation.
TakeSlot(c) ==
  /\ CallAt(c, "slot")
  /\ LET held == {d \in BudgetCalls : slot[d] = "live"} IN
     \/ Moves(c, "end") /\ UNCHANGED slot
     \/ /\ ~Exhausted /\ Cardinality(held) < Concurrency
        /\ slot' = [d \in BudgetCalls |-> IF d = c \/ d \in held THEN "live" ELSE "none"]
        /\ Moves(c, "reserve")
  /\ UNCHANGED <<spent, over, paid, watch>>

\* Mutant of Affordable: what is reserved is compared, not what it would become.
AffordableBefore == spent.requests < MaxRequests /\ spent.tokens < MaxTokens

Affordable == spent.requests < MaxRequests /\ spent.tokens + Estimate <= MaxTokens

Reserve(c) ==
  /\ CallAt(c, "reserve")
  /\ IF Affordable /\ ~over
       THEN /\ spent' = [requests |-> spent.requests + 1, tokens |-> spent.tokens + Estimate]
            /\ paid' = [paid EXCEPT ![c] = [st |-> "reserved", tokens |-> Estimate]]
            /\ Moves(c, "sent")
       ELSE Moves(c, "release") /\ UNCHANGED <<spent, paid>>
  /\ UNCHANGED <<over, slot, watch>>

\* The provider answers at once, opens a stream, or fails with whatever it used.
Answered(c) ==
  /\ CallAt(c, "sent")
  /\ \E used \in Tokens, pc \in {"answered", "release"} :
       call' = [call EXCEPT ![c] = [pc |-> pc, used |-> used, told |-> {}]]
  /\ UNCHANGED <<spent, over, paid, slot, watch>>

OpenStream(c) ==
  /\ CallAt(c, "sent") /\ Moves(c, "stream") /\ watch' = [watch EXCEPT ![c] = "on"]
  /\ UNCHANGED <<spent, over, paid, slot>>

\* Partial streams may increase charges; only successful completion can refund.
Charged(c, total, settle) == IF settle \/ total > paid[c].tokens THEN total ELSE paid[c].tokens

\* reconcile: a row reported once is left alone.
ReconcileCall(c, total, settle) ==
  IF paid[c].st # "reserved" THEN UNCHANGED <<spent, paid>>
  ELSE LET t == Charged(c, total, settle) IN
       /\ paid' = [paid EXCEPT ![c] = [st |-> IF settle THEN "reported" ELSE "reserved", tokens |-> t]]
       /\ spent' = [spent EXCEPT !.tokens = (@ + t) - paid[c].tokens]

\* usage is None for a provider that does not report it: the reservation stays.
SettleCall(c) ==
  /\ CallAt(c, "answered")
  /\ \/ Moves(c, "release") /\ UNCHANGED <<spent, paid>>
     \/ LET used == call[c].used IN
        /\ ReconcileCall(c, used, TRUE)
        /\ call' = [call EXCEPT ![c] = [pc |-> "release", used |-> used, told |-> {used}]]
  /\ UNCHANGED <<over, slot, watch>>

\* The stream goes on; a chunk may carry the usage so far.  What takes the budget over its
\* limit ends the reading.
Chunk(c) ==
  /\ CallAt(c, "stream") /\ watch[c] = "on" /\ ~Exhausted
  /\ \E used \in Tokens :
       /\ used >= call[c].used
       /\ \/ call' = [call EXCEPT ![c].used = used] /\ UNCHANGED <<spent, paid>>
          \/ /\ ReconcileCall(c, used, FALSE)
             /\ call' = [call EXCEPT ![c] = [pc |-> IF spent'.tokens > MaxTokens THEN "finish" ELSE "stream",
                                            used |-> used, told |-> {used}]]
  /\ UNCHANGED <<over, slot, watch>>

\* The last chunk was read and nothing had closed the stream: it is settled with the last
\* usage a chunk carried, whatever was used after that chunk.
StreamEnds(c) ==
  /\ CallAt(c, "stream") /\ watch[c] = "on" /\ ~over /\ Moves(c, "finish")
  /\ \/ call[c].told = {} /\ UNCHANGED <<spent, paid>>
     \/ \E told \in call[c].told : ReconcileCall(c, told, TRUE)
  /\ UNCHANGED <<over, slot, watch>>

\* close: once, whoever comes first.
Close(c) ==
  /\ watch' = [watch EXCEPT ![c] = "closed"]
  /\ slot' = IF watch[c] = "on" THEN [slot EXCEPT ![c] = "none"] ELSE slot

\* The reader's finally, after the end or an exception; or the reader never comes back.
ReaderCloses(c) ==
  /\ CallAt(c, "finish") \/ CallAt(c, "stream")
  /\ Close(c) /\ Moves(c, "end")
  /\ UNCHANGED <<spent, over, paid>>
ReaderLeaves(c) ==
  /\ CallAt(c, "stream") /\ Moves(c, "gone")
  /\ UNCHANGED <<spent, over, paid, slot, watch>>

\* The monitor: sixty seconds, the deadline, a cancellation.
MonitorCloses(c) ==
  /\ watch[c] = "on" /\ Close(c)
  /\ UNCHANGED <<spent, over, call, paid>>

Release(c) ==
  /\ CallAt(c, "release") /\ Moves(c, "end")
  /\ slot' = [slot EXCEPT ![c] = "none"]
  /\ UNCHANGED <<spent, over, paid, watch>>

\* The process dies with its threads; nobody renews the row.
Killed(c) ==
  /\ call[c].pc \in {"reserve", "sent", "answered", "stream", "finish", "release", "gone"}
  /\ Moves(c, "end") /\ watch' = [watch EXCEPT ![c] = "none"]
  /\ slot' = IF slot[c] = "live" THEN [slot EXCEPT ![c] = "stale"] ELSE slot
  /\ UNCHANGED <<spent, over, paid>>

\* renew gives up after one storage error: the call goes on without its slot.
RenewStops(c) ==
  /\ call[c].pc \in {"sent", "stream"} /\ slot[c] = "live"
  /\ slot' = [slot EXCEPT ![c] = "stale"]
  /\ UNCHANGED <<spent, over, call, paid, watch>>

TimeIsUp == ~over /\ over' = TRUE /\ UNCHANGED <<spent, call, paid, slot, watch>>

BudStep(c) == \/ Begin(c) \/ TakeSlot(c) \/ Reserve(c) \/ Answered(c) \/ OpenStream(c) \/ SettleCall(c) \/ Chunk(c)
              \/ StreamEnds(c) \/ ReaderCloses(c) \/ Release(c)

BudNext == TimeIsUp \/ \E c \in BudgetCalls : BudStep(c) \/ ReaderLeaves(c) \/ MonitorCloses(c) \/ Killed(c) \/ RenewStops(c)

\* A request has a timeout of at most sixty seconds and a stream a monitor.
BudFairness == \A c \in BudgetCalls : WF_budgetVars(BudStep(c)) /\ WF_budgetVars(MonitorCloses(c))

BudSpec == BudInit /\ [][BudNext]_budgetVars /\ BudFairness

----------------------------------------------------------------------------
(* Properties *)

BudTypeOK ==
  /\ spent \in [requests : Nat, tokens : Nat] /\ over \in BOOLEAN
  /\ call \in [BudgetCalls -> [pc : CallPcs, used : Tokens, told : SUBSET Tokens]]
  /\ paid \in [BudgetCalls -> [st : {"none", "reserved", "reported"}, tokens : Tokens]]
  /\ slot \in [BudgetCalls -> {"none", "live", "stale"}]
  /\ watch \in [BudgetCalls -> {"none", "on", "closed"}]

\* The budget's row is the sum of its calls.  A settled call is charged exactly what the
\* provider said last; one that nobody settled, because it failed, was cut off or lost its
\* process, keeps at least its reservation, and what a stream has said above it.  The limit
\* is passed only by what a provider used above an estimate (reserve, reconcile,
\* BudgetStream).  What was used after the last report of a stream is not charged.
BudgetHolds ==
  /\ spent.tokens = MapThenSumSet(LAMBDA c : paid[c].tokens, BudgetCalls)
  /\ \A c \in BudgetCalls :
       /\ paid[c].st = "reported" => call[c].told = {paid[c].tokens}
       /\ paid[c].st = "reserved" => \A t \in call[c].told \cup {Estimate} : t <= paid[c].tokens
  /\ (\A c \in BudgetCalls : call[c].used <= Estimate) => spent.tokens <= MaxTokens

\* A slot is given back, whether the call ends, its process dies or the reader of the
\* stream never returns (BudgetStream.monitor, model_slots.expires).
SlotsFree == \A c \in BudgetCalls : slot[c] # "live"
=============================================================================
