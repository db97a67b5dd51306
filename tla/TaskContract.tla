---------------------------- MODULE TaskContract ----------------------------
(****************************************************************************)
(* What a durable task promises whoever submitted it, whatever protocol     *)
(* executes it: every model, tool or evaluator call is made at most once,   *)
(* its result is settled at most once and only while the task is open, the  *)
(* outcome is decided once, and the task is not reported completed while    *)
(* the result of a tool it called is unknown.                               *)
(****************************************************************************)
EXTENDS Naturals

CONSTANTS
  Calls,     \* the logical calls of the task
  Supplied   \* those of them whose result may come from elsewhere: the call is
             \* refused, an equal earlier result serves, or a human resolves it

VARIABLES
  called,   \* calls that were made
  risky,    \* those of them that may have changed the world (tools)
  known,    \* calls whose result is recorded
  outcome   \* open until the task is decided

contractVars == <<called, risky, known, outcome>>

Outcomes == {"completed", "failed", "cancelled", "unknown"}

ContractInit == called = {} /\ risky = {} /\ known = {} /\ outcome = "open"

\* A call in flight may still reach the other side after the task was decided.
MakeCall(c) ==
  /\ c \notin called
  /\ called' = called \union {c} /\ risky' \in {risky, risky \union {c}}
  /\ UNCHANGED <<known, outcome>>

Learn(c) ==
  /\ outcome = "open" /\ c \in called \ known
  /\ known' = known \union {c}
  /\ UNCHANGED <<called, risky, outcome>>

Supply(c) ==
  /\ outcome = "open" /\ c \in Supplied \ known
  /\ known' = known \union {c}
  /\ UNCHANGED <<called, risky, outcome>>

Decide(o) ==
  /\ outcome = "open"
  /\ o = "completed" => risky \subseteq known
  /\ outcome' = o
  /\ UNCHANGED <<called, risky, known>>

ContractNext == \/ \E c \in Calls : MakeCall(c) \/ Learn(c) \/ Supply(c)
                \/ \E o \in Outcomes : Decide(o)

ContractSpec == ContractInit /\ [][ContractNext]_contractVars
=============================================================================
