---------------------------- MODULE MCCommQueue ----------------------------
(* Small instances of the command queue. *)
EXTENDS CommQueue, TLC

\* A /cancel names the first command.
First == [c \in Commands |-> 1]

\* How many messages of each kind arrive.
Mixed == [ask |-> 2, cancel |-> 1, clear |-> 1]
AskCancel == [ask |-> 1, cancel |-> 1, clear |-> 0]

Symm == Permutations(Threads)

\* A bound on one behaviour: in most no tool is started, no worker outlives its lease and the
\* process does not die; where they may, the last message does not arrive and one thread is
\* busy at a time.
BusyThreads == {t \in Threads : th[t].pc # "idle"}
CalmOrFew == \/ tools = 0 /\ pauses = 0 /\ crashes = 0
             \/ StatusOf(NCommands) = "absent" /\ Cardinality(BusyThreads) <= 1
ControlNext == Next /\ CalmOrFew'
ControlSpec == Init /\ [][ControlNext]_vars
=============================================================================
