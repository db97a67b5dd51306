---------------------------- MODULE MCTaskLease ----------------------------
(* Small instances of the durable task table. *)
EXTENDS TaskLease, TLC

\* Workers are interchangeable, and so are the calls and the tasks of one kind.
Symm == Permutations(Workers) \cup Permutations(Calls \ AskCalls) \cup Permutations(AskCalls)
          \cup Permutations(Tasks \ SkillTasks)
=============================================================================
