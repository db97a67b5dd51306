------------------------------ MODULE MCStores ------------------------------
(****************************************************************************)
(* One instance for the components that keep their state in tables of their *)
(* own.  They share no variable, so each behaviour is one component's: the  *)
(* variable part, chosen at the start, names it, and the others stay as     *)
(* they were created.                                                       *)
(****************************************************************************)
EXTENDS TemporalSteps, Publication, WorkspaceLifecycle, ApprovedWrite, TaskBudget, Collaboration, ScheduleEngines, MemoryJobs

CONSTANT Parts  \* the components a run looks at

VARIABLE part

Init ==
  /\ part \in Parts
  /\ StepsInit /\ PubInit /\ LifeInit /\ AppInit /\ BudInit /\ CollabInit /\ SchedInit /\ MemInit
  /\ part # "publication" => target = "websocket"
  /\ part # "lifecycle" => dir.temporary /\ ~ext

\* The step is one of this component.
InSteps == part = "steps" /\ UNCHANGED <<part, pubVars, lifeVars, appVars, budgetVars, collabVars, schedVars, memoryVars>>
InEvents == part = "publication" /\ UNCHANGED <<part, stepsVars, lifeVars, appVars, budgetVars, collabVars, schedVars, memoryVars>>
InWorkspaces == part = "lifecycle" /\ UNCHANGED <<part, stepsVars, pubVars, appVars, budgetVars, collabVars, schedVars, memoryVars>>
InApprovals == part = "write" /\ UNCHANGED <<part, stepsVars, pubVars, lifeVars, budgetVars, collabVars, schedVars, memoryVars>>
InBudgets == part = "budget" /\ UNCHANGED <<part, stepsVars, pubVars, lifeVars, appVars, collabVars, schedVars, memoryVars>>
InCollabs == part = "collaboration" /\ UNCHANGED <<part, stepsVars, pubVars, lifeVars, appVars, budgetVars, schedVars, memoryVars>>
InSchedules == part = "schedule" /\ UNCHANGED <<part, stepsVars, pubVars, lifeVars, appVars, budgetVars, collabVars, memoryVars>>
InMemory == part = "memory" /\ UNCHANGED <<part, stepsVars, pubVars, lifeVars, appVars, budgetVars, collabVars, schedVars>>

Next ==
  \/ InSteps /\ StepsNext
  \/ InEvents /\ PubNext
  \/ InWorkspaces /\ LifeNext
  \/ InApprovals /\ AppNext
  \/ InBudgets /\ BudNext
  \/ InCollabs /\ CollabNext
  \/ InSchedules /\ SchedNext
  \/ InMemory /\ MemNext

storesVars == <<part, stepsVars, pubVars, lifeVars, appVars, budgetVars, collabVars, schedVars, memoryVars>>

\* The fairness each module states, while its component is the one that runs.  The strong
\* conditions of three components stand in one: only one of them is ever enabled.
StrongRow == \/ InSteps /\ Marked
             \/ InSchedules /\ Migrating
             \/ InMemory /\ \E p \in Reviewers : LastTriple(p)

Fairness ==
  /\ WF_stepsVars(part = "steps" /\ Client)
  /\ WF_stepsVars(part = "steps" /\ Workflow) /\ \A a \in Acts : WF_stepsVars(part = "steps" /\ Advance(a))
  /\ WF_pubVars(part = "publication" /\ Publisher) /\ WF_pubVars(part = "publication" /\ Eraser)
  /\ WF_pubVars(part = "publication" /\ ActClose) /\ WF_pubVars(part = "publication" /\ WfClose)
  /\ WF_pubVars(part = "publication" /\ Ack)
  /\ WF_lifeVars(part = "lifecycle" /\ ExternalEnds) /\ WF_lifeVars(part = "lifecycle" /\ EraseSession)
  /\ \A p \in Plans : WF_lifeVars(part = "lifecycle" /\ WorkerSteps(p))
  /\ WF_appVars(part = "write" /\ (Probe \/ Wake \/ Tool)) /\ WF_appVars(part = "write" /\ ApprovalExpires)
  /\ \A c \in BudgetCalls : /\ WF_budgetVars(part = "budget" /\ BudStep(c))
                            /\ WF_budgetVars(part = "budget" /\ MonitorCloses(c))
  /\ WF_collabVars(part = "collaboration" /\ Tick) /\ WF_collabVars(part = "collaboration" /\ ServiceResumes)
  /\ WF_collabVars(part = "collaboration" /\ Halt)
  /\ \A n \in Nodes : /\ WF_collabVars(part = "collaboration" /\ LeaseExpires(n))
                      /\ WF_collabVars(part = "collaboration" /\ ChildExpires(n))
  /\ SF_storesVars(StrongRow) /\ SF_schedVars(part = "schedule" /\ Carried)
  /\ WF_schedVars(part = "schedule" /\ (SyncRpc \/ SyncMark \/ Apply))
  /\ SF_schedVars(part = "schedule" /\ Locked) /\ WF_schedVars(part = "schedule" /\ Unlocked)
  /\ \A p \in Reviewers : /\ WF_memoryVars(part = "memory" /\ LockStep(p)) /\ WF_memoryVars(part = "memory" /\ ReviewStep(p))
                          /\ WF_memoryVars(part = "memory" /\ RecoverJobs(p))
  /\ \A j \in MemJobIds : WF_memoryVars(part = "memory" /\ mjob[j].owner = "dead" /\ JobLeaseEnds(j))

SafeSpec == Init /\ [][Next]_storesVars
FairSpec == SafeSpec /\ Fairness

\* Every row of every table has a state the code knows.
StoresTypeOK == StepsTypeOK /\ PubTypeOK /\ LifeTypeOK /\ AppTypeOK /\ BudTypeOK /\ CollabTypeOK /\ SchedTypeOK /\ MemTypeOK

\* What a table holds as unfinished is finished, whichever process dies on the way: a
\* submission comes to its end, its last event reaches the transport, a started deletion ends
\* unless another plan overtook it, a task that waits for an approval is woken, the slot of a
\* model call comes back, collaboration nodes come to rest (published, refused, stopped or
\* waiting for a human), a migration between the schedule engines ends unless an uncertain run
\* waits for a human, a claimed memory job is ended by its thread or failed by the next worker.
Unfinished ==
  CASE part = "steps" -> sub \in OpenSub
    [] part = "publication" -> PubBusy
    [] part = "lifecycle" -> Deleting
    [] part = "write" -> AwaitsApproval
    [] part = "budget" -> ~SlotsFree
    [] part = "collaboration" -> ~NodesSettled
    [] part = "schedule" -> Migrates
    [] OTHER -> ~MemoryRests

Finished ==
  CASE part = "publication" -> PubSettled
    [] part = "lifecycle" -> Deleted \/ Overtaken
    [] part = "schedule" -> MigrationOver
    [] OTHER -> ~Unfinished

RowsSettle == Unfinished ~> Finished
=============================================================================
