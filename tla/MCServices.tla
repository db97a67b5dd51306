----------------------------- MODULE MCServices -----------------------------
(****************************************************************************)
(* One instance for the services that face the outside.  As in MCStores,    *)
(* each behaviour is one component's, named by the variable service.        *)
(****************************************************************************)
EXTENDS Companion, AgentGraph, Receiving, GitDelivery

CONSTANT Services  \* the components a run looks at

\* A run has a plan and a call about it.
ASSUME ServicesAssumption == DPlans # {} /\ Jobs # {}

VARIABLE service

Init ==
  /\ service \in Services
  /\ CompInit /\ GraphInit /\ RecvInit /\ DeliveryInit

\* The step is one of this component.
InChats == service = "companion" /\ UNCHANGED <<service, graphVars, recvVars, deliveryVars>>
InGraphs == service = "graph" /\ UNCHANGED <<service, compVars, recvVars, deliveryVars>>
InPolling == service = "polling" /\ UNCHANGED <<service, compVars, graphVars, deliveryVars>>
InWebhooks == service = "webhook" /\ UNCHANGED <<service, compVars, graphVars, deliveryVars>>
InDelivery(s) == service = s /\ UNCHANGED <<service, compVars, graphVars, recvVars>>

\* Two calls about one plan; one call at a time about a plan and the repair of it.
FirstPlan == {CHOOSE p \in DPlans : TRUE}
FirstJob == {CHOOSE j \in Jobs : TRUE}

Next ==
  \/ InChats /\ CompNext
  \/ InGraphs /\ GraphNext
  \/ InPolling /\ PollNext
  \/ InWebhooks /\ HookNext
  \/ InDelivery("delivery") /\ DeliverNext(Jobs, FirstPlan)
  \/ InDelivery("repair") /\ DeliverNext(FirstJob, DPlans)
  \/ InDelivery("patch") /\ PatchNext

servicesVars == <<service, compVars, graphVars, recvVars, deliveryVars>>

\* A thread of a chat, the workers of a graph, the restarted server and its handlers go on.
Fairness ==
  /\ \A i \in Inputs : WF_compVars(service = "companion" /\ (ChatStep(i) \/ ApprovalEnds(i)))
  /\ WF_graphVars(service = "graph" /\ SnapshotStops) /\ WF_graphVars(service = "graph" /\ GraphWork)
  /\ WF_recvVars(service = "webhook" /\ (ServerStarts \/ \E e \in HookEvents : TakeCommand(e) \/ \E k \in 1..MaxTries : HookStep(e, k)))

Spec == Init /\ [][Next]_servicesVars /\ Fairness

\* Every row, thread, process, event, plan and file has a state the code knows.
ServicesTypeOK == CompTypeOK /\ GraphTypeOK /\ RecvTypeOK /\ DeliveryTypeOK

\* What is done at the request of a client, a Workflow, a platform or a tool is done once,
\* however often it is asked for: an input of a companion and the operation a human approved,
\* the model work of a node, the command a message becomes, the push of a plan.
DoneOnce == InputOnce /\ NodeOnce /\ AcceptedOnce /\ PushedOnce

\* Nobody acts before its turn: neither on the files, history and rows of a graph whose
\* processes still work, nor on a platform where an earlier request or answer is due.
InTurn == UntouchedWhileAlive /\ ReceivedInTurn

\* What was begun ends, whoever leaves: a chat and its waits, a graph that was stopped, an
\* event the platform knows as accepted; with the two exceptions the code leaves.
Unfinished ==
  CASE service = "companion" -> Chatting
    [] service = "graph" -> GraphStops
    [] service = "webhook" -> Arrived
    [] OTHER -> FALSE

ServicesEnd == Unfinished ~> (~Unfinished \/ (service = "graph" /\ MergeLost) \/ (service = "webhook" /\ Stranded))
=============================================================================
