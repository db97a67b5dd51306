--------------------------- MODULE ApprovedWrite ---------------------------
(****************************************************************************)
(* One file write of a V3 task (AgentTaskWorkflowV3): the plan that pins    *)
(* the files before it (file_writes.py), the wait for a human in the task   *)
(* database (approval_gate.py), the grant in the approval database          *)
(* (approvals.py, approval_outbox.py), its single use at the execution      *)
(* boundary, the write under the submission's scope, and the human's        *)
(* observation of a write whose result is unknown (write_resolution.py).    *)
(*                                                                          *)
(* The two databases and the disk are three actions apart; a cancellation,  *)
(* a crash or another writer may come between any two of them.  Only the    *)
(* task database is locked from the commit's last comparison to its         *)
(* observation.  Another writer may write anything: also what the task      *)
(* would write, or what was there before.                                   *)
(****************************************************************************)
EXTENDS Naturals

CONSTANT MaxTurns  \* bound on what comes from outside: crashes and foreign writes

ASSUME ApprovedAssumption == MaxTurns \in Nat

VARIABLES
  gsub,    \* temporal_submissions.state
  gtask,   \* tasks.state
  gop,     \* operation_ledger.state of the write
  wait,    \* temporal_approval_waits.state
  grant,   \* approvals.state
  late,    \* whether the grant's and the wait's expires has passed
  notice,  \* temporal_approval_outbox: a decision to tell the Workflow
  gate,    \* where the Workflow and its Activity are: the gate, the write
  seen,    \* what the probe read of the grant
  file,    \* the file: as it was planned for, as the write leaves it, or neither
  touched, \* history: another writer has written the file
  saved,   \* temporal_file_writes: "none", "planned", "observed"
  look,    \* what a human's observation found on the disk, and the writes there were then
  claim,   \* temporal_write_resolutions
  writes,  \* how often the task replaced the file
  said,    \* what the human decided
  turns

lookVars == <<look, claim>>
diskVars == <<file, touched, writes>>
appVars == <<gsub, gtask, gop, wait, grant, late, notice, gate, seen, diskVars, saved, lookVars, said, turns>>

Open == {"pending", "suspended"}
Fenced == {"uncertain", "cancelled", "failed"}
GatePcs == {"probe", "request", "read", "settle", "wait", "claim", "authorize", "consume", "stage", "commit", "replace",
            "observe", "record", "recover", "end"}

AppInit ==
  /\ gsub = "running" /\ gtask = "pending" /\ gop = "none"
  /\ wait = "none" /\ grant = "none" /\ late = FALSE /\ notice = FALSE
  /\ gate = "probe" /\ seen = "none"
  /\ file = "before" /\ touched = FALSE /\ writes = 0 /\ saved = "none"
  /\ look = [file |-> "none", writes |-> 0] /\ claim = "none"
  /\ said = "none" /\ turns = 0

----------------------------------------------------------------------------
(* The gate: ApprovalGate.probe, an Activity in four steps *)

\* prepare, and the durable intent; a retry finds both.
ProbeIntent ==
  /\ gate = "probe"
  /\ IF gsub = "running" /\ gtask \in Open
       THEN /\ gate' = "request" /\ saved' = IF saved = "none" THEN "planned" ELSE saved
            /\ wait' = IF wait = "none" THEN "preparing" ELSE wait
       ELSE gate' = "end" /\ UNCHANGED <<saved, wait>>
  /\ UNCHANGED <<gsub, gtask, gop, grant, late, notice, seen, diskVars, lookVars, said, turns>>

\* request_bound: a binding never gets a second grant.
ProbeRequest ==
  /\ gate = "request" /\ gate' = "read"
  /\ grant' = IF grant = "none" THEN "pending" ELSE grant
  /\ UNCHANGED <<gsub, gtask, gop, wait, late, notice, seen, diskVars, saved, lookVars, said, turns>>

ProbeRead ==
  /\ gate = "read" /\ gate' = "settle"
  /\ seen' = IF late THEN "expired" ELSE grant
  /\ UNCHANGED <<gsub, gtask, gop, wait, grant, late, notice, diskVars, saved, lookVars, said, turns>>

\* The task follows what was read: suspended, pending again, failed.
ProbeSettle ==
  /\ gate = "settle"
  /\ IF gsub # "running" \/ gtask \notin Open \/ seen = "consumed"
       THEN gate' = "end" /\ UNCHANGED <<gtask, wait>>
       ELSE /\ wait' = seen
            /\ gtask' = CASE seen = "pending" -> "suspended" [] seen = "approved" -> "pending" [] OTHER -> "failed"
            /\ gate' = CASE seen = "pending" -> "wait" [] seen = "approved" -> "claim" [] OTHER -> "end"
  /\ UNCHANGED <<gsub, gop, grant, late, notice, seen, diskVars, saved, lookVars, said, turns>>

\* The signal of ApprovalGate.dispatch, or the wait's timeout.
WakeUp == notice \/ late

Wake ==
  /\ gate = "wait" /\ WakeUp
  /\ gate' = "probe" /\ notice' = FALSE
  /\ UNCHANGED <<gsub, gtask, gop, wait, grant, late, seen, diskVars, saved, lookVars, said, turns>>

----------------------------------------------------------------------------
(* The human, the clock *)

\* decide with validate_target and record_decision; the same decision twice is accepted.
Decide ==
  /\ grant = "pending" /\ ~late /\ gsub = "running" /\ gtask \in Open /\ wait # "none"
  /\ grant' \in {"approved", "denied"} /\ said' = grant' /\ notice' = TRUE
  /\ UNCHANGED <<gsub, gtask, gop, wait, late, gate, seen, diskVars, saved, lookVars, turns>>

ApprovalExpires ==
  /\ ~late /\ grant # "none" /\ late' = TRUE
  /\ UNCHANGED <<gsub, gtask, gop, wait, grant, notice, gate, seen, diskVars, saved, lookVars, said, turns>>

\* Cancellation fences the submission, then (another database) retires the grant.  It waits
\* for the transaction of a write.
CancelTurn ==
  /\ gsub = "running" /\ gate \notin {"replace", "observe"} /\ gsub' = "cancelled" /\ gtask' = "cancelled"
  /\ gop' = IF gop = "running" THEN "uncertain" ELSE gop
  /\ UNCHANGED <<wait, grant, late, notice, gate, seen, diskVars, saved, lookVars, said, turns>>

CancelWait ==
  /\ gsub = "cancelled" /\ grant \in {"pending", "approved"} /\ wait # "preparing"
  /\ grant' = "cancelled" /\ notice' = TRUE
  /\ UNCHANGED <<gsub, gtask, gop, wait, late, gate, seen, diskVars, saved, lookVars, said, turns>>

----------------------------------------------------------------------------
(* The tool's Activity: claim, authorize, execute_bound, complete *)

InScope == gsub = "running" /\ gtask \in {"pending", "running"}

\* Mutant of CommitScope: the write's own transaction trusts the earlier checks.
CommitScopeOnce == TRUE

\* The transaction around os.replace starts with the scope.
CommitScope == InScope

ClaimTool ==
  /\ gate = "claim"
  /\ IF InScope THEN gop' = "running" /\ gtask' = "running" /\ gate' = "authorize"
                ELSE gate' = "end" /\ UNCHANGED <<gop, gtask>>
  /\ UNCHANGED <<gsub, wait, grant, late, notice, seen, diskVars, saved, lookVars, said, turns>>

\* A refusal before the effect is recorded as a failed tool.
Refuse == gate' = "record"

Authorize ==
  /\ gate = "authorize"
  /\ IF InScope /\ file = "before" /\ wait = "approved" /\ ~late /\ gop = "running"
       THEN gate' = "consume" ELSE Refuse
  /\ UNCHANGED <<gsub, gtask, gop, wait, grant, late, notice, seen, diskVars, saved, lookVars, said, turns>>

Spendable == grant = "approved" /\ ~late

Consume ==
  /\ gate = "consume"
  /\ IF Spendable THEN grant' = "consumed" /\ gate' = (IF InScope THEN "stage" ELSE "record")
                  ELSE Refuse /\ UNCHANGED grant
  /\ UNCHANGED <<gsub, gtask, gop, wait, late, notice, seen, diskVars, saved, lookVars, said, turns>>

\* assert_consumed, verify, the staged copy.
Stage ==
  /\ gate = "stage"
  /\ IF grant = "consumed" /\ file = "before" THEN gate' = "commit" ELSE Refuse
  /\ UNCHANGED <<gsub, gtask, gop, wait, grant, late, notice, seen, diskVars, saved, lookVars, said, turns>>

\* The transaction, as far as the scope and the precondition again; then the replacement,
\* and its observation.
CommitWrite ==
  /\ gate = "commit"
  /\ IF CommitScope /\ file = "before" THEN gate' = "replace" ELSE Refuse
  /\ UNCHANGED <<gsub, gtask, gop, wait, grant, late, notice, seen, diskVars, saved, lookVars, said, turns>>
ReplaceFile ==
  /\ gate = "replace" /\ gate' = "observe"
  /\ file' = "expected" /\ writes' = writes + 1
  /\ UNCHANGED <<gsub, gtask, gop, wait, grant, late, notice, seen, touched, saved, lookVars, said, turns>>
ObserveWrite ==
  /\ gate = "observe" /\ Refuse
  /\ saved' = IF file = "expected" THEN "observed" ELSE saved
  /\ UNCHANGED <<gsub, gtask, gop, wait, grant, late, notice, seen, diskVars, lookVars, said, turns>>
\* Ledger.complete and the step's commit: refused once fenced.
RecordTool ==
  /\ gate = "record" /\ gate' = "end"
  /\ IF InScope THEN gop' = "completed" /\ gtask' = "pending" ELSE UNCHANGED <<gop, gtask>>
  /\ UNCHANGED <<gsub, wait, grant, late, notice, seen, diskVars, saved, lookVars, said, turns>>

\* The Activity dies, and its transaction with it. The gate's is retried; a claimed
\* operation is never repeated.
Crash ==
  /\ gate \in {"request", "read", "settle", "authorize", "consume", "stage", "commit", "replace", "observe", "record"}
  /\ turns < MaxTurns /\ turns' = turns + 1
  /\ gate' = IF gate \in {"request", "read", "settle"} THEN "probe" ELSE "recover"
  /\ UNCHANGED <<gsub, gtask, gop, wait, grant, late, notice, seen, diskVars, saved, lookVars, said>>

RecoverTool ==
  /\ gate = "recover" /\ gate' = "end"
  /\ IF InScope THEN gsub' = "uncertain" /\ gtask' = "uncertain" /\ gop' = "uncertain"
                ELSE UNCHANGED <<gsub, gtask, gop>>
  /\ UNCHANGED <<wait, grant, late, notice, seen, diskVars, saved, lookVars, said, turns>>

ForeignWrite ==
  /\ turns < MaxTurns /\ turns' = turns + 1
  /\ file' \in {"before", "expected", "other"} /\ touched' = TRUE
  /\ UNCHANGED <<gsub, gtask, gop, wait, grant, late, notice, gate, seen, saved, lookVars, writes, said>>

\* record: the submission is fenced and the claim matches the disk; then, in the
\* transaction, the task is terminal too and the operation unknown.
ResolveLooks ==
  /\ gsub \in Fenced /\ saved # "none" /\ claim = "none" /\ file \in {"before", "expected"}
  /\ look' = [file |-> file, writes |-> writes]
  /\ UNCHANGED <<gsub, gtask, gop, wait, grant, late, notice, gate, seen, diskVars, saved, claim, said, turns>>
ResolveRecords ==
  /\ look.file # "none" /\ claim = "none" /\ claim' = look.file
  /\ gtask \in Fenced /\ gop \in {"running", "uncertain"}
  /\ UNCHANGED <<gsub, gtask, gop, wait, grant, late, notice, gate, seen, diskVars, saved, look, said, turns>>

----------------------------------------------------------------------------
Probe == ProbeIntent \/ ProbeRequest \/ ProbeRead \/ ProbeSettle
Tool == ClaimTool \/ Authorize \/ Consume \/ Stage \/ CommitWrite \/ ReplaceFile \/ ObserveWrite \/ RecordTool \/ RecoverTool

AppNext == \/ Probe \/ Wake \/ Decide \/ ApprovalExpires \/ CancelTurn \/ CancelWait \/ Tool \/ Crash
           \/ ForeignWrite \/ ResolveLooks \/ ResolveRecords

\* The Workflow and its Activities go on; the clock does.
AppFairness == WF_appVars(Probe \/ Wake \/ Tool) /\ WF_appVars(ApprovalExpires)

AppSpec == AppInit /\ [][AppNext]_appVars /\ AppFairness

----------------------------------------------------------------------------
(* Properties *)

AppTypeOK ==
  /\ gsub \in Fenced \union {"running"} /\ gtask \in Open \union Fenced \union {"running"}
  /\ gop \in {"none", "running", "completed", "uncertain"}
  /\ wait \in {"none", "preparing", "pending", "approved", "denied", "expired", "cancelled"}
  /\ grant \in {"none", "pending", "approved", "denied", "consumed", "cancelled"}
  /\ late \in BOOLEAN /\ notice \in BOOLEAN /\ gate \in GatePcs
  /\ seen \in {"none", "pending", "approved", "denied", "consumed", "expired", "cancelled"}
  /\ file \in {"before", "expected", "other"} /\ saved \in {"none", "planned", "observed"}
  /\ touched \in BOOLEAN /\ writes \in Nat
  /\ look \in [file : {"none", "before", "expected"}, writes : Nat] /\ claim \in {"none", "before", "expected"}
  /\ said \in {"none", "approved", "denied"} /\ turns \in 0..MaxTurns

\* The file is replaced at most once, only after the human approved it and the grant was
\* spent, and never by a task that recorded a refusal, however late the Activity runs
\* (authorize, execute_bound).  What a human looked at is final as far as the task goes: it
\* writes no more; so the recorded claim tells whether the task wrote, unless another writer
\* had a hand in the file, which the comparison of contents cannot know (record).
WritesAsApproved ==
  /\ writes <= 1
  /\ writes = 1 => said = "approved" /\ grant = "consumed"
  /\ wait \in {"denied", "expired", "cancelled"} => writes = 0
  /\ look.file # "none" => writes = look.writes
  /\ claim # "none" /\ ~touched => (claim = "expected") = (writes = 1)

\* A decision or the deadline wakes a task suspended for an approval (approval_decision, the
\* wait's timeout).
AwaitsApproval == gtask = "suspended"
=============================================================================
