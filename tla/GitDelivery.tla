----------------------------- MODULE GitDelivery -----------------------------
(****************************************************************************)
(* The delivery of committed work (git_delivery.py): a plan is prepared for *)
(* one commit, published as a branch and a pull request, observed (CI and   *)
(* review), merged, and reconciled when an outcome is unknown; every step   *)
(* is a compare-and-set of the artifact's row (patches.ArtifactStore).      *)
(* Beside it a patch of several files, applied and undone (apply_patch).    *)
(*                                                                          *)
(* The Git host is not in the repository: a push holds the lease it was     *)
(* given, a merge the sha it was given, one branch has one open pull        *)
(* request, and an answer may be lost.                                      *)
(****************************************************************************)
EXTENDS Naturals, FiniteSets

CONSTANTS
  DPlans,     \* the plans
  Jobs,       \* calls of the delivery tool that may run at once
  NoPlan,     \* none of the plans
  MaxCommits, \* bound: local commits
  MaxPulls,   \* bound: pull requests
  MaxEvents,  \* bound: what others do on the Git host or to the files, and crashes
  PatchFiles  \* the files of the patch

ASSUME DeliveryAssumption ==
  /\ NoPlan \notin DPlans /\ IsFiniteSet(PatchFiles)
  /\ MaxCommits \in Nat \ {0} /\ MaxPulls \in Nat /\ MaxEvents \in Nat

VARIABLES
  local,   \* HEAD of the task's worktree, which is clean when a step begins
  dplan,   \* each plan's row: state, commit, the branch it expects, its pull request
  job,     \* each running call
  branch,  \* the remote branch: 0, a local commit, or Foreign
  pulls,   \* pull requests
  green,   \* the commits whose CI and review are in order
  late,    \* merge requests the host has received and not yet answered
  sends,   \* how often a plan was pushed and its pull request opened
  seen,    \* history: the plans whose merge was preceded by a look that found all in order
  patch,   \* the patch: its row's state, where apply_patch is, what it has replaced, the file it has
           \* compared and not yet replaced; history: the files others wrote since it compared them
  file,    \* the content of each file: before, after, foreign
  events

deliveryVars == <<local, dplan, job, branch, pulls, green, late, sends, seen, patch, file, events>>

Commits == 1..MaxCommits
Foreign == MaxCommits + 1
Observable == {"published", "ready", "ci_pending_or_failed", "review_pending", "stale"}
Unsettled == {"publishing", "merging", "needs_reconciliation"}
IdleJob == [p |-> NoPlan, pc |-> "idle", read |-> "", saw |-> "", n |-> 0]

DeliveryInit ==
  /\ local = 1 /\ branch = 0
  /\ dplan = [p \in DPlans |-> [st |-> "none", head |-> 0, prev |-> 0, pull |-> 0]]
  /\ job = [j \in Jobs |-> IdleJob] /\ pulls = [n \in 1..MaxPulls |-> [st |-> "none", sha |-> 0]]
  /\ green = {} /\ late = {}
  /\ sends = [p \in DPlans |-> [push |-> 0, post |-> 0]] /\ seen = {}
  /\ patch = [st |-> "none", pc |-> "idle", written |-> {}, at |-> {}, fresh |-> {}]
  /\ file = [f \in PatchFiles |-> "before"]
  /\ events = 0

Happens == events < MaxEvents /\ events' = events + 1
Patching == <<patch, file>>
Host == <<branch, pulls, green, late>>

JobAt(j, pc) == job[j].pc = pc
JobGoes(j, pc) == job' = [job EXCEPT ![j].pc = pc]
JobEnds(j) == job' = [job EXCEPT ![j] = IdleJob]
PlanOf(j) == dplan[job[j].p]
Row(p, st) == dplan' = [dplan EXCEPT ![p].st = st]
OpenPulls == {n \in 1..MaxPulls : pulls[n].st = "open"}
Pushed(sha) == [n \in 1..MaxPulls |-> IF n \in OpenPulls THEN [pulls[n] EXCEPT !.sha = sha] ELSE pulls[n]]

\* ArtifactStore.update(expected=...): a row that changed raises.
RowMoves(j, from, to) ==
  /\ dplan' = IF PlanOf(j).st \in from THEN [dplan EXCEPT ![job[j].p].st = to] ELSE dplan

\* prepare_delivery: a first plan, or the repair of one that was published.
Prepare(p) ==
  /\ dplan[p].st = "none"
  /\ \/ dplan' = [dplan EXCEPT ![p] = [st |-> "prepared", head |-> local, prev |-> 0, pull |-> 0]]
     \/ \E q \in DPlans :
          /\ dplan[q].st \in Observable /\ dplan[q].pull # 0 /\ dplan[q].head # local
          /\ dplan' = [dplan EXCEPT ![p] = [st |-> "prepared", head |-> local, prev |-> dplan[q].head, pull |-> dplan[q].pull]]
  /\ UNCHANGED <<local, job, Host, sends, seen, Patching, events>>

\* publish_delivery, before its claim.
PublishBegins(j, p) ==
  /\ JobAt(j, "idle") /\ dplan[p].st = "prepared"
  /\ local = dplan[p].head /\ branch = dplan[p].prev
  /\ IF dplan[p].pull # 0 THEN pulls[dplan[p].pull] = [st |-> "open", sha |-> dplan[p].prev] ELSE OpenPulls = {}
  /\ job' = [job EXCEPT ![j] = [IdleJob EXCEPT !.p = p, !.pc = "claim"]]
  /\ UNCHANGED <<local, dplan, Host, sends, seen, Patching, events>>

\* Mutant of Claims: the state is set whatever it is.
ClaimsAny(j) == TRUE

Claims(j) == PlanOf(j).st = "prepared"

PublishClaims(j) ==
  /\ JobAt(j, "claim")
  /\ IF Claims(j) THEN Row(job[j].p, "publishing") /\ JobGoes(j, "push") ELSE JobEnds(j) /\ UNCHANGED dplan
  /\ UNCHANGED <<local, Host, sends, seen, Patching, events>>

\* Mutant of LeaseHolds: git push --force.
LeaseHoldsAny(p) == TRUE

LeaseHolds(p) == branch = dplan[p].prev

\* git push --force-with-lease; an error and a lost answer look alike.
Push(j) ==
  /\ JobAt(j, "push") /\ sends' = [sends EXCEPT ![job[j].p].push = @ + 1]
  /\ \/ /\ LeaseHolds(job[j].p) /\ branch' = PlanOf(j).head /\ pulls' = Pushed(PlanOf(j).head)
        /\ \E pc \in {"post", "fail"} : JobGoes(j, pc)
     \/ JobGoes(j, "fail") /\ UNCHANGED <<branch, pulls>>
  /\ UNCHANGED <<local, dplan, green, late, seen, Patching, events>>

\* provider.publish and verify_pull.
PostPull(j) ==
  /\ JobAt(j, "post") /\ sends' = [sends EXCEPT ![job[j].p].post = @ + 1]
  /\ \/ JobGoes(j, "fail") /\ UNCHANGED pulls
     \/ /\ PlanOf(j).pull # 0 /\ UNCHANGED pulls
        /\ pulls[PlanOf(j).pull] = [st |-> "open", sha |-> PlanOf(j).head]
        /\ job' = [job EXCEPT ![j].pc = "record", ![j].n = PlanOf(j).pull]
     \/ /\ PlanOf(j).pull = 0 /\ OpenPulls = {}
        /\ \E n \in 1..MaxPulls :
             /\ pulls[n].st = "none" /\ (\A m \in 1..(n - 1) : pulls[m].st # "none")
             /\ pulls' = [pulls EXCEPT ![n] = [st |-> "open", sha |-> branch]]
             /\ \/ JobGoes(j, "fail")
                \/ branch = PlanOf(j).head /\ job' = [job EXCEPT ![j].pc = "record", ![j].n = n]
  /\ UNCHANGED <<local, dplan, branch, green, late, seen, Patching, events>>

\* The last update of publish_delivery and of merge_delivery, and their except clauses.
PublishRecords(j) ==
  /\ JobAt(j, "record") /\ JobEnds(j)
  /\ dplan' = IF PlanOf(j).st # "publishing" THEN dplan
              ELSE [dplan EXCEPT ![job[j].p].st = "published", ![job[j].p].pull = job[j].n]
  /\ UNCHANGED <<local, Host, sends, seen, Patching, events>>
MergeRecords(j) ==
  /\ JobAt(j, "merged") /\ JobEnds(j) /\ RowMoves(j, {"merging"}, "merged")
  /\ UNCHANGED <<local, Host, sends, seen, Patching, events>>
JobFails(j) ==
  /\ JobAt(j, "fail") /\ JobEnds(j) /\ RowMoves(j, {IF job[j].read = "ready" THEN "merging" ELSE "publishing"}, "needs_reconciliation")
  /\ UNCHANGED <<local, Host, sends, seen, Patching, events>>

\* inspect_delivery, and the look merge_delivery takes before it merges: the pull request,
\* CI and review of the plan's commit.
Look(j, p, why) ==
  /\ JobAt(j, "idle") /\ dplan[p].st \in (IF why = "inspect" THEN Observable ELSE {"ready"}) /\ dplan[p].pull # 0
  /\ job' = [job EXCEPT ![j] = [p |-> p, pc |-> why, read |-> dplan[p].st, n |-> dplan[p].pull,
                                saw |-> IF pulls[dplan[p].pull].sha # dplan[p].head THEN "other"
                                       ELSE IF dplan[p].head \in green THEN "green" ELSE "red"]]
  /\ UNCHANGED <<local, dplan, Host, sends, seen, Patching, events>>

\* Its second reading of the pull request, and the verdict.
Stable(j) == job[j].saw # "other" /\ pulls[job[j].n].sha = PlanOf(j).head
FoundReady(j) == job[j].saw = "green" /\ Stable(j) /\ pulls[job[j].n].st = "open"
Verdicts(j) == IF ~Stable(j) THEN {"stale"} ELSE IF FoundReady(j) THEN {"ready"}
               ELSE {"ci_pending_or_failed", "review_pending"}
InspectRecords(j) ==
  /\ JobAt(j, "inspect") /\ JobEnds(j) /\ \E st \in Verdicts(j) : RowMoves(j, {job[j].read}, st)
  /\ UNCHANGED <<local, Host, sends, seen, Patching, events>>
MergeClaims(j) ==
  /\ JobAt(j, "merge")
  /\ IF FoundReady(j) /\ PlanOf(j).st = "ready"
       THEN Row(job[j].p, "merging") /\ JobGoes(j, "merging") /\ seen' = seen \cup {job[j].p}
       ELSE JobEnds(j) /\ (\E st \in Verdicts(j) : RowMoves(j, {"ready"}, st)) /\ UNCHANGED seen
  /\ UNCHANGED <<local, Host, sends, Patching, events>>

\* Mutant of ShaMatches: the merge names no commit.
ShaMatchesAny(n, sha) == pulls[n].st = "open"

ShaMatches(n, sha) == pulls[n] = [st |-> "open", sha |-> sha]

\* provider.merge: merged and confirmed, refused, or not heard of again.
MergeCall(j) ==
  /\ JobAt(j, "merging")
  /\ \/ ShaMatches(job[j].n, PlanOf(j).head) /\ pulls' = [pulls EXCEPT ![job[j].n].st = "merged"]
        /\ JobGoes(j, "merged") /\ UNCHANGED late
     \/ JobGoes(j, "fail") /\ UNCHANGED <<pulls, late>>
     \/ JobGoes(j, "fail") /\ late' = late \cup {<<job[j].n, PlanOf(j).head>>} /\ UNCHANGED pulls
  /\ UNCHANGED <<local, dplan, branch, green, sends, seen, Patching, events>>
LateMerge ==
  /\ \E r \in late : /\ late' = late \ {r}
                     /\ pulls' = IF ShaMatches(r[1], r[2]) THEN [pulls EXCEPT ![r[1]].st = "merged"] ELSE pulls
  /\ UNCHANGED <<local, dplan, job, branch, green, sends, seen, Patching, events>>

\* reconcile_delivery: reads only; a merge of an unknown outcome is not called verified.
Found(p) == IF dplan[p].pull # 0 THEN {dplan[p].pull} ELSE OpenPulls
Reconcile(j, p) ==
  /\ JobAt(j, "idle") /\ dplan[p].st \in Unsettled
  /\ \E n \in Found(p) :
       /\ pulls[n].sha = dplan[p].head
       /\ \/ pulls[n].st = "merged"
          \/ pulls[n].st = "open" /\ branch = dplan[p].head
       /\ job' = [job EXCEPT ![j] = [p |-> p, pc |-> IF pulls[n].st = "merged" THEN "unverified" ELSE "settle",
                                     read |-> dplan[p].st, saw |-> "", n |-> n]]
  /\ UNCHANGED <<local, dplan, Host, sends, seen, Patching, events>>
ReconcileRecords(j) ==
  /\ job[j].pc \in {"settle", "unverified"} /\ JobEnds(j)
  /\ dplan' = IF PlanOf(j).st # job[j].read THEN dplan
              ELSE IF JobAt(j, "settle") THEN [dplan EXCEPT ![job[j].p].st = "published", ![job[j].p].pull = job[j].n]
              ELSE [dplan EXCEPT ![job[j].p].st = "merged_unverified"]
  /\ UNCHANGED <<local, Host, sends, seen, Patching, events>>

\* /delivery abandon, after a human's inspection.
Abandon(p) ==
  /\ dplan[p].st \in Unsettled /\ Row(p, "abandoned")
  /\ UNCHANGED <<local, job, Host, sends, seen, Patching, events>>

\* The process dies in the middle of a call.
JobCrashes(j) ==
  /\ ~JobAt(j, "idle") /\ Happens /\ JobEnds(j)
  /\ UNCHANGED <<local, dplan, Host, sends, seen, Patching>>

\* The task commits; others push, review, merge or close.
LocalCommit == local < MaxCommits /\ local' = local + 1
  /\ UNCHANGED <<dplan, job, Host, sends, seen, Patching, events>>
ForeignPush == Happens /\ branch' = Foreign /\ pulls' = Pushed(Foreign)
  /\ UNCHANGED <<local, dplan, job, green, late, sends, seen, Patching>>
Checked(c) == Happens /\ green' \in {green \ {c}, green \cup {c}} /\ green' # green
  /\ UNCHANGED <<local, dplan, job, branch, pulls, late, sends, seen, Patching>>
PullSettled == Happens /\ (\E n \in OpenPulls : \E st \in {"closed", "merged"} : pulls' = [pulls EXCEPT ![n].st = st])
  /\ UNCHANGED <<local, dplan, job, branch, green, late, sends, seen, Patching>>

JobStep(j) ==
  \/ PublishClaims(j) \/ Push(j) \/ PostPull(j) \/ PublishRecords(j) \/ MergeRecords(j) \/ JobFails(j)
  \/ InspectRecords(j) \/ MergeClaims(j) \/ MergeCall(j) \/ ReconcileRecords(j)
\* These calls about these plans.
DeliverNext(jobs, plans) ==
  \/ \E j \in jobs : \/ JobStep(j) \/ JobCrashes(j)
                     \/ \E p \in plans : PublishBegins(j, p) \/ Look(j, p, "inspect") \/ Look(j, p, "merge") \/ Reconcile(j, p)
  \/ \E p \in plans : Prepare(p) \/ Abandon(p)
  \/ LateMerge \/ LocalCommit \/ ForeignPush \/ PullSettled \/ \E c \in Commits : Checked(c)

----------------------------------------------------------------------------
(* A patch of several files *)

Delivering == <<local, dplan, job, Host, sends, seen>>

PatchPrepares ==
  /\ patch.st = "none" /\ (\A f \in PatchFiles : file[f] = "before") /\ patch' = [patch EXCEPT !.st = "prepared"]
  /\ UNCHANGED <<Delivering, file, events>>
PatchBegins ==
  /\ patch.st = "prepared" /\ (\A f \in PatchFiles : file[f] = "before")
  /\ patch' = [patch EXCEPT !.st = "applying", !.pc = "write"]
  /\ UNCHANGED <<Delivering, file, events>>

\* Mutant of Unchanged: the file is not compared again before it is replaced.
UnchangedAny(f) == TRUE

Unchanged(f) == file[f] = "before"

\* The file is read and compared; then replace_bytes makes its directory, writes a temporary
\* file and moves it over whatever is there.
Compared(f, pc) == patch' = [patch EXCEPT !.pc = pc, !.at = {f}, !.fresh = @ \ {f}] /\ UNCHANGED file

\* One file; a foreign edit, a cancellation, an error or a row that a human abandoned ends
\* the loop.
PatchCompares ==
  /\ patch.pc = "write"
  /\ \/ \E f \in PatchFiles \ patch.written : Unchanged(f) /\ Compared(f, "replace")
     \/ patch' = [patch EXCEPT !.pc = "undo"] /\ UNCHANGED file
     \/ /\ patch.written = PatchFiles /\ patch.st = "applying"
        /\ patch' = [patch EXCEPT !.st = "applied", !.pc = "over"] /\ UNCHANGED file
  /\ UNCHANGED <<Delivering, events>>
PatchReplaces ==
  /\ patch.pc = "replace"
  /\ \/ /\ file' = [f \in PatchFiles |-> IF f \in patch.at THEN "after" ELSE file[f]]
        /\ patch' = [patch EXCEPT !.pc = "write", !.written = @ \cup patch.at, !.at = {}]
     \/ patch' = [patch EXCEPT !.pc = "undo", !.at = {}] /\ UNCHANGED file
  /\ UNCHANGED <<Delivering, events>>

\* Mutant of Undoable: what was written is put back, whoever wrote it last.
UndoableAny(f) == f \in patch.written

Undoable(f) == f \in patch.written /\ file[f] = "after"

\* Each file that still has what the patch wrote is put back; an error here is passed over.
PatchUndoes ==
  /\ patch.pc = "undo"
  /\ \/ \E f \in PatchFiles : Undoable(f) /\ Compared(f, "restore")
     \/ patch' = [patch EXCEPT !.st = IF @ = "applying" THEN "needs_resolution" ELSE @, !.pc = "over"] /\ UNCHANGED file
  /\ UNCHANGED <<Delivering, events>>
PatchRestores ==
  /\ patch.pc = "restore" /\ patch' = [patch EXCEPT !.pc = "undo", !.written = @ \ patch.at, !.at = {}]
  /\ \/ file' = [f \in PatchFiles |-> IF f \in patch.at THEN "before" ELSE file[f]]
     \/ UNCHANGED file
  /\ UNCHANGED <<Delivering, events>>

PatchCrashes == patch.pc \in {"write", "replace", "undo", "restore"} /\ Happens
  /\ patch' = [patch EXCEPT !.pc = "dead", !.at = {}]
  /\ UNCHANGED <<Delivering, file>>
PatchAbandoned == patch.st \in {"applying", "needs_resolution"} /\ patch' = [patch EXCEPT !.st = "abandoned"]
  /\ UNCHANGED <<Delivering, file, events>>
ForeignEdit == Happens
  /\ \E f \in PatchFiles, content \in {"before", "after", "foreign"} :
       file' = [file EXCEPT ![f] = content] /\ patch' = [patch EXCEPT !.fresh = @ \cup {f}]
  /\ UNCHANGED Delivering

PatchNext == \/ PatchPrepares \/ PatchBegins \/ PatchCompares \/ PatchReplaces \/ PatchUndoes \/ PatchRestores
             \/ PatchCrashes \/ PatchAbandoned \/ ForeignEdit

\* Any number of calls about any number of plans, beside the patch.
DeliverySpec == DeliveryInit /\ [][DeliverNext(Jobs, DPlans) \/ PatchNext]_deliveryVars

----------------------------------------------------------------------------
\* Every plan, call, pull request and patch has a state the code knows.
DeliveryTypeOK ==
  /\ dplan \in [DPlans -> [st : Observable \cup Unsettled \cup {"none", "prepared", "merged", "merged_unverified", "abandoned"},
                           head : 0..MaxCommits, prev : 0..MaxCommits, pull : 0..MaxPulls]]
  /\ \A j \in Jobs : job[j].pc \in {"idle", "claim", "push", "post", "record", "fail", "inspect", "merge", "merging", "merged", "settle", "unverified"}
  /\ branch \in 0..Foreign /\ pulls \in [1..MaxPulls -> [st : {"none", "open", "closed", "merged"}, sha : 0..Foreign]]
  /\ patch.st \in {"none", "prepared", "applying", "applied", "needs_resolution", "abandoned"}

\* A plan is pushed and its pull request opened at most once, whatever was lost or died:
\* what follows an unknown outcome only reads.
PushedOnce == \A p \in DPlans : sends[p].push <= 1 /\ sends[p].post <= 1

\* What is called a verified delivery is the plan's own commit, merged after CI and review
\* of that commit were found in order; what is called merged is that commit; and every file
\* of a patch that is called applied holds what was proposed, unless others wrote the file
\* after it was compared.
DeliveredAsChecked ==
  /\ \A p \in DPlans : /\ dplan[p].st \in {"merged", "merged_unverified"} => pulls[dplan[p].pull] = [st |-> "merged", sha |-> dplan[p].head]
                       /\ dplan[p].st = "merged" => p \in seen
  /\ patch.st = "applied" => \A f \in PatchFiles : file[f] = "after" \/ f \in patch.fresh

\* What others did stays: their commit on the branch, whatever job pushes; and their edit of
\* a file, until they change it themselves (their steps count as events).  An edit between the
\* comparison and the replacement of one file is the exception, and is lost: patches.py:149
\* ("Preserve concurrent edits") and src/README.md:641 promise that edit too, but apply_patch
\* reads the file (144, 151) and replace_bytes later moves another over it (145, 152).
OthersStay == [][/\ branch = Foreign => branch' = Foreign
                 /\ events' = events =>
                      \A f \in PatchFiles \ (patch.at \cap patch.fresh) : file[f] = "foreign" => file'[f] = "foreign"]_deliveryVars
==============================================================================
