--------------------------- MODULE ServicesProofs ---------------------------
(****************************************************************************)
(* The services that face the outside, for any number of calls, plans,      *)
(* commits, inputs, connections, updates, deliveries and faults: what is    *)
(* delivered is what was checked, and what others did meanwhile stays; a    *)
(* companion misses no event in silence; what is asked for again, of any    *)
(* service, is done once, and none acts before its turn.                    *)
(****************************************************************************)
EXTENDS MCServices, FiniteSetTheorems, TLAPS

----------------------------------------------------------------------------
(* The delivery of commits *)

PlanStates == Observable \cup Unsettled \cup {"none", "prepared", "merged", "merged_unverified", "abandoned"}
PlanRows == [st : PlanStates, head : 0..MaxCommits, prev : 0..MaxCommits, pull : {0, 1} \cap (0..MaxPulls)]
JobPcs == {"idle", "claim", "push", "post", "record", "fail", "inspect", "merge", "merging", "merged", "settle", "unverified"}
CallRows == [p : DPlans \cup {NoPlan}, pc : JobPcs, read : Observable \cup Unsettled \cup {""},
             saw : {"", "other", "green", "red"}, n : {0, 1} \cap (0..MaxPulls)]
PullRows == [st : {"none", "open", "closed", "merged"}, sha : 0..Foreign]
PatchRows == [st : {"none", "prepared", "applying", "applied", "needs_resolution", "abandoned"},
              pc : {"idle", "write", "replace", "undo", "restore", "over", "dead"},
              written : SUBSET PatchFiles, at : SUBSET PatchFiles, fresh : SUBSET PatchFiles]

DeliveryTyped ==
  /\ local \in Commits /\ branch \in 0..Foreign /\ seen \subseteq DPlans
  /\ dplan \in [DPlans -> PlanRows] /\ job \in [Jobs -> CallRows]
  /\ pulls \in [1..MaxPulls -> PullRows] /\ late \subseteq (1..MaxPulls) \X Commits
  /\ sends \in [DPlans -> [push : Nat, post : Nat]]
  /\ patch \in PatchRows /\ file \in [PatchFiles -> {"before", "after", "foreign"}]

\* A pull request that exists, and one merged with the commit of plan p.
Exists(n) == n # 0 /\ pulls[n].st # "none"
MergedWith(n, p) == n # 0 /\ pulls[n] = [st |-> "merged", sha |-> dplan[p].head]

\* What a plan's row says of its commit, its pull request and its merge.
PlanFits(p) ==
  /\ dplan[p].st # "none" => dplan[p].head \in Commits
  /\ dplan[p].st = "none" => dplan[p].pull = 0
  /\ dplan[p].pull = 0 => dplan[p].prev = 0
  /\ dplan[p].pull # 0 => Exists(dplan[p].pull)
  /\ dplan[p].st \in {"merged", "merged_unverified"} => dplan[p].pull # 0 /\ MergedWith(dplan[p].pull, p)
  /\ dplan[p].st = "merged" => p \in seen

\* What a call knows of the plan it works on.
CallFits(j) ==
  /\ job[j].pc # "idle" => job[j].p \in DPlans /\ dplan[job[j].p].st # "none"
  /\ job[j].pc \in {"record", "settle"} => Exists(job[j].n)
  /\ job[j].pc \in {"inspect", "merge", "merging", "merged", "unverified"} => job[j].n # 0 /\ job[j].n = PlanOf(j).pull
  /\ job[j].pc \in {"merging", "merged"} => job[j].p \in seen
  /\ job[j].pc \in {"merged", "unverified"} => MergedWith(job[j].n, job[j].p)

\* The first push finds no branch: there is one of them, and no pull request before it.
FirstPost(j) == job[j].pc = "post" /\ PlanOf(j).pull = 0
OneBranch ==
  /\ \A n \in 1..MaxPulls : pulls[n].st # "none" => n = 1 /\ branch # 0
  /\ \A j \in Jobs : FirstPost(j) => /\ branch # 0 /\ \A n \in 1..MaxPulls : pulls[n].st = "none"
                                     /\ \A k \in Jobs : FirstPost(k) => k = j

\* A plan is claimed once, and its one call pushes and posts once.
Publishing(j, p) == job[j].p = p /\ job[j].pc \in {"push", "post"}
SentInv == \A p \in DPlans :
  /\ dplan[p].st \in {"none", "prepared"} => sends[p].push = 0 /\ sends[p].post = 0 /\ \A j \in Jobs : ~Publishing(j, p)
  /\ \A j \in Jobs : Publishing(j, p) => /\ sends[p].post = 0 /\ (job[j].pc = "push" => sends[p].push = 0)
                                         /\ \A k \in Jobs : Publishing(k, p) => k = j
  /\ sends[p].push <= 1 /\ sends[p].post <= 1

\* What a patch has written stays until others write it; what it has just compared is foreign
\* only if others wrote it since.
PatchFits ==
  /\ patch.pc \in {"write", "replace"} => \A f \in patch.written : file[f] = "after" \/ f \in patch.fresh
  /\ patch.st \in {"none", "prepared"} => patch.pc = "idle" /\ patch.written = {}
  /\ patch.st = "applied" => patch.pc = "over" /\ \A f \in PatchFiles : file[f] = "after" \/ f \in patch.fresh
  /\ \A f \in patch.at : file[f] = "foreign" => f \in patch.fresh

DeliveryInv == /\ DeliveryTyped /\ OneBranch /\ SentInv /\ PatchFits
               /\ \A p \in DPlans : PlanFits(p)
               /\ \A j \in Jobs : CallFits(j)

\* What a step may do to the Git host: what exists goes on existing, what is merged stays.
HostMay ==
  /\ pulls' \in [1..MaxPulls -> PullRows] /\ branch' \in 0..Foreign
  /\ \A n \in 1..MaxPulls : /\ pulls[n].st # "none" => pulls'[n].st # "none"
                            /\ pulls[n].st = "merged" => pulls'[n] = pulls[n]
  /\ branch # 0 => branch' # 0
NoneOpened == \A n \in 1..MaxPulls : pulls[n].st = "none" => pulls'[n].st = "none"

\* What a step may do to a plan: it keeps its commit and its pull request, and is prepared once.
PlansMay ==
  /\ dplan' \in [DPlans -> PlanRows]
  /\ \A p \in DPlans : /\ dplan[p].st # "none" => dplan'[p].st # "none" /\ dplan'[p].head = dplan[p].head
                       /\ dplan[p].pull # 0 => dplan'[p].pull = dplan[p].pull
                       /\ dplan'[p].st \in {"none", "prepared"} => dplan[p].st \in {"none", "prepared"}

\* No call begins to publish.
Calm == \A j \in Jobs : job'[j].pc \in {"push", "post"} => job'[j] = job[j]

SeenGrows == seen \subseteq seen' /\ seen' \subseteq DPlans
PatchKept == patch' = patch /\ file' = file

\* No plan, no call and no pull request.
LEMMA DeliveryInitial == DeliveryInit => DeliveryInv
<1> SUFFICES ASSUME DeliveryInit PROVE DeliveryInv
  OBVIOUS
<1>0. MaxCommits \in Nat \ {0} /\ MaxPulls \in Nat /\ NoPlan \notin DPlans
  BY DeliveryAssumption
<1>1. IdleJob \in CallRows /\ IdleJob.pc = "idle"
  BY <1>0 DEF IdleJob, CallRows, JobPcs
<1>2. DeliveryTyped
  <2>1. dplan \in [DPlans -> PlanRows]
    BY <1>0 DEF DeliveryInit, PlanRows, PlanStates
  <2>2. pulls \in [1..MaxPulls -> PullRows] /\ sends \in [DPlans -> [push : Nat, post : Nat]]
    BY <1>0 DEF DeliveryInit, PullRows, Foreign
  <2>3. patch \in PatchRows /\ file \in [PatchFiles -> {"before", "after", "foreign"}]
    BY DEF DeliveryInit, PatchRows
  <2> QED
    BY <1>0, <1>1, <2>1, <2>2, <2>3 DEF DeliveryInit, DeliveryTyped, Commits, Foreign
<1>3. OneBranch /\ SentInv
  BY <1>1 DEF DeliveryInit, OneBranch, SentInv, FirstPost, Publishing
<1>4. PatchFits
  BY DEF DeliveryInit, PatchFits
<1>5. (\A p \in DPlans : PlanFits(p)) /\ \A j \in Jobs : CallFits(j)
  BY <1>1 DEF DeliveryInit, PlanFits, CallFits, PlanOf
<1> QED
  BY <1>2, <1>3, <1>4, <1>5 DEF DeliveryInv

\* A pull request that exists, and one that is merged, stay what they are.
LEMMA PullsStay ==
  ASSUME DeliveryInv, HostMay, PlansMay, NEW n \in {0, 1} \cap (0..MaxPulls)
  PROVE  /\ Exists(n) => Exists(n)'
         /\ \A p \in DPlans : dplan[p].st # "none" /\ MergedWith(n, p) => MergedWith(n, p)'
<1>1. n # 0 => n \in 1..MaxPulls
  BY DeliveryAssumption
<1>2. Exists(n) => Exists(n)'
  BY <1>1 DEF Exists, HostMay
<1>3. ASSUME NEW p \in DPlans, dplan[p].st # "none", MergedWith(n, p) PROVE MergedWith(n, p)'
  <2>1. pulls[n].st = "merged" /\ n \in 1..MaxPulls
    BY <1>1, <1>3 DEF MergedWith
  <2>2. pulls'[n] = pulls[n] /\ dplan'[p].head = dplan[p].head
    BY <1>3, <2>1 DEF HostMay, PlansMay
  <2> QED
    BY <1>3, <2>2 DEF MergedWith
<1> QED
  BY <1>2, <1>3

\* What a call knows and what a row says stays true under the steps of others.
LEMMA OthersFit ==
  ASSUME DeliveryInv, HostMay, PlansMay, SeenGrows,
         \A j \in Jobs : job'[j] = job[j] \/ CallFits(j)',
         \A p \in DPlans : dplan'[p] = dplan[p] \/ PlanFits(p)'
  PROVE  (\A p \in DPlans : PlanFits(p)') /\ \A j \in Jobs : CallFits(j)'
<1>0. DeliveryTyped /\ (\A p \in DPlans : PlanFits(p)) /\ \A j \in Jobs : CallFits(j)
  BY DEF DeliveryInv
<1>1. ASSUME NEW p \in DPlans, dplan'[p] = dplan[p] PROVE PlanFits(p)'
  <2>1. PlanFits(p) /\ dplan[p] \in PlanRows /\ (p \in seen => p \in seen')
    BY <1>0 DEF DeliveryTyped, SeenGrows
  <2>2. dplan[p].pull \in {0, 1} \cap (0..MaxPulls)
    BY <2>1 DEF PlanRows
  <2>3. Exists(dplan[p].pull) => Exists(dplan[p].pull)'
    BY <2>2, PullsStay, <1>1
  <2>4. dplan[p].st # "none" /\ MergedWith(dplan[p].pull, p) => MergedWith(dplan[p].pull, p)'
    BY <2>2, PullsStay, <1>1
  <2> QED
    BY <1>1, <2>1, <2>3, <2>4 DEF PlanFits
<1>2. ASSUME NEW j \in Jobs, job'[j] = job[j] PROVE CallFits(j)'
  <2>1. CallFits(j) /\ job[j] \in CallRows
    BY <1>0 DEF DeliveryTyped
  <2>2. job[j].n \in {0, 1} \cap (0..MaxPulls) /\ job[j].p \in DPlans \cup {NoPlan}
    BY <2>1 DEF CallRows
  <2>3. Exists(job[j].n) => Exists(job[j].n)'
    BY <1>2, <2>2, PullsStay
  <2>4. ASSUME job[j].pc # "idle"
        PROVE  /\ job[j].p \in DPlans /\ dplan[job[j].p].st # "none" /\ dplan'[job[j].p].st # "none"
               /\ MergedWith(job[j].n, job[j].p) => MergedWith(job[j].n, job[j].p)'
               /\ PlanOf(j).pull # 0 => PlanOf(j)'.pull = PlanOf(j).pull
               /\ job[j].p \in seen => job[j].p \in seen'
    <3>1. job[j].p \in DPlans /\ dplan[job[j].p].st # "none"
      BY <2>1, <2>4 DEF CallFits
    <3>2. MergedWith(job[j].n, job[j].p) => MergedWith(job[j].n, job[j].p)'
      BY <1>2, <2>2, <3>1, PullsStay
    <3> QED
      BY <1>2, <3>1, <3>2 DEF PlansMay, PlanOf, SeenGrows
  <2> QED
    BY <1>2, <2>1, <2>3, <2>4 DEF CallFits
<1> QED
  BY <1>1, <1>2

\* Steps in which nobody begins to publish and no pull request is opened.
LEMMA CalmKeeps ==
  ASSUME DeliveryInv, HostMay, NoneOpened, PlansMay, Calm, sends' = sends
  PROVE  OneBranch' /\ SentInv'
<1>1. \A j \in Jobs : FirstPost(j)' => FirstPost(j)
  <2> SUFFICES ASSUME NEW j \in Jobs, FirstPost(j)' PROVE FirstPost(j)
    OBVIOUS
  <2>1. job'[j] = job[j] /\ job[j].pc = "post"
    BY DEF FirstPost, Calm
  <2>2. job[j].p \in DPlans
    BY <2>1 DEF DeliveryInv, CallFits
  <2> QED
    BY <2>1, <2>2 DEF FirstPost, PlanOf, PlansMay
<1>2. OneBranch'
  BY <1>1 DEF DeliveryInv, OneBranch, HostMay, NoneOpened
<1>3. \A j \in Jobs, p \in DPlans : Publishing(j, p)' => Publishing(j, p) /\ job'[j] = job[j]
  BY DEF Publishing, Calm
<1>4. SentInv'
  BY <1>3 DEF DeliveryInv, SentInv, PlansMay
<1> QED
  BY <1>2, <1>4

\* A step of a call that publishes nothing, of a plan, or of the host.
LEMMA CalmStep ==
  ASSUME DeliveryInv, HostMay, NoneOpened, PlansMay, Calm, SeenGrows, PatchKept, sends' = sends,
         job' \in [Jobs -> CallRows], local' \in Commits, late' \subseteq (1..MaxPulls) \X Commits,
         \A j \in Jobs : job'[j] = job[j] \/ CallFits(j)',
         \A p \in DPlans : dplan'[p] = dplan[p] \/ PlanFits(p)'
  PROVE  DeliveryInv'
<1>1. DeliveryTyped'
  BY DEF DeliveryInv, DeliveryTyped, HostMay, PlansMay, SeenGrows, PatchKept
<1>2. PatchFits'
  BY DEF DeliveryInv, PatchFits, PatchKept
<1> QED
  BY <1>1, <1>2, CalmKeeps, OthersFit DEF DeliveryInv

\* Nothing happens on the host, to the plans, to the calls.
LEMMA HostStays ==
  ASSUME DeliveryInv, UNCHANGED Host
  PROVE  HostMay /\ NoneOpened /\ late' \subseteq (1..MaxPulls) \X Commits
BY DEF DeliveryInv, DeliveryTyped, Host, HostMay, NoneOpened

LEMMA PlansStay ==
  ASSUME DeliveryInv, UNCHANGED dplan
  PROVE  PlansMay
BY DEF DeliveryInv, DeliveryTyped, PlansMay

LEMMA CallsStay ==
  ASSUME DeliveryInv, UNCHANGED job
  PROVE  job' \in [Jobs -> CallRows] /\ Calm
BY DEF DeliveryInv, DeliveryTyped, Calm

LEMMA RestStays ==
  ASSUME DeliveryInv
  PROVE  /\ UNCHANGED seen => SeenGrows
         /\ UNCHANGED Patching => PatchKept
         /\ UNCHANGED local => local' \in Commits
BY DEF DeliveryInv, DeliveryTyped, SeenGrows, PatchKept, Patching

\* One call goes on to another row.
LEMMA CallBecomes ==
  ASSUME DeliveryInv, NEW j \in Jobs, NEW row \in CallRows, job' = [job EXCEPT ![j] = row]
  PROVE  /\ job' \in [Jobs -> CallRows] /\ job'[j] = row
         /\ \A k \in Jobs : k # j => job'[k] = job[k]
         /\ row.pc \notin {"push", "post"} => Calm
<1> job \in [Jobs -> CallRows]
  BY DEF DeliveryInv, DeliveryTyped
<1> QED
  BY DEF Calm

LEMMA CallGoes ==
  ASSUME DeliveryInv, NEW j \in Jobs, NEW pc \in JobPcs, JobGoes(j, pc)
  PROVE  /\ job' \in [Jobs -> CallRows] /\ job'[j].pc = pc /\ job'[j].p = job[j].p /\ job'[j].n = job[j].n
         /\ \A k \in Jobs : k # j => job'[k] = job[k]
         /\ pc \notin {"push", "post"} => Calm
<1>1. job \in [Jobs -> CallRows] /\ job[j] \in CallRows
  BY DEF DeliveryInv, DeliveryTyped
<1>2. job' = [job EXCEPT ![j] = [job[j] EXCEPT !.pc = pc]]
  BY <1>1 DEF JobGoes
<1>3. [job[j] EXCEPT !.pc = pc] \in CallRows
  BY <1>1 DEF CallRows
<1>4. [job[j] EXCEPT !.pc = pc].pc = pc /\ [job[j] EXCEPT !.pc = pc].p = job[j].p /\ [job[j] EXCEPT !.pc = pc].n = job[j].n
  BY <1>1 DEF CallRows
<1> QED
  BY <1>2, <1>3, <1>4, CallBecomes

LEMMA CallEnds ==
  ASSUME DeliveryInv, NEW j \in Jobs, JobEnds(j)
  PROVE  /\ job' \in [Jobs -> CallRows] /\ Calm
         /\ \A k \in Jobs : job'[k] = job[k] \/ CallFits(k)'
<1>1. IdleJob \in CallRows /\ IdleJob.pc = "idle"
  BY DeliveryAssumption DEF IdleJob, CallRows, JobPcs
<1>2. job' \in [Jobs -> CallRows] /\ Calm /\ job'[j].pc = "idle" /\ \A k \in Jobs : k # j => job'[k] = job[k]
  BY <1>1, CallBecomes DEF JobEnds
<1>3. CallFits(j)'
  BY <1>2 DEF CallFits
<1> QED
  BY <1>2, <1>3

\* One plan's row gets another state, and perhaps its pull request.
LEMMA RowBecomes ==
  ASSUME DeliveryInv, NEW p \in DPlans, NEW st \in PlanStates \ {"none", "prepared"}, dplan[p].st # "none",
         dplan' = [dplan EXCEPT ![p].st = st]
  PROVE  /\ PlansMay /\ \A q \in DPlans : q # p => dplan'[q] = dplan[q]
         /\ dplan'[p].st = st /\ dplan'[p].head = dplan[p].head
         /\ dplan'[p].prev = dplan[p].prev /\ dplan'[p].pull = dplan[p].pull
<1>1. dplan \in [DPlans -> PlanRows] /\ dplan[p] \in PlanRows
  BY DEF DeliveryInv, DeliveryTyped
<1>2. dplan' = [dplan EXCEPT ![p] = [dplan[p] EXCEPT !.st = st]]
  BY <1>1
<1>3. [dplan[p] EXCEPT !.st = st] \in PlanRows
  BY <1>1 DEF PlanRows
<1>4. dplan' \in [DPlans -> PlanRows] /\ \A q \in DPlans : q # p => dplan'[q] = dplan[q]
  BY <1>1, <1>2, <1>3
<1>5. dplan'[p].st = st /\ dplan'[p].head = dplan[p].head /\ dplan'[p].prev = dplan[p].prev /\ dplan'[p].pull = dplan[p].pull
  BY <1>1, <1>2 DEF PlanRows
<1> QED
  BY <1>4, <1>5 DEF PlansMay

LEMMA RowPublished ==
  ASSUME DeliveryInv, NEW p \in DPlans, dplan[p].st # "none", NEW n \in {0, 1} \cap (0..MaxPulls), Exists(n),
         dplan' = [dplan EXCEPT ![p].st = "published", ![p].pull = n]
  PROVE  /\ PlansMay /\ \A q \in DPlans : q # p => dplan'[q] = dplan[q]
         /\ dplan'[p].st = "published" /\ dplan'[p].head = dplan[p].head /\ dplan'[p].pull = n
<1>1. dplan \in [DPlans -> PlanRows] /\ dplan[p] \in PlanRows
  BY DEF DeliveryInv, DeliveryTyped
<1>2. dplan' = [dplan EXCEPT ![p] = [dplan[p] EXCEPT !.st = "published", !.pull = n]]
  BY <1>1
<1>3. [dplan[p] EXCEPT !.st = "published", !.pull = n] \in PlanRows
  BY <1>1 DEF PlanRows, PlanStates, Observable
<1>4. dplan' \in [DPlans -> PlanRows] /\ \A q \in DPlans : q # p => dplan'[q] = dplan[q]
  BY <1>1, <1>2, <1>3
<1>5. dplan'[p].st = "published" /\ dplan'[p].head = dplan[p].head /\ dplan'[p].pull = n
  BY <1>1, <1>2 DEF PlanRows
<1>6. dplan[p].pull # 0 => n = dplan[p].pull
  BY <1>1 DEF PlanRows, Exists
<1> QED
  BY <1>4, <1>5, <1>6 DEF PlansMay

\* A row that got another state says what such a row says.
LEMMA RowFits ==
  ASSUME DeliveryInv, HostMay, SeenGrows, NEW p \in DPlans, NEW st \in PlanStates \ {"none", "prepared"},
         dplan[p].st # "none", dplan' = [dplan EXCEPT ![p].st = st],
         st \in {"merged", "merged_unverified"} => dplan[p].pull # 0 /\ MergedWith(dplan[p].pull, p),
         st = "merged" => p \in seen'
  PROVE  PlansMay /\ \A q \in DPlans : dplan'[q] = dplan[q] \/ PlanFits(q)'
<1>1. /\ PlansMay /\ \A q \in DPlans : q # p => dplan'[q] = dplan[q]
      /\ dplan'[p].st = st /\ dplan'[p].head = dplan[p].head
      /\ dplan'[p].prev = dplan[p].prev /\ dplan'[p].pull = dplan[p].pull
  BY RowBecomes
<1>2. PlanFits(p) /\ dplan[p].pull \in {0, 1} \cap (0..MaxPulls)
  BY DEF DeliveryInv, DeliveryTyped, PlanRows
<1>3. Exists(dplan[p].pull) => Exists(dplan[p].pull)'
  BY <1>1, <1>2, PullsStay
<1>4. MergedWith(dplan[p].pull, p) => MergedWith(dplan[p].pull, p)'
  BY <1>1, <1>2, PullsStay
<1>5. PlanFits(p)'
  BY <1>1, <1>2, <1>3, <1>4 DEF PlanFits
<1> QED
  BY <1>1, <1>5

\* A row that was published has a pull request that exists.
LEMMA PublishedFits ==
  ASSUME DeliveryInv, HostMay, NEW p \in DPlans, dplan[p].st # "none", NEW n \in {0, 1} \cap (0..MaxPulls), Exists(n),
         dplan' = [dplan EXCEPT ![p].st = "published", ![p].pull = n]
  PROVE  PlansMay /\ \A q \in DPlans : dplan'[q] = dplan[q] \/ PlanFits(q)'
<1>1. /\ PlansMay /\ \A q \in DPlans : q # p => dplan'[q] = dplan[q]
      /\ dplan'[p].st = "published" /\ dplan'[p].head = dplan[p].head /\ dplan'[p].pull = n
  BY RowPublished
<1>2. PlanFits(p)
  BY DEF DeliveryInv
<1>3. Exists(n)' /\ n # 0
  BY <1>1, PullsStay DEF Exists
<1>4. PlanFits(p)'
  BY <1>1, <1>2, <1>3 DEF PlanFits
<1> QED
  BY <1>1, <1>4

LEMMA RowMoved ==
  ASSUME DeliveryInv, HostMay, SeenGrows, NEW j \in Jobs, job[j].pc # "idle", NEW from,
         NEW st \in PlanStates \ {"none", "prepared"}, RowMoves(j, from, st),
         st \in {"merged", "merged_unverified"} => PlanOf(j).pull # 0 /\ MergedWith(PlanOf(j).pull, job[j].p),
         st = "merged" => job[j].p \in seen'
  PROVE  PlansMay /\ \A q \in DPlans : dplan'[q] = dplan[q] \/ PlanFits(q)'
<1>1. job[j].p \in DPlans /\ dplan[job[j].p].st # "none"
  BY DEF DeliveryInv, CallFits
<1>2. CASE PlanOf(j).st \in from
  BY <1>1, <1>2, RowFits DEF RowMoves, PlanOf
<1>3. CASE PlanOf(j).st \notin from
  BY <1>3, PlansStay DEF RowMoves
<1> QED
  BY <1>2, <1>3

\* A step of one call that ends it or moves it on, and publishes nothing.
LEMMA QuietStep ==
  ASSUME DeliveryInv, HostMay, NoneOpened, PlansMay, SeenGrows, UNCHANGED <<Patching, sends, local>>,
         late' \subseteq (1..MaxPulls) \X Commits,
         job' \in [Jobs -> CallRows], Calm, \A k \in Jobs : job'[k] = job[k] \/ CallFits(k)',
         \A q \in DPlans : dplan'[q] = dplan[q] \/ PlanFits(q)'
  PROVE  DeliveryInv'
<1>1. PatchKept /\ local' \in Commits /\ sends' = sends
  BY RestStays
<1> QED
  BY <1>1, CalmStep

LEMMA PrepareStep ==
  ASSUME DeliveryInv, NEW p \in DPlans, Prepare(p)
  PROVE  DeliveryInv'
<1>0. HostMay /\ NoneOpened /\ late' \subseteq (1..MaxPulls) \X Commits
  BY HostStays DEF Prepare
<1>1. job' \in [Jobs -> CallRows] /\ Calm /\ \A k \in Jobs : job'[k] = job[k]
  BY CallsStay DEF Prepare
<1>2. SeenGrows
  BY RestStays DEF Prepare
<1>3. dplan \in [DPlans -> PlanRows] /\ local \in Commits /\ dplan[p].st = "none" /\ MaxCommits \in Nat
  BY DeliveryAssumption DEF DeliveryInv, DeliveryTyped, Prepare
<1>4. dplan[p].pull = 0
  BY <1>3 DEF DeliveryInv, PlanFits
<1>5. PlansMay /\ \A q \in DPlans : dplan'[q] = dplan[q] \/ PlanFits(q)'
  <2>1. CASE dplan' = [dplan EXCEPT ![p] = [st |-> "prepared", head |-> local, prev |-> 0, pull |-> 0]]
    <3>1. [st |-> "prepared", head |-> local, prev |-> 0, pull |-> 0] \in PlanRows
      BY <1>3, DeliveryAssumption DEF PlanRows, PlanStates, Commits
    <3>2. dplan' \in [DPlans -> PlanRows] /\ dplan'[p] = [st |-> "prepared", head |-> local, prev |-> 0, pull |-> 0]
          /\ \A q \in DPlans : q # p => dplan'[q] = dplan[q]
      BY <1>3, <2>1, <3>1
    <3>3. PlansMay
      BY <1>3, <1>4, <3>2 DEF PlansMay
    <3>4. PlanFits(p)'
      BY <1>3, <3>2 DEF PlanFits
    <3> QED
      BY <3>2, <3>3, <3>4
  <2>2. ASSUME NEW q \in DPlans, dplan[q].st \in Observable, dplan[q].pull # 0,
               dplan' = [dplan EXCEPT ![p] = [st |-> "prepared", head |-> local, prev |-> dplan[q].head, pull |-> dplan[q].pull]]
        PROVE  PlansMay /\ \A r \in DPlans : dplan'[r] = dplan[r] \/ PlanFits(r)'
    <3> DEFINE row == [st |-> "prepared", head |-> local, prev |-> dplan[q].head, pull |-> dplan[q].pull]
    <3>0. dplan[q] \in PlanRows
      BY <1>3
    <3>1. row \in PlanRows
      BY <1>3, <3>0 DEF PlanRows, PlanStates, Commits
    <3>2. dplan' \in [DPlans -> PlanRows] /\ dplan'[p] = row /\ \A r \in DPlans : r # p => dplan'[r] = dplan[r]
      BY <1>3, <2>2, <3>1
    <3>3. PlansMay
      BY <1>3, <1>4, <3>2 DEF PlansMay
    <3>4. Exists(dplan[q].pull) /\ dplan[q].pull \in {0, 1} \cap (0..MaxPulls)
      BY <2>2, <3>0 DEF DeliveryInv, PlanFits, PlanRows
    <3>5. Exists(dplan[q].pull)'
      BY <1>0, <2>2, <3>4 DEF Exists, Prepare, Host
    <3>6. PlanFits(p)'
      <4>1. dplan'[p].st = "prepared" /\ dplan'[p].head = local /\ dplan'[p].pull = dplan[q].pull
        BY <3>2
      <4>2. pulls' = pulls
        BY DEF Prepare, Host
      <4>3. Exists(dplan[p].pull)'
        BY <3>4, <4>1, <4>2 DEF Exists
      <4> QED
        BY <1>3, <2>2, <4>1, <4>3 DEF PlanFits
    <3> QED
      BY <3>2, <3>3, <3>6
  <2> QED
    BY <2>1, <2>2 DEF Prepare
<1> QED
  BY <1>0, <1>1, <1>2, <1>5, QuietStep DEF Prepare

LEMMA AbandonStep ==
  ASSUME DeliveryInv, NEW p \in DPlans, Abandon(p)
  PROVE  DeliveryInv'
<1>0. HostMay /\ NoneOpened /\ late' \subseteq (1..MaxPulls) \X Commits
  BY HostStays DEF Abandon
<1>1. job' \in [Jobs -> CallRows] /\ Calm /\ \A k \in Jobs : job'[k] = job[k]
  BY CallsStay DEF Abandon
<1>2. SeenGrows
  BY RestStays DEF Abandon
<1>3. dplan[p].st # "none" /\ "abandoned" \in PlanStates \ {"none", "prepared"}
  BY DEF Abandon, Unsettled, PlanStates
<1>4. PlansMay /\ \A q \in DPlans : dplan'[q] = dplan[q] \/ PlanFits(q)'
  BY <1>0, <1>2, <1>3, RowFits DEF Abandon, Row
<1> QED
  BY <1>0, <1>1, <1>2, <1>4, QuietStep DEF Abandon

\* The steps that end a call.
LEMMA EndStep ==
  ASSUME DeliveryInv, NEW j \in Jobs, JobEnds(j), HostMay, NoneOpened, PlansMay, SeenGrows,
         UNCHANGED <<Patching, sends, local>>, late' \subseteq (1..MaxPulls) \X Commits,
         \A q \in DPlans : dplan'[q] = dplan[q] \/ PlanFits(q)'
  PROVE  DeliveryInv'
<1>1. job' \in [Jobs -> CallRows] /\ Calm /\ \A k \in Jobs : job'[k] = job[k] \/ CallFits(k)'
  BY CallEnds
<1> QED
  BY <1>1, QuietStep

\* A step that ends a call leaves the host alone.
LEMMA EndsAlone ==
  ASSUME DeliveryInv, UNCHANGED <<Host, seen, Patching>>
  PROVE  HostMay /\ NoneOpened /\ late' \subseteq (1..MaxPulls) \X Commits /\ SeenGrows
BY HostStays, RestStays

LEMMA CrashStep ==
  ASSUME DeliveryInv, NEW j \in Jobs, JobCrashes(j)
  PROVE  DeliveryInv'
<1>1. HostMay /\ NoneOpened /\ late' \subseteq (1..MaxPulls) \X Commits /\ SeenGrows
  BY EndsAlone DEF JobCrashes
<1>2. PlansMay /\ \A q \in DPlans : dplan'[q] = dplan[q]
  BY PlansStay DEF JobCrashes
<1> QED
  BY <1>1, <1>2, EndStep DEF JobCrashes

LEMMA FailStep ==
  ASSUME DeliveryInv, NEW j \in Jobs, JobFails(j)
  PROVE  DeliveryInv'
<1>1. HostMay /\ NoneOpened /\ late' \subseteq (1..MaxPulls) \X Commits /\ SeenGrows
  BY EndsAlone DEF JobFails
<1>2. job[j].pc # "idle" /\ "needs_reconciliation" \in PlanStates \ {"none", "prepared"}
  BY DEF JobFails, JobAt, PlanStates, Unsettled
<1>3. PlansMay /\ \A q \in DPlans : dplan'[q] = dplan[q] \/ PlanFits(q)'
  BY <1>1, <1>2, RowMoved DEF JobFails
<1> QED
  BY <1>1, <1>3, EndStep DEF JobFails

LEMMA MergeRecordStep ==
  ASSUME DeliveryInv, NEW j \in Jobs, MergeRecords(j)
  PROVE  DeliveryInv'
<1>1. HostMay /\ NoneOpened /\ late' \subseteq (1..MaxPulls) \X Commits /\ SeenGrows
  BY EndsAlone DEF MergeRecords
<1>2. job[j].pc = "merged" /\ "merged" \in PlanStates \ {"none", "prepared"} /\ seen' = seen
  BY DEF MergeRecords, JobAt, PlanStates
<1>3. PlanOf(j).pull # 0 /\ MergedWith(PlanOf(j).pull, job[j].p) /\ job[j].p \in seen
  BY <1>2 DEF DeliveryInv, CallFits
<1>4. PlansMay /\ \A q \in DPlans : dplan'[q] = dplan[q] \/ PlanFits(q)'
  BY <1>1, <1>2, <1>3, RowMoved DEF MergeRecords
<1> QED
  BY <1>1, <1>4, EndStep DEF MergeRecords

LEMMA InspectRecordStep ==
  ASSUME DeliveryInv, NEW j \in Jobs, InspectRecords(j)
  PROVE  DeliveryInv'
<1>1. HostMay /\ NoneOpened /\ late' \subseteq (1..MaxPulls) \X Commits /\ SeenGrows
  BY EndsAlone DEF InspectRecords
<1>2. job[j].pc # "idle"
  BY DEF InspectRecords, JobAt
<1>3. PICK st \in Verdicts(j) : RowMoves(j, {job[j].read}, st)
  BY DEF InspectRecords
<1>4. st \in PlanStates \ {"none", "prepared"} /\ st \notin {"merged", "merged_unverified"}
  BY DEF Verdicts, PlanStates, Observable
<1>5. PlansMay /\ \A q \in DPlans : dplan'[q] = dplan[q] \/ PlanFits(q)'
  BY <1>1, <1>2, <1>3, <1>4, RowMoved
<1> QED
  BY <1>1, <1>5, EndStep DEF InspectRecords

LEMMA PublishRecordStep ==
  ASSUME DeliveryInv, NEW j \in Jobs, PublishRecords(j)
  PROVE  DeliveryInv'
<1>1. HostMay /\ NoneOpened /\ late' \subseteq (1..MaxPulls) \X Commits /\ SeenGrows
  BY EndsAlone DEF PublishRecords
<1>2. job[j].p \in DPlans /\ dplan[job[j].p].st # "none" /\ Exists(job[j].n) /\ job[j].n \in {0, 1} \cap (0..MaxPulls)
  BY DEF PublishRecords, JobAt, DeliveryInv, DeliveryTyped, CallFits, CallRows
<1>3. PlansMay /\ \A q \in DPlans : dplan'[q] = dplan[q] \/ PlanFits(q)'
  BY <1>1, <1>2, PublishedFits, PlansStay DEF PublishRecords
<1> QED
  BY <1>1, <1>3, EndStep DEF PublishRecords

LEMMA ReconcileRecordStep ==
  ASSUME DeliveryInv, NEW j \in Jobs, ReconcileRecords(j)
  PROVE  DeliveryInv'
<1>1. HostMay /\ NoneOpened /\ late' \subseteq (1..MaxPulls) \X Commits /\ SeenGrows
  BY EndsAlone DEF ReconcileRecords
<1>2. job[j].p \in DPlans /\ dplan[job[j].p].st # "none" /\ job[j].n \in {0, 1} \cap (0..MaxPulls)
  BY DEF ReconcileRecords, DeliveryInv, DeliveryTyped, CallFits, CallRows
<1>3. PlansMay /\ \A q \in DPlans : dplan'[q] = dplan[q] \/ PlanFits(q)'
  <2>1. CASE PlanOf(j).st # job[j].read
    BY <2>1, PlansStay DEF ReconcileRecords
  <2>2. CASE PlanOf(j).st = job[j].read /\ job[j].pc = "settle"
    <3>1. Exists(job[j].n) /\ dplan' = [dplan EXCEPT ![job[j].p].st = "published", ![job[j].p].pull = job[j].n]
      BY <2>2 DEF ReconcileRecords, DeliveryInv, CallFits, JobAt
    <3> QED
      BY <1>1, <1>2, <3>1, PublishedFits
  <2>3. CASE PlanOf(j).st = job[j].read /\ job[j].pc # "settle"
    <3>1. job[j].pc = "unverified" /\ dplan' = [dplan EXCEPT ![job[j].p].st = "merged_unverified"]
      BY <2>3 DEF ReconcileRecords, JobAt
    <3>2. PlanOf(j).pull # 0 /\ MergedWith(PlanOf(j).pull, job[j].p)
      BY <3>1 DEF DeliveryInv, CallFits
    <3>3. "merged_unverified" \in PlanStates \ {"none", "prepared"}
      BY DEF PlanStates
    <3> QED
      BY <1>1, <1>2, <3>1, <3>2, <3>3, RowFits DEF PlanOf
  <2> QED
    BY <2>1, <2>2, <2>3
<1> QED
  BY <1>1, <1>3, EndStep DEF ReconcileRecords

\* The steps that move one call on without publishing.
LEMMA MoveStep ==
  ASSUME DeliveryInv, NEW j \in Jobs, HostMay, NoneOpened, PlansMay, SeenGrows,
         UNCHANGED <<Patching, sends, local>>, late' \subseteq (1..MaxPulls) \X Commits,
         \A q \in DPlans : dplan'[q] = dplan[q] \/ PlanFits(q)',
         job' \in [Jobs -> CallRows], Calm, \A k \in Jobs : k # j => job'[k] = job[k], CallFits(j)'
  PROVE  DeliveryInv'
<1>1. \A k \in Jobs : job'[k] = job[k] \/ CallFits(k)'
  OBVIOUS
<1> QED
  BY <1>1, QuietStep

LEMMA BeginStep ==
  ASSUME DeliveryInv, NEW j \in Jobs, NEW p \in DPlans, PublishBegins(j, p)
  PROVE  DeliveryInv'
<1>1. HostMay /\ NoneOpened /\ late' \subseteq (1..MaxPulls) \X Commits /\ SeenGrows
  BY EndsAlone DEF PublishBegins
<1>2. PlansMay /\ \A q \in DPlans : dplan'[q] = dplan[q]
  BY PlansStay DEF PublishBegins
<1> DEFINE row == [IdleJob EXCEPT !.p = p, !.pc = "claim"]
<1>3. row \in CallRows /\ row.pc = "claim" /\ row.p = p
  <2>1. IdleJob \in CallRows
    BY DeliveryAssumption DEF IdleJob, CallRows, JobPcs
  <2> QED
    BY <2>1 DEF CallRows, JobPcs
<1>4. job' = [job EXCEPT ![j] = row]
  BY DEF PublishBegins
<1> HIDE DEF row
<1>5. job' \in [Jobs -> CallRows] /\ job'[j] = row /\ Calm /\ \A k \in Jobs : k # j => job'[k] = job[k]
  BY <1>3, <1>4, CallBecomes
<1>6. CallFits(j)'
  BY <1>2, <1>3, <1>5 DEF CallFits, PublishBegins
<1> QED
  BY <1>1, <1>2, <1>5, <1>6, MoveStep DEF PublishBegins

LEMMA LookStep ==
  ASSUME DeliveryInv, NEW j \in Jobs, NEW p \in DPlans, NEW why \in {"inspect", "merge"}, Look(j, p, why)
  PROVE  DeliveryInv'
<1>1. HostMay /\ NoneOpened /\ late' \subseteq (1..MaxPulls) \X Commits /\ SeenGrows
  BY EndsAlone DEF Look
<1>2. PlansMay /\ \A q \in DPlans : dplan'[q] = dplan[q]
  BY PlansStay DEF Look
<1>3. dplan[p] \in PlanRows /\ dplan[p].st \in Observable /\ dplan[p].pull # 0
  BY DEF Look, Observable, DeliveryInv, DeliveryTyped
<1>4. PICK saw \in {"", "other", "green", "red"} :
        job' = [job EXCEPT ![j] = [p |-> p, pc |-> why, read |-> dplan[p].st, n |-> dplan[p].pull, saw |-> saw]]
  BY DEF Look
<1> DEFINE row == [p |-> p, pc |-> why, read |-> dplan[p].st, n |-> dplan[p].pull, saw |-> saw]
<1>5. row \in CallRows /\ row.pc = why /\ row.p = p /\ row.n = dplan[p].pull
  BY <1>3 DEF CallRows, JobPcs, PlanRows
<1>6. job' = [job EXCEPT ![j] = row]
  BY <1>4
<1> HIDE DEF row
<1>7. job' \in [Jobs -> CallRows] /\ job'[j] = row /\ Calm /\ \A k \in Jobs : k # j => job'[k] = job[k]
  BY <1>5, <1>6, CallBecomes
<1>8. dplan[p].st # "none"
  BY <1>3 DEF Observable
<1>9. CallFits(j)'
  BY <1>2, <1>3, <1>5, <1>7, <1>8 DEF CallFits, PlanOf
<1> QED
  BY <1>1, <1>2, <1>7, <1>9, MoveStep DEF Look

\* A branch has at most one pull request that is open: the first.
LEMMA OpenIsFirst ==
  ASSUME DeliveryInv, NEW n \in OpenPulls
  PROVE  n = 1 /\ n \in {0, 1} \cap (0..MaxPulls)
<1>1. n \in 1..MaxPulls /\ pulls[n].st # "none"
  BY DEF OpenPulls
<1> QED
  BY <1>1, DeliveryAssumption DEF DeliveryInv, OneBranch

LEMMA ReconcileStep ==
  ASSUME DeliveryInv, NEW j \in Jobs, NEW p \in DPlans, Reconcile(j, p)
  PROVE  DeliveryInv'
<1>1. HostMay /\ NoneOpened /\ late' \subseteq (1..MaxPulls) \X Commits /\ SeenGrows
  BY EndsAlone DEF Reconcile
<1>2. PlansMay /\ \A q \in DPlans : dplan'[q] = dplan[q]
  BY PlansStay DEF Reconcile
<1>3. dplan[p] \in PlanRows /\ dplan[p].st \in Unsettled /\ dplan[p].st # "none" /\ PlanFits(p)
  BY DEF Reconcile, Unsettled, DeliveryInv, DeliveryTyped
<1>4. PICK n \in Found(p) :
        /\ pulls[n].sha = dplan[p].head
        /\ \/ pulls[n].st = "merged"
           \/ pulls[n].st = "open" /\ branch = dplan[p].head
        /\ job' = [job EXCEPT ![j] = [p |-> p, pc |-> IF pulls[n].st = "merged" THEN "unverified" ELSE "settle",
                                      read |-> dplan[p].st, saw |-> "", n |-> n]]
  BY DEF Reconcile
<1>5. n \in {0, 1} \cap (0..MaxPulls) /\ n # 0
  <2>1. CASE dplan[p].pull # 0
    BY <1>3, <2>1 DEF Found, PlanRows
  <2>2. CASE dplan[p].pull = 0
    <3>1. n \in OpenPulls
      BY <2>2 DEF Found
    <3> QED
      BY <3>1, OpenIsFirst
  <2> QED
    BY <2>1, <2>2
<1> DEFINE row == [p |-> p, pc |-> IF pulls[n].st = "merged" THEN "unverified" ELSE "settle",
                   read |-> dplan[p].st, saw |-> "", n |-> n]
<1>6. row \in CallRows /\ row.p = p /\ row.n = n /\ row.pc \in {"unverified", "settle"}
      /\ (row.pc = "unverified" => pulls[n].st = "merged")
  BY <1>3, <1>5 DEF CallRows, JobPcs
<1>7. job' = [job EXCEPT ![j] = row]
  BY <1>4
<1> HIDE DEF row
<1>8. job' \in [Jobs -> CallRows] /\ job'[j] = row /\ Calm /\ \A k \in Jobs : k # j => job'[k] = job[k]
  BY <1>6, <1>7, CallBecomes
<1>9. pulls[n].st # "none" /\ pulls' = pulls /\ seen' = seen
  BY <1>4 DEF Reconcile, Host
<1>10. ASSUME pulls[n].st = "merged" PROVE n = dplan[p].pull /\ pulls[n] = [st |-> "merged", sha |-> dplan[p].head]
  <2>1. n \notin OpenPulls
    BY <1>10 DEF OpenPulls
  <2>2. pulls[n] \in PullRows
    BY <1>5, DeliveryAssumption DEF DeliveryInv, DeliveryTyped
  <2> QED
    BY <1>4, <1>10, <2>1, <2>2 DEF Found, PullRows
<1>11. CallFits(j)'
  <2>1. job'[j].p = p /\ job'[j].n = n /\ job'[j].pc \in {"unverified", "settle"} /\ dplan'[p] = dplan[p]
    BY <1>2, <1>6, <1>8
  <2>2. job'[j].pc = "unverified" => n = dplan'[p].pull /\ pulls'[n] = [st |-> "merged", sha |-> dplan'[p].head]
    BY <1>6, <1>8, <1>9, <1>10, <2>1
  <2> QED
    BY <1>3, <1>5, <1>9, <2>1, <2>2 DEF CallFits, PlanOf, Exists, MergedWith
<1> QED
  BY <1>1, <1>2, <1>8, <1>11, MoveStep DEF Reconcile

LEMMA MergeClaimStep ==
  ASSUME DeliveryInv, NEW j \in Jobs, MergeClaims(j)
  PROVE  DeliveryInv'
<1>1. HostMay /\ NoneOpened /\ late' \subseteq (1..MaxPulls) \X Commits
  BY HostStays DEF MergeClaims
<1>2. job[j].pc = "merge" /\ job[j].p \in DPlans /\ dplan[job[j].p].st # "none" /\ job[j].n # 0 /\ job[j].n = PlanOf(j).pull
  BY DEF MergeClaims, JobAt, DeliveryInv, CallFits
<1>3. CASE FoundReady(j) /\ PlanOf(j).st = "ready"
  <2>1. Row(job[j].p, "merging") /\ JobGoes(j, "merging") /\ seen' = seen \cup {job[j].p}
    BY <1>3 DEF MergeClaims
  <2>2. SeenGrows
    BY <1>2, <2>1 DEF SeenGrows, DeliveryInv, DeliveryTyped
  <2>3. "merging" \in PlanStates \ {"none", "prepared"} /\ "merging" \in JobPcs
    BY DEF PlanStates, Unsettled, JobPcs
  <2>4. PlansMay /\ \A q \in DPlans : dplan'[q] = dplan[q] \/ PlanFits(q)'
    BY <1>1, <1>2, <2>1, <2>2, <2>3, RowFits DEF Row
  <2>5. job' \in [Jobs -> CallRows] /\ job'[j].pc = "merging" /\ job'[j].p = job[j].p /\ job'[j].n = job[j].n
        /\ Calm /\ \A k \in Jobs : k # j => job'[k] = job[k]
    BY <2>1, <2>3, CallGoes
  <2>6. dplan'[job[j].p].st # "none" /\ dplan'[job[j].p].pull = dplan[job[j].p].pull
    BY <1>2, <2>4 DEF PlansMay, PlanOf
  <2>7. CallFits(j)'
    BY <1>2, <2>1, <2>5, <2>6 DEF CallFits, PlanOf
  <2> QED
    BY <1>1, <2>2, <2>4, <2>5, <2>7, MoveStep DEF MergeClaims
<1>4. CASE ~(FoundReady(j) /\ PlanOf(j).st = "ready")
  <2>1. JobEnds(j) /\ seen' = seen /\ \E st \in Verdicts(j) : RowMoves(j, {"ready"}, st)
    BY <1>4 DEF MergeClaims
  <2>2. SeenGrows
    BY <2>1, RestStays
  <2>3. PICK st \in Verdicts(j) : RowMoves(j, {"ready"}, st)
    BY <2>1
  <2>4. st \in PlanStates \ {"none", "prepared"} /\ st \notin {"merged", "merged_unverified"}
    BY DEF Verdicts, PlanStates, Observable
  <2>5. PlansMay /\ \A q \in DPlans : dplan'[q] = dplan[q] \/ PlanFits(q)'
    BY <1>1, <1>2, <2>2, <2>3, <2>4, RowMoved
  <2> QED
    BY <1>1, <2>1, <2>2, <2>5, EndStep DEF MergeClaims
<1> QED
  BY <1>3, <1>4

LEMMA MergeCallStep ==
  ASSUME DeliveryInv, NEW j \in Jobs, MergeCall(j)
  PROVE  DeliveryInv'
<1>1. job[j].pc = "merging" /\ job[j].p \in DPlans /\ dplan[job[j].p].st # "none" /\ job[j].n # 0
      /\ job[j].n = PlanOf(j).pull /\ job[j].p \in seen /\ job[j].n \in {0, 1} \cap (0..MaxPulls)
  BY DEF MergeCall, JobAt, DeliveryInv, DeliveryTyped, CallFits, CallRows
<1>2. PlansMay /\ \A q \in DPlans : dplan'[q] = dplan[q]
  BY PlansStay DEF MergeCall
<1>3. SeenGrows /\ seen' = seen
  BY RestStays DEF MergeCall
<1>4. "merged" \in JobPcs /\ "fail" \in JobPcs /\ job[j].n \in 1..MaxPulls
  BY <1>1, DeliveryAssumption DEF JobPcs
<1>5. pulls \in [1..MaxPulls -> PullRows] /\ late \subseteq (1..MaxPulls) \X Commits /\ PlanOf(j).head \in Commits
  BY <1>1 DEF DeliveryInv, DeliveryTyped, PlanFits, PlanOf
<1>6. branch' = branch /\ branch \in 0..Foreign
  BY DEF MergeCall, DeliveryInv, DeliveryTyped
<1>7. CASE ShaMatches(job[j].n, PlanOf(j).head) /\ pulls' = [pulls EXCEPT ![job[j].n].st = "merged"]
           /\ JobGoes(j, "merged") /\ late' = late
  <2>1. pulls[job[j].n] = [st |-> "open", sha |-> PlanOf(j).head]
    BY <1>7 DEF ShaMatches
  <2>2. pulls'[job[j].n] = [st |-> "merged", sha |-> PlanOf(j).head] /\ pulls' \in [1..MaxPulls -> PullRows]
        /\ \A n \in 1..MaxPulls : n # job[j].n => pulls'[n] = pulls[n]
    <3>1. pulls[job[j].n] \in PullRows
      BY <1>4, <1>5
    <3>2. [pulls[job[j].n] EXCEPT !.st = "merged"] = [st |-> "merged", sha |-> PlanOf(j).head]
      BY <2>1
    <3>3. [st |-> "merged", sha |-> PlanOf(j).head] \in PullRows
      BY <2>1, <3>1 DEF PullRows
    <3>4. pulls' = [pulls EXCEPT ![job[j].n] = [st |-> "merged", sha |-> PlanOf(j).head]]
      BY <1>4, <1>5, <1>7, <3>2
    <3> QED
      BY <1>4, <1>5, <3>3, <3>4
  <2>3. HostMay /\ NoneOpened
    BY <1>6, <2>1, <2>2 DEF HostMay, NoneOpened
  <2>4. job' \in [Jobs -> CallRows] /\ job'[j].pc = "merged" /\ job'[j].p = job[j].p /\ job'[j].n = job[j].n
        /\ Calm /\ \A k \in Jobs : k # j => job'[k] = job[k]
    BY <1>4, <1>7, CallGoes
  <2>5. CallFits(j)'
    BY <1>1, <1>2, <1>3, <2>2, <2>4 DEF CallFits, PlanOf, MergedWith
  <2> QED
    BY <1>2, <1>3, <1>5, <1>7, <2>3, <2>4, <2>5, MoveStep DEF MergeCall
<1>8. CASE JobGoes(j, "fail") /\ pulls' = pulls /\ (late' = late \/ late' = late \cup {<<job[j].n, PlanOf(j).head>>})
  <2>1. HostMay /\ NoneOpened
    BY <1>5, <1>6, <1>8 DEF HostMay, NoneOpened
  <2>2. late' \subseteq (1..MaxPulls) \X Commits
    BY <1>4, <1>5, <1>8
  <2>3. job' \in [Jobs -> CallRows] /\ job'[j].pc = "fail" /\ job'[j].p = job[j].p
        /\ Calm /\ \A k \in Jobs : k # j => job'[k] = job[k]
    BY <1>4, <1>8, CallGoes
  <2>4. CallFits(j)'
    BY <1>1, <1>2, <2>3 DEF CallFits
  <2> QED
    BY <1>2, <1>3, <2>1, <2>2, <2>3, <2>4, MoveStep DEF MergeCall
<1> QED
  BY <1>7, <1>8 DEF MergeCall

\* What others do, and what the host does late.
LEMMA OutsideStep ==
  ASSUME DeliveryInv, HostMay, NoneOpened, UNCHANGED <<dplan, job, sends, seen, Patching>>,
         late' \subseteq (1..MaxPulls) \X Commits, local' \in Commits
  PROVE  DeliveryInv'
<1>1. PlansMay /\ (\A q \in DPlans : dplan'[q] = dplan[q]) /\ SeenGrows /\ PatchKept
  BY PlansStay, RestStays
<1>2. job' \in [Jobs -> CallRows] /\ Calm /\ \A k \in Jobs : job'[k] = job[k]
  BY CallsStay
<1> QED
  BY <1>1, <1>2, CalmStep

LEMMA CommitStep ==
  ASSUME DeliveryInv, LocalCommit
  PROVE  DeliveryInv'
<1>1. HostMay /\ NoneOpened /\ late' \subseteq (1..MaxPulls) \X Commits
  BY HostStays DEF LocalCommit
<1>2. local' \in Commits
  BY DeliveryAssumption DEF LocalCommit, DeliveryInv, DeliveryTyped, Commits
<1> QED
  BY <1>1, <1>2, OutsideStep DEF LocalCommit

\* A push moves the pull requests that are open, and none else.
LEMMA PushedPulls ==
  ASSUME DeliveryInv, NEW sha \in 0..Foreign, sha # 0, branch' = sha, pulls' = Pushed(sha)
  PROVE  HostMay /\ NoneOpened
<1>1. pulls \in [1..MaxPulls -> PullRows]
  BY DEF DeliveryInv, DeliveryTyped
<1>2. \A n \in 1..MaxPulls : [pulls[n] EXCEPT !.sha = sha] \in PullRows /\ [pulls[n] EXCEPT !.sha = sha].st = pulls[n].st
  BY <1>1 DEF PullRows
<1>3. \A n \in 1..MaxPulls : pulls'[n] = IF n \in OpenPulls THEN [pulls[n] EXCEPT !.sha = sha] ELSE pulls[n]
  BY DEF Pushed
<1>4. \A n \in 1..MaxPulls : pulls'[n] \in PullRows /\ pulls'[n].st = pulls[n].st
  BY <1>1, <1>2, <1>3
<1>5. pulls' \in [1..MaxPulls -> PullRows]
  BY <1>4 DEF Pushed
<1>6. \A n \in 1..MaxPulls : pulls[n].st = "merged" => pulls'[n] = pulls[n]
  BY <1>3 DEF OpenPulls
<1> QED
  BY <1>4, <1>5, <1>6 DEF HostMay, NoneOpened

LEMMA ForeignPushStep ==
  ASSUME DeliveryInv, ForeignPush
  PROVE  DeliveryInv'
<1>1. Foreign \in 0..Foreign /\ Foreign # 0
  BY DeliveryAssumption DEF Foreign
<1>2. HostMay /\ NoneOpened
  BY <1>1, PushedPulls DEF ForeignPush
<1> QED
  BY <1>2, OutsideStep DEF ForeignPush, DeliveryInv, DeliveryTyped

LEMMA CheckedStep ==
  ASSUME DeliveryInv, NEW c \in Commits, Checked(c)
  PROVE  DeliveryInv'
<1>1. HostMay /\ NoneOpened
  BY DEF Checked, DeliveryInv, DeliveryTyped, HostMay, NoneOpened
<1> QED
  BY <1>1, OutsideStep DEF Checked, DeliveryInv, DeliveryTyped

\* An open pull request is closed or merged.
LEMMA PullEnds ==
  ASSUME DeliveryInv, NEW n \in 1..MaxPulls, pulls[n].st = "open", NEW st \in {"closed", "merged"},
         pulls' = [pulls EXCEPT ![n].st = st], branch' = branch
  PROVE  HostMay /\ NoneOpened
<1>1. pulls \in [1..MaxPulls -> PullRows] /\ pulls[n] \in PullRows /\ branch \in 0..Foreign
  BY DEF DeliveryInv, DeliveryTyped
<1>2. pulls' = [pulls EXCEPT ![n] = [pulls[n] EXCEPT !.st = st]]
  BY <1>1
<1>3. [pulls[n] EXCEPT !.st = st] \in PullRows /\ [pulls[n] EXCEPT !.st = st].st = st
  BY <1>1 DEF PullRows
<1>4. pulls' \in [1..MaxPulls -> PullRows] /\ pulls'[n].st = st /\ \A m \in 1..MaxPulls : m # n => pulls'[m] = pulls[m]
  BY <1>1, <1>2, <1>3
<1> QED
  BY <1>1, <1>4 DEF HostMay, NoneOpened

LEMMA SettledStep ==
  ASSUME DeliveryInv, PullSettled
  PROVE  DeliveryInv'
<1>1. PICK n \in OpenPulls : \E st \in {"closed", "merged"} : pulls' = [pulls EXCEPT ![n].st = st]
  BY DEF PullSettled
<1>2. n \in 1..MaxPulls /\ pulls[n].st = "open"
  BY DEF OpenPulls
<1>3. HostMay /\ NoneOpened
  BY <1>1, <1>2, PullEnds DEF PullSettled
<1> QED
  BY <1>3, OutsideStep DEF PullSettled, DeliveryInv, DeliveryTyped

LEMMA LateMergeStep ==
  ASSUME DeliveryInv, LateMerge
  PROVE  DeliveryInv'
<1>1. PICK r \in late : late' = late \ {r}
                        /\ pulls' = IF ShaMatches(r[1], r[2]) THEN [pulls EXCEPT ![r[1]].st = "merged"] ELSE pulls
  BY DEF LateMerge
<1>2. late \subseteq (1..MaxPulls) \X Commits /\ r[1] \in 1..MaxPulls
  BY DEF DeliveryInv, DeliveryTyped
<1>3. late' \subseteq (1..MaxPulls) \X Commits
  BY <1>1, <1>2
<1>4. HostMay /\ NoneOpened
  <2>1. CASE ShaMatches(r[1], r[2])
    <3>1. pulls[r[1]].st = "open" /\ pulls' = [pulls EXCEPT ![r[1]].st = "merged"]
      BY <1>1, <2>1 DEF ShaMatches
    <3> QED
      BY <1>2, <3>1, PullEnds DEF LateMerge
  <2>2. CASE ~ShaMatches(r[1], r[2])
    <3>1. pulls' = pulls /\ branch' = branch
      BY <1>1, <2>2 DEF LateMerge
    <3> QED
      BY <3>1 DEF DeliveryInv, DeliveryTyped, HostMay, NoneOpened
  <2> QED
    BY <2>1, <2>2
<1> QED
  BY <1>3, <1>4, OutsideStep DEF LateMerge, DeliveryInv, DeliveryTyped

\* A plan is claimed by one call: no other was publishing it.
LEMMA ClaimStep ==
  ASSUME DeliveryInv, NEW j \in Jobs, PublishClaims(j)
  PROVE  DeliveryInv'
<1>1. HostMay /\ NoneOpened /\ late' \subseteq (1..MaxPulls) \X Commits /\ SeenGrows
  BY EndsAlone DEF PublishClaims
<1>2. job[j].pc = "claim" /\ job[j].p \in DPlans /\ dplan[job[j].p].st # "none"
  BY DEF PublishClaims, JobAt, DeliveryInv, CallFits
<1>3. CASE ~Claims(j)
  <2>1. JobEnds(j) /\ PlansMay /\ \A q \in DPlans : dplan'[q] = dplan[q]
    BY <1>3, PlansStay DEF PublishClaims
  <2> QED
    BY <1>1, <2>1, EndStep DEF PublishClaims
<1>4. CASE Claims(j)
  <2> DEFINE p == job[j].p
  <2>1. dplan[p].st = "prepared" /\ Row(p, "publishing") /\ JobGoes(j, "push")
    BY <1>4 DEF Claims, PublishClaims, PlanOf
  <2>2. "publishing" \in PlanStates \ {"none", "prepared"} /\ "push" \in JobPcs
    BY DEF PlanStates, Unsettled, JobPcs
  <2>3. PlansMay /\ \A q \in DPlans : dplan'[q] = dplan[q] \/ PlanFits(q)'
    BY <1>1, <1>2, <2>1, <2>2, RowFits DEF Row
  <2>4. dplan'[p].st = "publishing" /\ \A q \in DPlans : q # p => dplan'[q] = dplan[q]
    BY <1>2, <2>1, <2>2, RowBecomes DEF Row
  <2>5. job' \in [Jobs -> CallRows] /\ job'[j].pc = "push" /\ job'[j].p = p
        /\ \A k \in Jobs : k # j => job'[k] = job[k]
    BY <2>1, <2>2, CallGoes
  <2>6. CallFits(j)'
    BY <1>2, <2>4, <2>5 DEF CallFits
  <2>7. (\A q \in DPlans : PlanFits(q)') /\ \A k \in Jobs : CallFits(k)'
    BY <1>1, <2>3, <2>5, <2>6, OthersFit
  <2>8. OneBranch'
    <3>1. \A k \in Jobs : FirstPost(k)' => FirstPost(k)
      <4> SUFFICES ASSUME NEW k \in Jobs, FirstPost(k)' PROVE FirstPost(k)
        OBVIOUS
      <4>1. k # j
        BY <2>5 DEF FirstPost
      <4>2. job'[k] = job[k] /\ job[k].pc = "post"
        BY <2>5, <4>1 DEF FirstPost
      <4>3. job[k].p \in DPlans
        BY <4>2 DEF DeliveryInv, CallFits
      <4> QED
        BY <2>3, <4>2, <4>3 DEF FirstPost, PlanOf, PlansMay
    <3>2. UNCHANGED <<pulls, branch>>
      BY DEF PublishClaims, Host
    <3> QED
      BY <3>1, <3>2 DEF DeliveryInv, OneBranch
  <2>9. SentInv'
    <3>1. \A k \in Jobs, q \in DPlans : Publishing(k, q)' => (k = j /\ q = p) \/ (k # j /\ Publishing(k, q) /\ job'[k] = job[k])
      BY <2>5 DEF Publishing
    <3>2. sends' = sends /\ SentInv
      BY DEF PublishClaims, DeliveryInv
    <3>3. /\ sends[p].push = 0 /\ sends[p].post = 0 /\ \A k \in Jobs : ~Publishing(k, p)
      BY <1>2, <2>1, <3>2 DEF SentInv
    <3> SUFFICES ASSUME NEW q \in DPlans
                 PROVE  /\ dplan'[q].st \in {"none", "prepared"} =>
                             sends[q].push = 0 /\ sends[q].post = 0 /\ \A k \in Jobs : ~Publishing(k, q)'
                        /\ \A k \in Jobs : Publishing(k, q)' =>
                             /\ sends[q].post = 0 /\ (job'[k].pc = "push" => sends[q].push = 0)
                             /\ \A m \in Jobs : Publishing(m, q)' => m = k
                        /\ sends[q].push <= 1 /\ sends[q].post <= 1
      BY <3>2 DEF SentInv
    <3>4. CASE q = p
      BY <2>4, <3>1, <3>3, <3>4
    <3>5. CASE q # p
      BY <2>4, <3>1, <3>2, <3>5 DEF SentInv
    <3> QED
      BY <3>4, <3>5
  <2>10. DeliveryTyped' /\ PatchFits'
    BY <1>1, <2>3, <2>5, RestStays DEF PublishClaims, DeliveryInv, DeliveryTyped, HostMay, PlansMay, SeenGrows,
                                       PatchFits, Patching
  <2> QED
    BY <2>7, <2>8, <2>9, <2>10 DEF DeliveryInv
<1> QED
  BY <1>3, <1>4

\* What a push and a post have in common: the row stays, one count grows, the call goes on.
LEMMA SentStays ==
  ASSUME DeliveryInv, NEW j \in Jobs, dplan' = dplan, job[j].pc \in {"push", "post"},
         \A k \in Jobs : k # j => job'[k] = job[k], job'[j].p = job[j].p,
         \/ job[j].pc = "push" /\ job'[j].pc \notin {"push"} /\ sends' = [sends EXCEPT ![job[j].p].push = @ + 1]
         \/ job[j].pc = "post" /\ job'[j].pc \notin {"push", "post"} /\ sends' = [sends EXCEPT ![job[j].p].post = @ + 1]
  PROVE  SentInv' /\ sends' \in [DPlans -> [push : Nat, post : Nat]]
<1> DEFINE p == job[j].p
<1>1. p \in DPlans /\ sends \in [DPlans -> [push : Nat, post : Nat]] /\ SentInv
  BY DEF DeliveryInv, DeliveryTyped, CallFits
<1>2. Publishing(j, p)
  BY DEF Publishing
<1>3. /\ sends[p].post = 0 /\ (job[j].pc = "push" => sends[p].push = 0) /\ (\A k \in Jobs : Publishing(k, p) => k = j)
      /\ sends[p].push <= 1 /\ dplan[p].st \notin {"none", "prepared"}
  BY <1>1, <1>2 DEF SentInv
<1>4. sends[p] \in [push : Nat, post : Nat]
  BY <1>1
<1>5. /\ sends' \in [DPlans -> [push : Nat, post : Nat]] /\ \A q \in DPlans : q # p => sends'[q] = sends[q]
      /\ sends'[p].push <= 1 /\ sends'[p].post <= 1 /\ (job[j].pc = "push" => sends'[p].post = 0)
  <2>1. CASE job[j].pc = "push"
    <3>1. sends' = [sends EXCEPT ![p] = [sends[p] EXCEPT !.push = @ + 1]]
      BY <1>1, <2>1
    <3>2. [sends[p] EXCEPT !.push = @ + 1] \in [push : Nat, post : Nat]
          /\ [sends[p] EXCEPT !.push = @ + 1].push = 1 /\ [sends[p] EXCEPT !.push = @ + 1].post = 0
      BY <1>3, <1>4, <2>1
    <3>3. sends'[p] = [sends[p] EXCEPT !.push = @ + 1] /\ (\A q \in DPlans : q # p => sends'[q] = sends[q])
          /\ sends' \in [DPlans -> [push : Nat, post : Nat]]
      BY <1>1, <3>1, <3>2
    <3> QED
      BY <3>2, <3>3
  <2>2. CASE job[j].pc = "post"
    <3>1. sends' = [sends EXCEPT ![p] = [sends[p] EXCEPT !.post = @ + 1]]
      BY <1>1, <2>2
    <3>2. [sends[p] EXCEPT !.post = @ + 1] \in [push : Nat, post : Nat]
          /\ [sends[p] EXCEPT !.post = @ + 1].post = 1 /\ [sends[p] EXCEPT !.post = @ + 1].push = sends[p].push
      BY <1>3, <1>4, <2>2
    <3>3. sends'[p] = [sends[p] EXCEPT !.post = @ + 1] /\ (\A q \in DPlans : q # p => sends'[q] = sends[q])
          /\ sends' \in [DPlans -> [push : Nat, post : Nat]]
      BY <1>1, <3>1, <3>2
    <3> QED
      BY <1>3, <2>2, <3>2, <3>3
  <2> QED
    BY <2>1, <2>2
<1>6. \A k \in Jobs, q \in DPlans : Publishing(k, q)' =>
        \/ k = j /\ q = p /\ job[j].pc = "push" /\ job'[j].pc = "post"
        \/ k # j /\ q # p /\ Publishing(k, q) /\ job'[k] = job[k]
  BY <1>3 DEF Publishing
<1> SUFFICES ASSUME NEW q \in DPlans
             PROVE  /\ dplan[q].st \in {"none", "prepared"} =>
                         sends'[q].push = 0 /\ sends'[q].post = 0 /\ \A k \in Jobs : ~Publishing(k, q)'
                    /\ \A k \in Jobs : Publishing(k, q)' =>
                         /\ sends'[q].post = 0 /\ (job'[k].pc = "push" => sends'[q].push = 0)
                         /\ \A m \in Jobs : Publishing(m, q)' => m = k
                    /\ sends'[q].push <= 1 /\ sends'[q].post <= 1
  BY <1>5 DEF SentInv
<1>7. CASE q = p
  BY <1>3, <1>5, <1>6, <1>7
<1>8. CASE q # p
  BY <1>1, <1>5, <1>6, <1>8 DEF SentInv
<1> QED
  BY <1>7, <1>8

\* A push takes the branch from what the plan expects to its commit: a first push
\* finds none, so that no other call is about to open a pull request.
LEMMA PushStep ==
  ASSUME DeliveryInv, NEW j \in Jobs, Push(j)
  PROVE  DeliveryInv'
<1> DEFINE p == job[j].p
<1>1. job[j].pc = "push" /\ p \in DPlans /\ dplan[p].st # "none" /\ dplan[p] \in PlanRows /\ dplan[p].head \in Commits
  BY DEF Push, JobAt, DeliveryInv, DeliveryTyped, CallFits, PlanFits
<1>2. "post" \in JobPcs /\ "fail" \in JobPcs /\ dplan[p].head \in 0..Foreign /\ dplan[p].head # 0
  BY <1>1, DeliveryAssumption DEF JobPcs, Commits, Foreign
<1>3. PlansMay /\ (\A q \in DPlans : dplan'[q] = dplan[q]) /\ SeenGrows /\ PatchKept /\ local' \in Commits
  BY PlansStay, RestStays DEF Push
<1>4. PICK pc \in {"post", "fail"} :
        /\ JobGoes(j, pc)
        /\ \/ LeaseHolds(p) /\ branch' = dplan[p].head /\ pulls' = Pushed(dplan[p].head)
           \/ pc = "fail" /\ UNCHANGED <<branch, pulls>>
  BY DEF Push, PlanOf
<1>5. HostMay /\ NoneOpened
  <2>1. CASE branch' = dplan[p].head /\ pulls' = Pushed(dplan[p].head)
    BY <1>2, <2>1, PushedPulls
  <2>2. CASE UNCHANGED <<branch, pulls>>
    BY <2>2 DEF HostMay, NoneOpened, DeliveryInv, DeliveryTyped
  <2> QED
    BY <1>4, <2>1, <2>2
<1>6. job' \in [Jobs -> CallRows] /\ job'[j].pc = pc /\ job'[j].p = p /\ job'[j].n = job[j].n
      /\ \A k \in Jobs : k # j => job'[k] = job[k]
  BY <1>2, <1>4, CallGoes
<1>7. CallFits(j)'
  BY <1>1, <1>3, <1>6 DEF CallFits
<1>8. (\A q \in DPlans : PlanFits(q)') /\ \A k \in Jobs : CallFits(k)'
  BY <1>3, <1>5, <1>6, <1>7, OthersFit
<1>9. OneBranch'
  <2>1. \A n \in 1..MaxPulls : pulls'[n].st # "none" => pulls[n].st # "none"
    BY <1>5 DEF NoneOpened
  <2>2. \A k \in Jobs : k # j => (FirstPost(k)' => FirstPost(k))
    <3> SUFFICES ASSUME NEW k \in Jobs, k # j, FirstPost(k)' PROVE FirstPost(k)
      OBVIOUS
    <3>1. job'[k] = job[k] /\ dplan' = dplan
      BY <1>6 DEF Push
    <3> QED
      BY <3>1 DEF FirstPost, PlanOf
  <2>3. FirstPost(j)' => /\ branch = 0 /\ branch' # 0 /\ dplan[p].pull = 0
    <3> SUFFICES ASSUME FirstPost(j)' PROVE branch = 0 /\ branch' # 0 /\ dplan[p].pull = 0
      OBVIOUS
    <3>1. dplan[p].pull = 0 /\ pc = "post"
      BY <1>1, <1>3, <1>6 DEF FirstPost, PlanOf
    <3>2. dplan[p].prev = 0
      BY <1>1, <3>1 DEF DeliveryInv, PlanFits
    <3> QED
      BY <1>2, <1>4, <3>1, <3>2 DEF LeaseHolds
  <2>4. branch # 0 => branch' # 0
    BY <1>5 DEF HostMay
  <2>5. branch = 0 => (\A n \in 1..MaxPulls : pulls[n].st = "none") /\ \A k \in Jobs : ~FirstPost(k)
    BY DEF DeliveryInv, OneBranch
  <2>6. ASSUME NEW k \in Jobs, FirstPost(k)'
        PROVE  branch' # 0 /\ (\A n \in 1..MaxPulls : pulls'[n].st = "none") /\ \A m \in Jobs : FirstPost(m)' => m = k
    <3>1. CASE k = j
      BY <2>1, <2>2, <2>3, <2>5, <2>6, <3>1
    <3>2. CASE k # j
      <4>1. FirstPost(k)
        BY <2>2, <2>6, <3>2
      <4>2. branch # 0 /\ (\A n \in 1..MaxPulls : pulls[n].st = "none") /\ \A m \in Jobs : FirstPost(m) => m = k
        BY <4>1 DEF DeliveryInv, OneBranch
      <4> QED
        BY <2>1, <2>2, <2>3, <2>4, <4>2
    <3> QED
      BY <3>1, <3>2
  <2>7. \A n \in 1..MaxPulls : pulls'[n].st # "none" => n = 1 /\ branch' # 0
    BY <2>1, <2>4 DEF DeliveryInv, OneBranch
  <2> QED
    BY <2>6, <2>7 DEF OneBranch
<1>10. SentInv' /\ sends' \in [DPlans -> [push : Nat, post : Nat]]
  BY <1>1, <1>4, <1>6, SentStays DEF Push
<1>11. DeliveryTyped' /\ PatchFits'
  BY <1>3, <1>5, <1>6, <1>10 DEF Push, DeliveryInv, DeliveryTyped, HostMay, PlansMay, SeenGrows, PatchKept, PatchFits
<1> QED
  BY <1>8, <1>9, <1>10, <1>11 DEF DeliveryInv

\* After the post a call only records, or fails.
LEMMA PostEnds ==
  ASSUME DeliveryInv, NEW j \in Jobs, job[j].pc = "post", HostMay, NoneOpened \/ FirstPost(j),
         \A n \in 1..MaxPulls : pulls'[n].st # "none" => n = 1,
         NEW n \in {0, 1} \cap (0..MaxPulls),
         \/ JobGoes(j, "fail")
         \/ Exists(n)' /\ job' = [job EXCEPT ![j].pc = "record", ![j].n = n],
         sends' = [sends EXCEPT ![job[j].p].post = @ + 1],
         UNCHANGED <<local, dplan, branch, green, late, seen, Patching, events>>
  PROVE  DeliveryInv'
<1> DEFINE p == job[j].p
<1>1. p \in DPlans /\ dplan[p].st # "none" /\ dplan[p] \in PlanRows
  BY DEF DeliveryInv, DeliveryTyped, CallFits
<1>2. PlansMay /\ (\A q \in DPlans : dplan'[q] = dplan[q]) /\ SeenGrows /\ PatchKept /\ local' \in Commits
  BY PlansStay, RestStays
<1>3. /\ job' \in [Jobs -> CallRows] /\ job'[j].pc \in {"record", "fail"} /\ job'[j].p = p
      /\ (job'[j].pc = "record" => Exists(job[j].n)')
      /\ \A k \in Jobs : k # j => job'[k] = job[k]
  <2>1. CASE JobGoes(j, "fail")
    <3>1. "fail" \in JobPcs
      BY DEF JobPcs
    <3> QED
      BY <2>1, <3>1, CallGoes
  <2>2. CASE Exists(n)' /\ job' = [job EXCEPT ![j].pc = "record", ![j].n = n]
    <3> DEFINE row == [job[j] EXCEPT !.pc = "record", !.n = n]
    <3>1. job \in [Jobs -> CallRows] /\ job[j] \in CallRows
      BY DEF DeliveryInv, DeliveryTyped
    <3>2. job' = [job EXCEPT ![j] = row]
      BY <2>2, <3>1
    <3>3. row \in CallRows /\ row.pc = "record" /\ row.p = p /\ row.n = n
      BY <3>1 DEF CallRows, JobPcs
    <3> HIDE DEF row
    <3>4. job' \in [Jobs -> CallRows] /\ job'[j] = row /\ \A k \in Jobs : k # j => job'[k] = job[k]
      BY <3>2, <3>3, CallBecomes
    <3> QED
      BY <2>2, <3>3, <3>4 DEF Exists
  <2> QED
    BY <2>1, <2>2
<1>4. CallFits(j)'
  BY <1>1, <1>2, <1>3 DEF CallFits, Exists
<1>5. (\A q \in DPlans : PlanFits(q)') /\ \A k \in Jobs : CallFits(k)'
  BY <1>2, <1>3, <1>4, OthersFit
<1>6. OneBranch'
  <2>1. \A k \in Jobs : FirstPost(k)' => k # j /\ FirstPost(k)
    BY <1>3 DEF FirstPost, PlanOf
  <2>2. branch' = branch /\ (FirstPost(j) => branch # 0)
    BY DEF DeliveryInv, OneBranch
  <2>3. \A m \in 1..MaxPulls : pulls'[m].st # "none" => branch # 0
    BY <2>2 DEF DeliveryInv, OneBranch, NoneOpened
  <2>4. ASSUME NEW k \in Jobs, FirstPost(k)'
        PROVE  branch # 0 /\ (\A m \in 1..MaxPulls : pulls'[m].st = "none") /\ \A m \in Jobs : FirstPost(m)' => m = k
    <3>1. k # j /\ FirstPost(k)
      BY <2>1, <2>4
    <3>2. branch # 0 /\ (\A m \in 1..MaxPulls : pulls[m].st = "none") /\ \A m \in Jobs : FirstPost(m) => m = k
      BY <3>1 DEF DeliveryInv, OneBranch
    <3> QED
      BY <2>1, <3>1, <3>2 DEF NoneOpened
  <2> QED
    BY <2>2, <2>3, <2>4 DEF OneBranch
<1>7. SentInv' /\ sends' \in [DPlans -> [push : Nat, post : Nat]]
  BY <1>1, <1>3, SentStays
<1>8. DeliveryTyped' /\ PatchFits'
  BY <1>2, <1>3, <1>7 DEF DeliveryInv, DeliveryTyped, HostMay, PlansMay, SeenGrows, PatchKept, PatchFits
<1> QED
  BY <1>5, <1>6, <1>7, <1>8 DEF DeliveryInv

\* The call whose push was the first opens the first pull request, and nobody else opens one.
LEMMA PostStep ==
  ASSUME DeliveryInv, NEW j \in Jobs, PostPull(j)
  PROVE  DeliveryInv'
<1> DEFINE p == job[j].p
<1>1. job[j].pc = "post" /\ p \in DPlans /\ dplan[p] \in PlanRows /\ PlanFits(p)
  BY DEF PostPull, JobAt, DeliveryInv, DeliveryTyped, CallFits
<1>2. /\ branch' = branch /\ branch \in 0..Foreign /\ pulls \in [1..MaxPulls -> PullRows] /\ dplan' = dplan
      /\ 0 \in {0, 1} \cap (0..MaxPulls)
  BY DeliveryAssumption DEF PostPull, DeliveryInv, DeliveryTyped
<1>3. /\ sends' = [sends EXCEPT ![job[j].p].post = @ + 1]
      /\ UNCHANGED <<local, dplan, branch, green, late, seen, Patching, events>>
  BY DEF PostPull
<1>4. \A n \in 1..MaxPulls : pulls[n].st # "none" => n = 1
  BY DEF DeliveryInv, OneBranch
<1>5. ASSUME pulls' = pulls PROVE HostMay /\ NoneOpened /\ \A n \in 1..MaxPulls : pulls'[n].st # "none" => n = 1
  BY <1>2, <1>4, <1>5 DEF HostMay, NoneOpened
<1>6. CASE JobGoes(j, "fail") /\ pulls' = pulls
  BY <1>1, <1>2, <1>3, <1>5, <1>6, PostEnds
<1>7. CASE PlanOf(j).pull # 0 /\ pulls' = pulls /\ job' = [job EXCEPT ![j].pc = "record", ![j].n = PlanOf(j).pull]
  <2>1. Exists(PlanOf(j).pull) /\ PlanOf(j).pull \in {0, 1} \cap (0..MaxPulls)
    BY <1>1, <1>7 DEF PlanFits, PlanOf, PlanRows
  <2> DEFINE n == dplan[p].pull
  <2>2. n \in {0, 1} \cap (0..MaxPulls) /\ n # 0 /\ pulls'[n].st # "none" /\ job' = [job EXCEPT ![j].pc = "record", ![j].n = n]
    BY <1>7, <2>1 DEF Exists, PlanOf
  <2> HIDE DEF n
  <2>3. PICK m \in {0, 1} \cap (0..MaxPulls) : m = n
    BY <2>2
  <2>4. Exists(m)' /\ job' = [job EXCEPT ![j].pc = "record", ![j].n = m]
    BY <2>2, <2>3 DEF Exists
  <2> QED
    BY <1>1, <1>3, <1>5, <1>7, <2>4, PostEnds
<1>8. ASSUME PlanOf(j).pull = 0, NEW n \in 1..MaxPulls, pulls[n].st = "none",
             \A m \in 1..(n - 1) : pulls[m].st # "none",
             pulls' = [pulls EXCEPT ![n] = [st |-> "open", sha |-> branch]],
             \/ JobGoes(j, "fail")
             \/ job' = [job EXCEPT ![j].pc = "record", ![j].n = n]
      PROVE  DeliveryInv'
  <2>1. FirstPost(j)
    BY <1>1, <1>8 DEF FirstPost
  <2>2. \A m \in 1..MaxPulls : pulls[m].st = "none"
    BY <2>1 DEF DeliveryInv, OneBranch
  <2>3. n = 1
    <3>1. n # 1 => n - 1 \in 1..(n - 1) /\ n - 1 \in 1..MaxPulls
      BY DeliveryAssumption
    <3> QED
      BY <1>8, <2>2, <3>1
  <2>4. [st |-> "open", sha |-> branch] \in PullRows
    BY <1>2 DEF PullRows
  <2>5. pulls' \in [1..MaxPulls -> PullRows] /\ pulls'[n] = [st |-> "open", sha |-> branch]
        /\ \A m \in 1..MaxPulls : m # n => pulls'[m] = pulls[m]
    BY <1>2, <1>8, <2>4
  <2>6. HostMay /\ \A m \in 1..MaxPulls : pulls'[m].st # "none" => m = 1
    BY <1>2, <2>2, <2>3, <2>5 DEF HostMay
  <2>7. Exists(n)' /\ n \in {0, 1} \cap (0..MaxPulls)
    BY <2>3, <2>5, DeliveryAssumption DEF Exists
  <2> QED
    BY <1>1, <1>3, <1>8, <2>1, <2>6, <2>7, PostEnds
<1> QED
  BY <1>6, <1>7, <1>8 DEF PostPull

\* The patch and its files; nothing of the deliveries.
LEMMA PatchStep ==
  ASSUME DeliveryInv, PatchNext
  PROVE  DeliveryInv'
<1>1. patch \in PatchRows /\ file \in [PatchFiles -> {"before", "after", "foreign"}] /\ PatchFits
  BY DEF DeliveryInv, DeliveryTyped
<1>2. UNCHANGED Delivering
  BY DEF PatchNext, PatchPrepares, PatchBegins, PatchCompares, PatchReplaces, PatchUndoes, PatchRestores, PatchCrashes,
         PatchAbandoned, ForeignEdit, Compared
<1>3. ASSUME patch' \in PatchRows, file' \in [PatchFiles -> {"before", "after", "foreign"}], PatchFits'
      PROVE  DeliveryInv'
  <2>1. UNCHANGED <<local, dplan, job, branch, pulls, green, late, sends, seen>>
    BY <1>2 DEF Delivering, Host
  <2>2. DeliveryTyped'
    BY <1>3, <2>1 DEF DeliveryInv, DeliveryTyped
  <2>3. OneBranch' /\ SentInv'
    BY <2>1 DEF DeliveryInv, OneBranch, SentInv, FirstPost, PlanOf, Publishing
  <2>4. (\A p \in DPlans : PlanFits(p)') /\ \A j \in Jobs : CallFits(j)'
    BY <2>1 DEF DeliveryInv, PlanFits, CallFits, PlanOf, Exists, MergedWith
  <2> QED
    BY <1>3, <2>2, <2>3, <2>4 DEF DeliveryInv
<1>4. CASE PatchPrepares
  BY <1>1, <1>3, <1>4 DEF PatchPrepares, PatchRows, PatchFits
<1>5. CASE PatchBegins
  BY <1>1, <1>3, <1>5 DEF PatchBegins, PatchRows, PatchFits
<1>6. ASSUME NEW f \in PatchFiles, NEW pc \in {"replace", "restore"}, Compared(f, pc), file[f] # "foreign",
             patch.st \notin {"none", "prepared", "applied"},
             pc = "replace" => f \notin patch.written /\ patch.pc = "write"
      PROVE  DeliveryInv'
  <2>1. PICK m : m = [patch EXCEPT !.pc = pc, !.at = {f}, !.fresh = @ \ {f}]
    OBVIOUS
  <2>2. patch' = m /\ file' = file
    BY <1>6, <2>1 DEF Compared
  <2>3. /\ m \in PatchRows /\ m.pc = pc /\ m.at = {f} /\ m.fresh = patch.fresh \ {f}
        /\ m.st = patch.st /\ m.written = patch.written
    BY <1>1, <2>1 DEF PatchRows
  <2>4. pc = "replace" => \A g \in patch.written : file[g] = "after" \/ g \in m.fresh
    BY <1>1, <1>6, <2>3 DEF PatchFits
  <2>5. PatchFits'
    BY <1>6, <2>2, <2>3, <2>4 DEF PatchFits
  <2> QED
    BY <1>1, <1>3, <2>2, <2>3, <2>5
<1>7. CASE PatchCompares
  <2>1. ASSUME NEW f \in PatchFiles \ patch.written, Unchanged(f), Compared(f, "replace"), patch.pc = "write"
        PROVE  DeliveryInv'
    BY <1>1, <1>6, <2>1 DEF Unchanged, PatchFits
  <2>2. CASE patch.pc = "write" /\ patch' = [patch EXCEPT !.pc = "undo"] /\ file' = file
    BY <1>1, <1>3, <2>2 DEF PatchRows, PatchFits
  <2>3. CASE patch.pc = "write" /\ patch.written = PatchFiles /\ patch.st = "applying"
             /\ patch' = [patch EXCEPT !.st = "applied", !.pc = "over"] /\ file' = file
    BY <1>1, <1>3, <2>3 DEF PatchRows, PatchFits
  <2> QED
    BY <1>7, <2>1, <2>2, <2>3 DEF PatchCompares
<1>8. CASE PatchReplaces
  <2>1. CASE file' = [f \in PatchFiles |-> IF f \in patch.at THEN "after" ELSE file[f]]
             /\ patch' = [patch EXCEPT !.pc = "write", !.written = @ \cup patch.at, !.at = {}]
    <3>1. PICK m : m = [patch EXCEPT !.pc = "write", !.written = @ \cup patch.at, !.at = {}]
      OBVIOUS
    <3>2. /\ patch' = m /\ m \in PatchRows /\ m.pc = "write" /\ m.at = {} /\ m.fresh = patch.fresh
          /\ m.st = patch.st /\ m.written = patch.written \cup patch.at
      BY <1>1, <2>1, <3>1 DEF PatchRows
    <3>3. file' \in [PatchFiles -> {"before", "after", "foreign"}]
      BY <1>1, <2>1
    <3>4. patch.st \notin {"none", "prepared", "applied"} /\ patch.pc = "replace"
      BY <1>1, <1>8 DEF PatchReplaces, PatchFits
    <3>5. \A f \in m.written : file'[f] = "after" \/ f \in m.fresh
      BY <1>1, <2>1, <3>2, <3>4 DEF PatchFits, PatchRows
    <3>6. PatchFits'
      BY <3>2, <3>4, <3>5 DEF PatchFits
    <3> QED
      BY <1>3, <3>2, <3>3, <3>6
  <2>2. CASE patch' = [patch EXCEPT !.pc = "undo", !.at = {}] /\ file' = file
    BY <1>1, <1>3, <1>8, <2>2 DEF PatchReplaces, PatchRows, PatchFits
  <2> QED
    BY <1>8, <2>1, <2>2 DEF PatchReplaces
<1>9. CASE PatchUndoes
  <2>0. patch.st \notin {"none", "prepared", "applied"}
    BY <1>1, <1>9 DEF PatchUndoes, PatchFits
  <2>1. ASSUME NEW f \in PatchFiles, Undoable(f), Compared(f, "restore") PROVE DeliveryInv'
    BY <1>6, <2>0, <2>1 DEF Undoable
  <2>2. CASE /\ patch.pc = "undo" /\ file' = file
             /\ patch' = [patch EXCEPT !.st = IF @ = "applying" THEN "needs_resolution" ELSE @, !.pc = "over"]
    BY <1>1, <1>3, <2>0, <2>2 DEF PatchRows, PatchFits
  <2> QED
    BY <1>9, <2>1, <2>2 DEF PatchUndoes
<1>10. CASE PatchRestores
  <2>1. patch.st \notin {"none", "prepared", "applied"}
    BY <1>1, <1>10 DEF PatchRestores, PatchFits
  <2>2. PICK m : m = [patch EXCEPT !.pc = "undo", !.written = @ \ patch.at, !.at = {}]
    OBVIOUS
  <2>3. patch' = m /\ m \in PatchRows /\ m.pc = "undo" /\ m.at = {} /\ m.st = patch.st
    BY <1>1, <1>10, <2>2 DEF PatchRestores, PatchRows
  <2>4. file' \in [PatchFiles -> {"before", "after", "foreign"}]
    BY <1>1, <1>10 DEF PatchRestores
  <2>5. PatchFits'
    BY <2>1, <2>3 DEF PatchFits
  <2> QED
    BY <1>3, <2>3, <2>4, <2>5
<1>11. CASE PatchCrashes
  <2>1. patch.st \notin {"none", "prepared", "applied"}
    BY <1>1, <1>11 DEF PatchFits, PatchCrashes
  <2> QED
    BY <1>1, <1>3, <1>11, <2>1 DEF PatchCrashes, PatchRows, PatchFits
<1>12. CASE PatchAbandoned
  BY <1>1, <1>3, <1>12 DEF PatchAbandoned, PatchRows, PatchFits
<1>13. CASE ForeignEdit
  <2>1. PICK f \in PatchFiles, content \in {"before", "after", "foreign"} :
          file' = [file EXCEPT ![f] = content] /\ patch' = [patch EXCEPT !.fresh = @ \cup {f}]
    BY <1>13 DEF ForeignEdit
  <2>2. /\ patch' \in PatchRows /\ patch'.pc = patch.pc /\ patch'.st = patch.st /\ patch'.written = patch.written
        /\ patch'.at = patch.at /\ patch'.fresh = patch.fresh \cup {f}
    BY <1>1, <2>1 DEF PatchRows
  <2>3. file' \in [PatchFiles -> {"before", "after", "foreign"}] /\ \A g \in PatchFiles \ {f} : file'[g] = file[g]
    BY <1>1, <2>1
  <2>4. patch.written \subseteq PatchFiles /\ patch.at \subseteq PatchFiles
    BY <1>1 DEF PatchRows
  <2>5. PatchFits'
    BY <1>1, <2>2, <2>3, <2>4 DEF PatchFits
  <2> QED
    BY <1>3, <2>2, <2>3, <2>5
<1> QED
  BY <1>4, <1>5, <1>7, <1>8, <1>9, <1>10, <1>11, <1>12, <1>13 DEF PatchNext

\* Every step keeps the invariant.
LEMMA DeliveryStep ==
  ASSUME DeliveryInv, [DeliverNext(Jobs, DPlans) \/ PatchNext]_deliveryVars
  PROVE  DeliveryInv'
<1>1. ASSUME NEW j \in Jobs, JobStep(j) PROVE DeliveryInv'
  BY <1>1, ClaimStep, PushStep, PostStep, PublishRecordStep, MergeRecordStep, FailStep, InspectRecordStep,
     MergeClaimStep, MergeCallStep, ReconcileRecordStep DEF JobStep
<1>2. ASSUME NEW j \in Jobs, NEW p \in DPlans,
             PublishBegins(j, p) \/ Look(j, p, "inspect") \/ Look(j, p, "merge") \/ Reconcile(j, p)
      PROVE  DeliveryInv'
  BY <1>2, BeginStep, LookStep, ReconcileStep
<1>3. ASSUME DeliverNext(Jobs, DPlans) PROVE DeliveryInv'
  BY <1>1, <1>2, <1>3, CrashStep, PrepareStep, AbandonStep, LateMergeStep, CommitStep, ForeignPushStep, SettledStep,
     CheckedStep DEF DeliverNext
<1>4. ASSUME UNCHANGED deliveryVars PROVE DeliveryInv'
  BY <1>4 DEF deliveryVars, DeliveryInv, DeliveryTyped, OneBranch, SentInv, PatchFits, PlanFits, CallFits,
              FirstPost, Publishing, PlanOf, Exists, MergedWith
<1> QED
  BY <1>3, <1>4, PatchStep

LEMMA DeliveryAlways == DeliverySpec => []DeliveryInv
<1>1. DeliveryInit => DeliveryInv
  BY DeliveryInitial
<1>2. DeliveryInv /\ [DeliverNext(Jobs, DPlans) \/ PatchNext]_deliveryVars => DeliveryInv'
  BY DeliveryStep
<1> QED
  BY <1>1, <1>2, PTL DEF DeliverySpec

\* What is called merged is the plan's own commit, what is called verified was found in
\* order before, and a patch that is called applied is applied as a whole, but for what others
\* wrote meanwhile: for any number of calls at once, of plans, commits and faults.
THEOREM DeliveredAsCheckedAlways == DeliverySpec => []DeliveredAsChecked
<1>1. DeliveryInv => DeliveredAsChecked
  BY DEF DeliveryInv, PlanFits, MergedWith, PatchFits, DeliveredAsChecked
<1> QED
  BY <1>1, DeliveryAlways, PTL

\* A plan is pushed and its pull request opened at most once, whatever was lost or died.
THEOREM PushedAtMostOnce == DeliverySpec => []PushedOnce
<1>1. DeliveryInv => PushedOnce
  BY DEF DeliveryInv, SentInv, PushedOnce
<1> QED
  BY <1>1, DeliveryAlways, PTL

\* A step is counted or leaves the count as it is.
Counted == events \in Nat
LEMMA EventsCounted == DeliverySpec => []Counted
<1>1. DeliveryInit => Counted
  BY DEF DeliveryInit, Counted
<1>2. Counted /\ [DeliverNext(Jobs, DPlans) \/ PatchNext]_deliveryVars => Counted'
  <2> SUFFICES ASSUME Counted, [DeliverNext(Jobs, DPlans) \/ PatchNext]_deliveryVars PROVE events' = events \/ Happens
    BY DEF Counted, Happens
  <2>1. ASSUME NEW j \in Jobs, JobStep(j) \/ JobCrashes(j) PROVE events' = events \/ Happens
    BY <2>1, Zenon DEF JobStep, JobCrashes, PublishClaims, Push, PostPull, PublishRecords, MergeRecords, JobFails, InspectRecords,
                       MergeClaims, MergeCall, ReconcileRecords
  <2>2. ASSUME NEW j \in Jobs, NEW p \in DPlans,
               PublishBegins(j, p) \/ Look(j, p, "inspect") \/ Look(j, p, "merge") \/ Reconcile(j, p)
        PROVE  events' = events
    BY <2>2, Zenon DEF PublishBegins, Look, Reconcile
  <2>3. ASSUME NEW p \in DPlans, Prepare(p) \/ Abandon(p) PROVE events' = events
    BY <2>3, Zenon DEF Prepare, Abandon
  <2>4. ASSUME NEW c \in Commits, LateMerge \/ LocalCommit \/ ForeignPush \/ PullSettled \/ Checked(c)
        PROVE  events' = events \/ Happens
    BY <2>4, Zenon DEF LateMerge, LocalCommit, ForeignPush, PullSettled, Checked
  <2>5. ASSUME PatchNext PROVE events' = events \/ Happens
    BY <2>5, Zenon DEF PatchNext, PatchPrepares, PatchBegins, PatchCompares, PatchReplaces, PatchUndoes, PatchRestores, PatchCrashes,
                       PatchAbandoned, ForeignEdit
  <2>6. \E c \in Commits : TRUE
    BY DeliveryAssumption DEF Commits
  <2>7. CASE UNCHANGED deliveryVars
    BY <2>7 DEF deliveryVars
  <2> QED
    BY <2>1, <2>2, <2>3, <2>4, <2>5, <2>6, <2>7, Zenon DEF DeliverNext
<1> QED
  BY <1>1, <1>2, PTL DEF DeliverySpec

\* A commit that others pushed stays on the branch (no plan expects it, so no lease holds), and
\* a file that others edited is neither replaced nor put back, unless they edited it after the
\* patch had compared that one file and before it replaced it.
THEOREM OthersKeepTheirs == DeliverySpec => OthersStay
<1> DEFINE Keeps == /\ branch = Foreign => branch' = Foreign
                    /\ events' = events =>
                         \A f \in PatchFiles \ (patch.at \cap patch.fresh) : file[f] = "foreign" => file'[f] = "foreign"
<1>1. DeliveryInv /\ Counted /\ [DeliverNext(Jobs, DPlans) \/ PatchNext]_deliveryVars => [Keeps]_deliveryVars
  <2> SUFFICES ASSUME DeliveryInv, Counted, DeliverNext(Jobs, DPlans) \/ PatchNext PROVE Keeps
    OBVIOUS
  <2>1. ASSUME NEW j \in Jobs, Push(j) PROVE Keeps
    <3>1. job[j].p \in DPlans /\ dplan[job[j].p] \in PlanRows
      BY <2>1 DEF Push, JobAt, DeliveryInv, DeliveryTyped, CallFits
    <3>2. dplan[job[j].p].prev # Foreign
      BY <3>1, DeliveryAssumption DEF PlanRows, Foreign
    <3>3. branch = Foreign => branch' = branch
      BY <2>1, <3>2 DEF Push, LeaseHolds
    <3>4. file' = file
      BY <2>1 DEF Push, Patching
    <3> QED
      BY <3>3, <3>4
  <2>2. ASSUME NEW j \in Jobs, JobStep(j) \/ JobCrashes(j) PROVE Keeps
    <3>1. CASE Push(j)
      BY <2>1, <3>1
    <3>2. CASE ~Push(j)
      <4>1. branch' = branch /\ file' = file
        BY <2>2, <3>2 DEF JobStep, JobCrashes, PublishClaims, PostPull, PublishRecords, MergeRecords, JobFails,
                          InspectRecords, MergeClaims, MergeCall, ReconcileRecords, Host, Patching
      <4> QED
        BY <4>1
    <3> QED
      BY <3>1, <3>2
  <2>3. ASSUME NEW j \in Jobs, NEW p \in DPlans,
               PublishBegins(j, p) \/ Look(j, p, "inspect") \/ Look(j, p, "merge") \/ Reconcile(j, p)
        PROVE  Keeps
    <3>1. branch' = branch /\ file' = file
      BY <2>3, Zenon DEF PublishBegins, Look, Reconcile, Host, Patching
    <3> QED
      BY <3>1
  <2>4. ASSUME NEW p \in DPlans, Prepare(p) \/ Abandon(p) PROVE Keeps
    <3>1. branch' = branch /\ file' = file
      BY <2>4 DEF Prepare, Abandon, Host, Patching
    <3> QED
      BY <3>1
  <2>5. ASSUME NEW c \in Commits, LateMerge \/ LocalCommit \/ ForeignPush \/ PullSettled \/ Checked(c) PROVE Keeps
    <3>1. (branch' = branch \/ branch' = Foreign) /\ file' = file
      BY <2>5 DEF LateMerge, LocalCommit, ForeignPush, PullSettled, Checked, Host, Patching
    <3> QED
      BY <3>1
  <2>6. CASE PatchNext
    <3>1. /\ file \in [PatchFiles -> {"before", "after", "foreign"}] /\ branch' = branch
          /\ \A f \in patch.at : file[f] = "foreign" => f \in patch.fresh
      BY <2>6 DEF DeliveryInv, DeliveryTyped, PatchFits, PatchNext, PatchPrepares, PatchBegins, PatchCompares, PatchReplaces,
                  PatchUndoes, PatchRestores, PatchCrashes, PatchAbandoned, ForeignEdit, Delivering, Host
    <3>2. CASE PatchReplaces \/ PatchRestores
      <4>1. \A f \in PatchFiles \ patch.at : file'[f] = file[f]
        BY <3>1, <3>2 DEF PatchReplaces, PatchRestores
      <4> QED
        BY <3>1, <4>1
    <3>3. CASE ForeignEdit
      <4>1. events' # events
        BY <3>3 DEF ForeignEdit, Happens, Counted
      <4> QED
        BY <3>1, <4>1
    <3>4. CASE PatchPrepares \/ PatchBegins \/ PatchCompares \/ PatchUndoes \/ PatchCrashes \/ PatchAbandoned
      <4>1. file' = file
        BY <3>4 DEF PatchPrepares, PatchBegins, PatchCompares, PatchUndoes, PatchCrashes, PatchAbandoned, Compared
      <4> QED
        BY <3>1, <4>1
    <3> QED
      BY <2>6, <3>2, <3>3, <3>4 DEF PatchNext
  <2>7. \E c \in Commits : TRUE
    BY DeliveryAssumption DEF Commits
  <2> QED
    BY <2>2, <2>3, <2>4, <2>5, <2>6, <2>7 DEF DeliverNext
<1> QED
  BY <1>1, DeliveryAlways, EventsCounted, PTL DEF DeliverySpec, OthersStay

----------------------------------------------------------------------------
(* The companion's history and inputs *)

HistEvents == [k : {"note", "event", "call", "ask", "gone", "end"}, i : Inputs \cup {NoInput}, cut : BOOLEAN]
Threads == ThreadPcs \cup {"none", "told", "over", "dead"}
InputStates == {"new", "uncertain", "completed", "interrupted", "deleted"}
ApprovalStates == {"none", "pending", "approved", "denied", "expired", "cancelled", "consumed"}

\* What is stored reaches from the floor to the newest; what was dropped and not told lies
\* between the client's cursor and the floor, and a client that is connected knows of it.
HistInv ==
  /\ hist \in Seq(HistEvents) /\ kept \subseteq Nat /\ low \in Nat /\ missed \subseteq Nat
  /\ cli \in [at : Nat, conn : Nat] /\ count \in [conns : Nat, sends : Nat, mishaps : Nat]
  /\ cli.conn = 0 => wire = <<>>
  /\ ~erased => /\ (low + 1)..Newest \subseteq kept
                /\ \A s \in missed : cli.at < s /\ s <= low
                /\ cli.conn # 0 => missed = {} /\ (cli.at + 1)..Newest \subseteq kept

\* An input that was not taken has no thread; a thread asks for approval once, before it ends.
ChatFits(i) ==
  /\ chatRan[i].input <= 1 /\ chatRan[i].effect <= 1
  /\ inp[i] = "new" => thr[i] = "none" /\ chatRan[i].input = 0 /\ chatRan[i].effect = 0
  /\ chatRan[i].effect = 1 => apr[i] = "consumed" /\ thr[i] # "run"
ChatTyped ==
  /\ inp \in [Inputs -> InputStates] /\ thr \in [Inputs -> Threads] /\ apr \in [Inputs -> ApprovalStates]
  /\ chatRan \in [Inputs -> [input : Nat, effect : Nat]]
ChatInv == ChatTyped /\ \A i \in Inputs : ChatFits(i)

\* What a Session and its connection know: no event that is not stored yet, no connection
\* that was not opened.  What the store has kept is what lies above the floor.
SessionRows == [ws : Nat, ready : BOOLEAN, sent : Nat, from : Nat, chat : Inputs \cup {NoInput},
                cancel : Inputs \cup {NoInput}, desk : [Inputs -> Nat]]
SessionFits(n) == srv \in SessionRows /\ srv.sent <= n /\ srv.from <= n
CarriedInv ==
  /\ kept = (low + 1)..Newest /\ low <= Newest
  /\ cli.at <= Newest /\ cli.conn <= count.conns /\ srv.ws <= count.conns /\ count.conns <= MaxConns
  /\ SessionFits(Newest) /\ wire \in Seq(1..Newest)

CompInv == HistInv /\ CarriedInv /\ ChatInv

LEMMA SessionIdle == NoSession \in SessionRows /\ NoSession.ws = 0 /\ NoSession.sent = 0 /\ NoSession.from = 0
BY DEF NoSession, SessionRows

LEMMA CarriedInitial == CompInit => CarriedInv
<1> SUFFICES ASSUME CompInit PROVE CarriedInv
  OBVIOUS
<1>1. Newest = 0 /\ kept = (low + 1)..Newest
  BY DEF CompInit, Newest
<1>2. wire \in Seq(1..Newest)
  BY DEF CompInit
<1> QED
  BY <1>1, <1>2, SessionIdle, CompanionAssumption DEF CompInit, CarriedInv, SessionFits

LEMMA CompInitial == CompInit => CompInv
<1> SUFFICES ASSUME CompInit PROVE CompInv
  OBVIOUS
<1>1. HistInv
  BY DEF CompInit, HistInv, Newest
<1>2. ChatInv
  BY DEF CompInit, ChatInv, ChatTyped, ChatFits, InputStates, Threads, ApprovalStates
<1> QED
  BY <1>1, <1>2, CarriedInitial DEF CompInv

LEMMA MaxOfTwo ==
  ASSUME NEW a \in Nat, NEW b \in Nat
  PROVE  Max({a, b}) \in Nat /\ Max({a, b}) >= a /\ Max({a, b}) >= b /\ Max({a, b}) \in {a, b}
<1>1. \E x \in {a, b} : \A y \in {a, b} : x >= y
  <2>1. CASE a >= b
    BY <2>1
  <2>2. CASE b >= a
    BY <2>2
  <2> QED
    BY <2>1, <2>2
<1> QED
  BY <1>1 DEF Max

LEMMA Shorter ==
  ASSUME NEW a \in Nat, NEW b \in Nat, NEW n \in Nat, a >= b
  PROVE  (a + 1)..n \subseteq (b + 1)..n
OBVIOUS

\* An event that is appended is stored.
Appends == \/ hist' = hist /\ kept' = kept
           \/ \E e \in HistEvents : hist' = Append(hist, e) /\ kept' = kept \cup {Newest + 1}
CountMay == count' \in [conns : Nat, sends : Nat, mishaps : Nat]

LEMMA StoredAppends ==
  ASSUME NEW k \in {"note", "event", "call", "ask", "gone", "end"}, NEW i \in Inputs \cup {NoInput}, Stored(k, i)
  PROVE  Appends
<1>1. (k = "end" /\ i \in stop) \in BOOLEAN
  OBVIOUS
<1>2. [k |-> k, i |-> i, cut |-> k = "end" /\ i \in stop] \in HistEvents
  BY <1>1 DEF HistEvents
<1> QED
  BY <1>2 DEF Stored, Appends

LEMMA AppendsKeep ==
  ASSUME HistInv, Appends, CountMay, UNCHANGED <<low, cli, missed, erased>>, wire' = wire \/ cli.conn # 0
  PROVE  HistInv'
<1>1. CASE hist' = hist /\ kept' = kept
  BY <1>1 DEF HistInv, CountMay, Newest
<1>2. ASSUME NEW e \in HistEvents, hist' = Append(hist, e), kept' = kept \cup {Newest + 1} PROVE HistInv'
  <2>1. hist' \in Seq(HistEvents) /\ Newest' = Newest + 1 /\ Newest \in Nat
    BY <1>2 DEF HistInv, Newest
  <2>2. kept' \subseteq Nat
    BY <1>2, <2>1 DEF HistInv
  <2>3. ~erased => (low + 1)..Newest' \subseteq kept'
    BY <1>2, <2>1 DEF HistInv
  <2>4. ~erased /\ cli.conn # 0 => (cli.at + 1)..Newest' \subseteq kept'
    BY <1>2, <2>1 DEF HistInv
  <2> QED
    BY <2>1, <2>2, <2>3, <2>4 DEF HistInv, CountMay
<1> QED
  BY <1>1, <1>2 DEF Appends

LEMMA NotedAppends == ASSUME Noted PROVE Appends
BY StoredAppends DEF Noted, Appends

LEMMA EmitAppends ==
  ASSUME NEW i \in Inputs, NEW k \in {"note", "event", "call", "ask", "gone", "end"}, NEW pc, Emit(i, k, pc)
  PROVE  Appends
BY StoredAppends DEF Emit, Appends

\* The steps of a chat and of those who decide about it append, and touch nothing else.
LEMMA ChatKeepsHistory ==
  ASSUME HistInv, NEW i \in Inputs, ChatSend(i) \/ ChatStep(i) \/ DecideChat(i) \/ ApprovalEnds(i)
  PROVE  HistInv'
<1>0. count \in [conns : Nat, sends : Nat, mishaps : Nat]
  BY DEF HistInv
<1>1. CASE ChatSend(i)
  <2>1. Appends
    BY <1>1, NotedAppends DEF ChatSend, Appends
  <2>2. CountMay
    BY <1>0, <1>1 DEF ChatSend, CountMay
  <2> QED
    BY <1>1, <2>1, <2>2, AppendsKeep DEF ChatSend
<1>2. CASE ToolEvent(i) \/ AskApproval(i) \/ WaitCancelled(i) \/ ChatEnd(i)
  <2>1. Appends
    BY <1>2, EmitAppends DEF ToolEvent, AskApproval, WaitCancelled, ChatEnd
  <2>2. CountMay
    BY <1>0, <1>2 DEF ToolEvent, AskApproval, WaitCancelled, ChatEnd, CountMay
  <2> QED
    BY <1>2, <2>1, <2>2, AppendsKeep DEF ToolEvent, AskApproval, WaitCancelled, ChatEnd
<1>3. CASE DesktopCall(i)
  <2>1. Appends
    BY <1>3, StoredAppends DEF DesktopCall, Appends
  <2>2. CountMay
    BY <1>0, <1>3 DEF DesktopCall, CountMay
  <2>3. wire' = wire \/ cli.conn # 0
    BY <1>3 DEF DesktopCall
  <2> QED
    BY <1>3, <2>1, <2>2, <2>3, AppendsKeep DEF DesktopCall
<1>4. CASE DecideChat(i)
  <2>1. Appends
    BY <1>4, NotedAppends DEF DecideChat
  <2>2. CountMay
    BY <1>0, <1>4 DEF DecideChat, CountMay
  <2> QED
    BY <1>4, <2>1, <2>2, AppendsKeep DEF DecideChat
<1>5. CASE WaitDecided(i) \/ UseGrant(i) \/ DesktopAnswered(i) \/ DesktopExpires(i) \/ FinishInput(i) \/ ApprovalEnds(i)
  <2>1. Appends /\ CountMay /\ UNCHANGED <<low, cli, missed, erased, wire>>
    BY <1>0, <1>5 DEF WaitDecided, UseGrant, DesktopAnswered, DesktopExpires, FinishInput, ApprovalEnds, Appends, CountMay
  <2> QED
    BY <2>1, AppendsKeep
<1> QED
  BY <1>1, <1>2, <1>3, <1>4, <1>5 DEF ChatStep

\* What a client has acknowledged goes, and the floor rises to it.
LEMMA AckKeeps ==
  ASSUME HistInv, cli.conn # 0, AckedUpTo(cli.at), CountMay, UNCHANGED <<hist, cli, missed, erased, wire>>
  PROVE  HistInv'
<1>1. low' \in Nat /\ low' >= low /\ low' >= cli.at
  BY MaxOfTwo DEF HistInv, AckedUpTo
<1>2. kept' = {s \in kept : s > cli.at} /\ Newest' = Newest /\ Newest \in Nat /\ cli.at \in Nat /\ low \in Nat
  BY DEF HistInv, AckedUpTo, Newest
<1>3. ~erased => (cli.at + 1)..Newest \subseteq kept'
  BY <1>2 DEF HistInv
<1>4. ~erased => (low' + 1)..Newest \subseteq kept'
  <2>1. (low' + 1)..Newest \subseteq (cli.at + 1)..Newest
    BY <1>1, <1>2, Shorter
  <2> QED
    BY <1>3, <2>1
<1> QED
  BY <1>1, <1>2, <1>3, <1>4 DEF HistInv, CountMay

\* A client that comes back resumes where nothing is missing, or learns that it cannot.
LEMMA HelloKeeps ==
  ASSUME HistInv, Hello
  PROVE  HistInv'
<1>0. /\ cli \in [at : Nat, conn : Nat] /\ count \in [conns : Nat, sends : Nat, mishaps : Nat] /\ Newest \in Nat
      /\ hist' = hist /\ Newest' = Newest /\ erased' = erased /\ low \in Nat
  BY DEF HistInv, Hello, Newest
<1> DEFINE c == count.conns + 1
<1>1. /\ count' = [count EXCEPT !.conns = c] /\ c \in Nat \ {0}
      /\ cli' = [at |-> IF Resumable(cli.at) THEN cli.at ELSE Newest, conn |-> c]
  BY <1>0 DEF Hello
<1>2. CountMay
  BY <1>0, <1>1 DEF CountMay
<1>3. cli' \in [at : Nat, conn : Nat] /\ cli'.conn # 0
  BY <1>0, <1>1
<1>4. CASE Resumable(cli.at)
  <2>1. AckedUpTo(cli.at) /\ missed' = missed /\ cli'.at = cli.at /\ low <= cli.at
    BY <1>1, <1>4 DEF Hello, Resumable
  <2>2. low' \in Nat /\ low' >= low /\ low' >= cli.at /\ kept' = {s \in kept : s > cli.at}
    BY <1>0, <2>1, MaxOfTwo DEF AckedUpTo
  <2>3. ~erased => missed = {}
    BY <1>0, <2>1 DEF HistInv
  <2>4. ~erased => (cli.at + 1)..Newest \subseteq kept'
    BY <1>0, <2>1, <2>2 DEF HistInv
  <2>5. ~erased => (low' + 1)..Newest \subseteq kept'
    <3>1. (low' + 1)..Newest \subseteq (cli.at + 1)..Newest
      BY <1>0, <2>2, Shorter
    <3> QED
      BY <2>4, <3>1
  <2> QED
    BY <1>0, <1>2, <1>3, <2>1, <2>2, <2>3, <2>4, <2>5 DEF HistInv, CountMay
<1>5. CASE ~Resumable(cli.at)
  <2>1. kept' = kept /\ low' = low /\ missed' = {} /\ cli'.at = Newest
    BY <1>1, <1>5 DEF Hello
  <2>2. (cli'.at + 1)..Newest = {}
    BY <1>0, <2>1
  <2> QED
    BY <1>0, <1>2, <1>3, <2>1, <2>2 DEF HistInv, CountMay
<1> QED
  BY <1>4, <1>5

\* Only while no client is connected is anything dropped that it has not taken.
LEMMA ForgetKeeps ==
  ASSUME HistInv, Forget
  PROVE  HistInv'
<1>1. PICK s \in kept : /\ kept' = {t \in kept : t > s} /\ low' = Max({low, s})
                        /\ missed' = missed \cup {t \in kept : t <= s /\ t > cli.at}
  BY DEF Forget
<1>2. s \in Nat /\ low' \in Nat /\ low' >= low /\ low' >= s
  BY <1>1, MaxOfTwo DEF HistInv
<1>3. UNCHANGED <<hist, cli, erased, wire>> /\ CountMay /\ cli.conn = 0 /\ Newest' = Newest /\ Newest \in Nat
  BY DEF Forget, Mishap, HistInv, CountMay, Newest
<1>4. ~erased => (low' + 1)..Newest \subseteq kept'
  BY <1>1, <1>2, <1>3 DEF HistInv
<1>5. ~erased => \A t \in missed' : cli.at < t /\ t <= low'
  BY <1>1, <1>2 DEF HistInv
<1> QED
  BY <1>1, <1>2, <1>3, <1>4, <1>5 DEF HistInv, CountMay

LEMMA OtherKeepsHistory ==
  ASSUME HistInv, Delivery \/ AckHistory \/ ServerNotices \/ ClientNotices \/ ClientLeaves \/ Erase \/ ServerCrash \/ Evict \/ Interrupt
  PROVE  HistInv'
<1>0. cli \in [at : Nat, conn : Nat] /\ count \in [conns : Nat, sends : Nat, mishaps : Nat]
  BY DEF HistInv
<1>1. CASE Replay \/ Flush
  <2>1. Appends /\ CountMay /\ UNCHANGED <<low, cli, missed, erased>> /\ (wire' = wire \/ cli.conn # 0)
    BY <1>0, <1>1 DEF Replay, Flush, Appends, CountMay
  <2> QED
    BY <2>1, AppendsKeep
<1>2. CASE Receive
  <2>1. cli.conn # 0 /\ UNCHANGED <<hist, kept, low, missed, erased, count>> /\ Newest' = Newest
    BY <1>2 DEF Receive, HistInv, Newest
  <2>2. cli' \in [at : Nat, conn : Nat] /\ cli'.conn = cli.conn /\ cli'.at \in {cli.at, cli.at + 1}
    BY <1>0, <1>2 DEF Receive
  <2>3. (cli'.at + 1)..Newest \subseteq (cli.at + 1)..Newest
    BY <1>0, <2>2 DEF HistInv, Newest
  <2> QED
    BY <2>1, <2>2, <2>3 DEF HistInv
<1>3. CASE AckHistory
  <2>1. cli.conn # 0 /\ CountMay
    BY <1>0, <1>3 DEF AckHistory, Connected, CountMay
  <2> QED
    BY <1>3, <2>1, AckKeeps DEF AckHistory
<1>4. CASE ServerNotices \/ Evict \/ Interrupt
  <2>1. Appends /\ CountMay /\ UNCHANGED <<low, cli, missed, erased, wire>>
    BY <1>0, <1>4 DEF ServerNotices, Evict, Interrupt, Mishap, Appends, CountMay
  <2> QED
    BY <2>1, AppendsKeep
<1>5. CASE ClientNotices \/ ClientLeaves \/ ServerCrash
  <2>1. UNCHANGED <<hist, kept, low, missed, erased>> /\ wire' = <<>> /\ cli' = [cli EXCEPT !.conn = 0] /\ CountMay /\ Newest' = Newest
    BY <1>0, <1>5 DEF ClientNotices, ClientLeaves, ServerCrash, Mishap, CountMay, Newest
  <2>2. cli' \in [at : Nat, conn : Nat] /\ cli'.conn = 0 /\ cli'.at = cli.at
    BY <1>0, <2>1
  <2> QED
    BY <2>1, <2>2 DEF HistInv, CountMay
<1>6. CASE Erase
  <2>1. erased' /\ kept' = {} /\ low' = Newest /\ missed' \subseteq missed \cup kept /\ UNCHANGED <<hist, cli, wire, count>>
    BY <1>6 DEF Erase
  <2> QED
    BY <2>1 DEF HistInv, Newest
<1> QED
  BY <1>1, <1>2, <1>3, <1>4, <1>5, <1>6 DEF Delivery

\* A thread's step does not bring it back to its start, and leaves what was counted.
ThreadMoves(i) == /\ thr' \in [Inputs -> Threads] /\ thr'[i] # "run" /\ \A k \in Inputs : k # i => thr'[k] = thr[k]

LEMMA EmitMoves ==
  ASSUME ChatTyped, NEW i \in Inputs, NEW k, NEW pc \in Threads \ {"run"}, Emit(i, k, pc)
  PROVE  ThreadMoves(i)
<1>1. PICK to \in Threads \ {"run"} : thr' = [thr EXCEPT ![i] = to]
  <2>1. "over" \in Threads \ {"run"}
    BY DEF Threads
  <2> QED
    BY <2>1 DEF Emit, Goes
<1> QED
  BY <1>1 DEF ChatTyped, ThreadMoves

LEMMA GoesMoves ==
  ASSUME ChatTyped, NEW i \in Inputs, NEW pc \in Threads \ {"run"}, Goes(i, pc)
  PROVE  ThreadMoves(i)
BY DEF ChatTyped, ThreadMoves, Goes

\* An input that a thread works on is not new.
LEMMA WorkedOn ==
  ASSUME ChatInv, NEW i \in Inputs, thr[i] # "none"
  PROVE  inp[i] # "new"
BY DEF ChatInv, ChatFits

\* Steps that count nothing.
LEMMA ThreadKeeps ==
  ASSUME ChatInv, NEW i \in Inputs, thr[i] # "none", ThreadMoves(i), UNCHANGED <<inp, apr, chatRan>>
  PROVE  ChatInv'
<1>1. inp[i] # "new"
  BY WorkedOn
<1> QED
  BY <1>1 DEF ChatInv, ChatTyped, ChatFits, ThreadMoves

LEMMA StepKeepsChats ==
  ASSUME ChatInv, NEW i \in Inputs, ChatStep(i)
  PROVE  ChatInv'
<1>0. ChatTyped /\ ChatFits(i) /\ {"after", "wait", "desk", "granted", "told", "over"} \subseteq Threads \ {"run"}
  BY DEF ChatInv, Threads, ThreadPcs
<1>1. CASE ToolEvent(i) \/ ChatEnd(i) \/ DesktopCall(i) \/ DesktopAnswered(i) \/ DesktopExpires(i) \/ WaitDecided(i)
  <2>1. thr[i] # "none" /\ UNCHANGED <<inp, apr, chatRan>>
    BY <1>1 DEF ToolEvent, ChatEnd, DesktopCall, DesktopAnswered, DesktopExpires, WaitDecided, ChatAt
  <2>2. ThreadMoves(i)
    BY <1>0, <1>1, EmitMoves, GoesMoves DEF ToolEvent, ChatEnd, DesktopCall, DesktopAnswered, DesktopExpires, WaitDecided
  <2> QED
    BY <2>1, <2>2, ThreadKeeps
<1>2. CASE AskApproval(i)
  <2>1. thr[i] = "run" /\ inp[i] # "new" /\ ThreadMoves(i)
    BY <1>0, <1>2, EmitMoves, WorkedOn DEF AskApproval, ChatAt
  <2>2. apr' \in [Inputs -> ApprovalStates] /\ \A k \in Inputs : k # i => apr'[k] = apr[k]
    BY <1>0, <1>2 DEF AskApproval, ChatTyped, ApprovalStates
  <2>3. chatRan[i].effect = 0
    <3>1. chatRan[i] \in [input : Nat, effect : Nat]
      BY <1>0 DEF ChatTyped
    <3>2. chatRan[i].effect \in Nat /\ chatRan[i].effect <= 1 /\ chatRan[i].effect # 1
      BY <1>0, <2>1, <3>1 DEF ChatFits
    <3> QED
      BY <3>2
  <2> QED
    BY <1>2, <2>1, <2>2, <2>3 DEF AskApproval, ChatInv, ChatTyped, ChatFits, ThreadMoves
<1>3. CASE WaitCancelled(i)
  <2>1. thr[i] = "wait" /\ inp[i] # "new" /\ ThreadMoves(i)
    BY <1>0, <1>3, EmitMoves, WorkedOn DEF WaitCancelled, ChatAt
  <2>2. apr' \in [Inputs -> ApprovalStates] /\ (\A k \in Inputs : k # i => apr'[k] = apr[k])
        /\ (apr[i] = "consumed" => apr'[i] = "consumed")
    BY <1>0, <1>3 DEF WaitCancelled, ChatTyped, ApprovalStates
  <2> QED
    BY <1>3, <2>1, <2>2 DEF WaitCancelled, ChatInv, ChatTyped, ChatFits, ThreadMoves
<1>4. CASE UseGrant(i)
  <2>1. thr[i] = "granted" /\ inp[i] # "new" /\ ThreadMoves(i) /\ inp' = inp
    BY <1>0, <1>4, GoesMoves, WorkedOn DEF UseGrant, ChatAt
  <2>2. CASE UNCHANGED <<apr, chatRan>>
    BY <2>1, <2>2, ThreadKeeps
  <2>3. CASE Usable(i) /\ apr' = [apr EXCEPT ![i] = "consumed"] /\ chatRan' = [chatRan EXCEPT ![i].effect = @ + 1]
    <3>1. chatRan \in [Inputs -> [input : Nat, effect : Nat]] /\ chatRan[i] \in [input : Nat, effect : Nat] /\ apr[i] = "approved"
      BY <1>0, <2>3 DEF ChatTyped, Usable
    <3>2. chatRan[i].effect = 0
      BY <1>0, <3>1 DEF ChatFits
    <3>3. chatRan' = [chatRan EXCEPT ![i] = [chatRan[i] EXCEPT !.effect = 1]]
      BY <2>3, <3>1, <3>2
    <3>4. [chatRan[i] EXCEPT !.effect = 1] \in [input : Nat, effect : Nat]
          /\ [chatRan[i] EXCEPT !.effect = 1].effect = 1 /\ [chatRan[i] EXCEPT !.effect = 1].input = chatRan[i].input
      BY <3>1
    <3>5. /\ chatRan' \in [Inputs -> [input : Nat, effect : Nat]] /\ \A k \in Inputs : k # i => chatRan'[k] = chatRan[k]
          /\ chatRan'[i].effect = 1 /\ chatRan'[i].input = chatRan[i].input
      BY <3>1, <3>3, <3>4
    <3>6. apr' \in [Inputs -> ApprovalStates] /\ apr'[i] = "consumed" /\ \A k \in Inputs : k # i => apr'[k] = apr[k]
      BY <1>0, <2>3 DEF ChatTyped, ApprovalStates
    <3> QED
      BY <2>1, <3>5, <3>6 DEF ChatInv, ChatTyped, ChatFits, ThreadMoves
  <2> QED
    BY <1>4, <2>2, <2>3 DEF UseGrant
<1>5. CASE FinishInput(i)
  <2>1. thr[i] = "told" /\ inp[i] # "new" /\ ThreadMoves(i) /\ UNCHANGED <<apr, chatRan>>
    BY <1>0, <1>5, GoesMoves, WorkedOn DEF FinishInput, ChatAt
  <2>2. inp' \in [Inputs -> InputStates] /\ inp'[i] # "new" /\ \A k \in Inputs : k # i => inp'[k] = inp[k]
    BY <1>0, <1>5 DEF FinishInput, ChatTyped, InputStates
  <2> QED
    BY <2>1, <2>2 DEF ChatInv, ChatTyped, ChatFits, ThreadMoves
<1> QED
  BY <1>1, <1>2, <1>3, <1>4, <1>5 DEF ChatStep

\* An input is taken when it is new, and no longer new when it is taken.
LEMMA SendKeepsChats ==
  ASSUME ChatInv, NEW i \in Inputs, ChatSend(i)
  PROVE  ChatInv'
<1>0. ChatTyped /\ ChatFits(i)
  BY DEF ChatInv
<1>1. CASE UNCHANGED <<inp, thr, chatRan>>
  BY <1>1 DEF ChatSend, ChatInv, ChatTyped, ChatFits
<1>2. CASE ~Known(i) /\ inp' = [inp EXCEPT ![i] = "uncertain"] /\ Goes(i, "run") /\ chatRan' = [chatRan EXCEPT ![i].input = @ + 1]
  <2>1. chatRan \in [Inputs -> [input : Nat, effect : Nat]] /\ chatRan[i] \in [input : Nat, effect : Nat]
        /\ chatRan[i].input = 0 /\ chatRan[i].effect = 0
    BY <1>0, <1>2 DEF ChatTyped, ChatFits, Known
  <2>2. chatRan' = [chatRan EXCEPT ![i] = [chatRan[i] EXCEPT !.input = 1]]
    BY <1>2, <2>1
  <2>3. [chatRan[i] EXCEPT !.input = 1] \in [input : Nat, effect : Nat]
        /\ [chatRan[i] EXCEPT !.input = 1].input = 1 /\ [chatRan[i] EXCEPT !.input = 1].effect = 0
    BY <2>1
  <2>4. /\ chatRan' \in [Inputs -> [input : Nat, effect : Nat]] /\ \A k \in Inputs : k # i => chatRan'[k] = chatRan[k]
        /\ chatRan'[i].input = 1 /\ chatRan'[i].effect = 0
    BY <2>1, <2>2, <2>3
  <2>5. /\ inp' \in [Inputs -> InputStates] /\ inp'[i] # "new" /\ \A k \in Inputs : k # i => inp'[k] = inp[k]
        /\ thr' \in [Inputs -> Threads] /\ \A k \in Inputs : k # i => thr'[k] = thr[k]
        /\ apr' = apr
    BY <1>0, <1>2 DEF ChatSend, Goes, ChatTyped, InputStates, Threads, ThreadPcs
  <2> QED
    BY <2>4, <2>5 DEF ChatInv, ChatTyped, ChatFits
<1> QED
  BY <1>1, <1>2 DEF ChatSend

LEMMA OthersKeepChats ==
  ASSUME ChatInv,
         \/ \E i \in Inputs : DecideChat(i) \/ ApprovalEnds(i)
         \/ Delivery \/ AckHistory \/ Hello \/ ServerNotices \/ ClientNotices \/ Leaves
  PROVE  ChatInv'
<1>1. ASSUME NEW i \in Inputs, DecideChat(i) \/ ApprovalEnds(i) PROVE ChatInv'
  <2>1. PICK d \in ApprovalStates : apr' = [apr EXCEPT ![i] = d]
    BY <1>1 DEF DecideChat, ApprovalEnds, ApprovalStates
  <2>2. apr[i] # "consumed" /\ UNCHANGED <<inp, thr, chatRan>>
    BY <1>1 DEF DecideChat, ApprovalEnds
  <2>3. apr' \in [Inputs -> ApprovalStates] /\ \A k \in Inputs : k # i => apr'[k] = apr[k]
    BY <2>1 DEF ChatInv, ChatTyped
  <2>4. chatRan[i].effect # 1
    BY <2>2 DEF ChatInv, ChatFits
  <2> QED
    BY <2>2, <2>3, <2>4 DEF ChatInv, ChatTyped, ChatFits
<1>2. CASE Delivery \/ AckHistory \/ Hello \/ ServerNotices \/ ClientNotices \/ ClientLeaves \/ Forget \/ Evict \/ Interrupt
  <2>1. UNCHANGED <<inp, thr, apr, chatRan>>
    BY <1>2 DEF Delivery, Replay, Flush, Receive, AckHistory, Hello, ServerNotices, ClientNotices, ClientLeaves, Forget,
                Evict, Interrupt
  <2> QED
    BY <2>1 DEF ChatInv, ChatTyped, ChatFits
<1>3. CASE Erase
  <2>1. inp' = [i \in Inputs |-> IF Known(i) THEN "deleted" ELSE inp[i]] /\ UNCHANGED <<thr, apr, chatRan>>
    BY <1>3 DEF Erase
  <2>2. inp' \in [Inputs -> InputStates] /\ \A i \in Inputs : inp'[i] = "new" => inp[i] = "new"
    BY <2>1 DEF ChatInv, ChatTyped, InputStates, Known
  <2> QED
    BY <2>1, <2>2 DEF ChatInv, ChatTyped, ChatFits
<1>4. CASE ServerCrash
  <2>1. thr' = [i \in Inputs |-> IF thr[i] = "none" THEN "none" ELSE "dead"] /\ UNCHANGED <<inp, apr, chatRan>>
    BY <1>4 DEF ServerCrash
  <2>2. thr' \in [Inputs -> Threads] /\ \A i \in Inputs : thr'[i] # "run" /\ (thr[i] = "none" => thr'[i] = "none")
    BY <2>1 DEF Threads
  <2> QED
    BY <2>1, <2>2 DEF ChatInv, ChatTyped, ChatFits
<1> QED
  BY <1>1, <1>2, <1>3, <1>4 DEF Leaves

\* A step of a chat may take the Session's connection away, never give it another.
SessionMay == srv' \in SessionRows /\ srv'.ws \in {0, srv.ws} /\ srv'.sent = srv.sent /\ srv'.from = srv.from

\* What was sent of a history that grows is still of it.
LEMMA StillOf ==
  ASSUME NEW n \in Nat, NEW m \in Nat, n <= m, NEW w \in Seq(1..n)
  PROVE  w \in Seq(1..m)
<1>1. 1..n \subseteq 1..m
  OBVIOUS
<1> QED
  BY <1>1

\* Rows that lie above each other without a gap have an order.
LEMMA RunsBySeq ==
  ASSUME NEW a \in Nat, NEW n \in Nat, a <= n
  PROVE  BySeq((a + 1)..n) \in Seq((a + 1)..n)
<1> DEFINE run == (a + 1)..n
<1>1. Cardinality(run) = n - a
  <2>1. a + 1 \in Int /\ n \in Int
    OBVIOUS
  <2>2. Cardinality((a + 1)..n) = IF a + 1 > n THEN 0 ELSE n - (a + 1) + 1
    BY <2>1, FS_Interval, Zenon
  <2> QED
    BY <2>2
<1> DEFINE q == [m \in 1..(n - a) |-> a + m]
<1>2. q \in [1..Cardinality(run) -> run] /\ \A i, j \in DOMAIN q : i < j => q[i] < q[j]
  BY <1>1
<1>3. BySeq(run) \in [1..Cardinality(run) -> run]
  BY <1>2, Zenon DEF BySeq
<1>4. n - a \in Nat /\ BySeq(run) \in [1..(n - a) -> run]
  BY <1>1, <1>3
<1>5. ASSUME NEW r \in [1..(n - a) -> run] PROVE r \in Seq(run)
  <2> HIDE DEF run
  <2> QED
    BY <1>4
<1> QED
  BY <1>4, <1>5, Zenon

LEMMA LeastOf ==
  ASSUME NEW a \in Nat, NEW n \in Nat, a < n
  PROVE  Min((a + 1)..n) \in (a + 1)..n
<1>1. \E x \in (a + 1)..n : \A y \in (a + 1)..n : x <= y
  <2>1. a + 1 \in (a + 1)..n /\ \A y \in (a + 1)..n : a + 1 <= y
    OBVIOUS
  <2> QED
    BY <2>1
<1> QED
  BY <1>1, Zenon DEF Min

LEMMA GreatestOf ==
  ASSUME NEW a \in Nat, NEW n \in Nat, NEW from \in Nat, from <= n
  PROVE  Max(((a + 1)..n) \cup {from}) \in 0..n
<1> DEFINE S == ((a + 1)..n) \cup {from}
<1>1. S \subseteq 0..n
  OBVIOUS
<1>2. \E x \in S : \A y \in S : x >= y
  <2>1. CASE a < n
    <3>1. n \in S /\ \A y \in S : n >= y
      BY <2>1
    <3> QED
      BY <3>1
  <2>2. CASE ~(a < n)
    <3>1. from \in S /\ \A y \in S : from >= y
      BY <2>2
    <3> QED
      BY <3>1
  <2> QED
    BY <2>1, <2>2
<1>3. Max(S) \in S
  BY <1>2, Zenon DEF Max
<1> QED
  BY <1>1, <1>3

\* A step that may append, of a Session that keeps its place.
LEMMA CarriedStays ==
  ASSUME HistInv, CarriedInv, Appends, SessionMay, UNCHANGED <<low, cli>>, count'.conns = count.conns,
         \/ wire' = wire
         \/ wire' = <<>>
         \/ hist' # hist /\ wire' = Append(wire, Newest + 1)
  PROVE  CarriedInv'
<1>1. Newest \in Nat /\ low \in Nat /\ cli.at \in Nat /\ cli.conn \in Nat /\ count.conns \in Nat
  BY DEF HistInv, Newest
<1>2. \/ Newest' = Newest /\ kept' = kept /\ hist' = hist
      \/ Newest' = Newest + 1 /\ kept' = kept \cup {Newest + 1}
  BY DEF HistInv, Appends, Newest
<1>3. Newest' \in Nat /\ Newest' >= Newest /\ kept' = (low' + 1)..Newest'
  <2>1. kept = (low + 1)..Newest /\ low <= Newest /\ low' = low
    BY DEF CarriedInv
  <2>2. ((low + 1)..Newest) \cup {Newest + 1} = (low + 1)..(Newest + 1)
    BY <1>1, <2>1
  <2>3. CASE Newest' = Newest /\ kept' = kept
    BY <1>1, <2>1, <2>3
  <2>4. CASE Newest' = Newest + 1 /\ kept' = kept \cup {Newest + 1}
    BY <1>1, <2>1, <2>2, <2>4
  <2> QED
    BY <1>2, <2>3, <2>4
<1>4. wire \in Seq(1..Newest')
  BY <1>1, <1>3, StillOf DEF CarriedInv
<1>5. wire' \in Seq(1..Newest')
  <2>1. CASE wire' = wire
    BY <1>4, <2>1
  <2>2. CASE wire' = <<>>
    BY <2>2
  <2>3. CASE hist' # hist /\ wire' = Append(wire, Newest + 1)
    <3>1. Newest + 1 \in 1..Newest'
      BY <1>1, <1>2, <2>3
    <3> QED
      BY <1>4, <2>3, <3>1
  <2> QED
    BY <2>1, <2>2, <2>3
<1>6. srv.ws \in Nat /\ srv.sent \in Nat /\ srv.from \in Nat /\ srv.sent <= Newest /\ srv.from <= Newest
  BY DEF CarriedInv, SessionFits, SessionRows
<1>7. srv' \in SessionRows /\ srv'.sent <= Newest' /\ srv'.from <= Newest' /\ srv'.ws <= count.conns
  BY <1>1, <1>3, <1>6 DEF SessionMay, CarriedInv
<1> QED
  BY <1>1, <1>3, <1>5, <1>7 DEF CarriedInv, SessionFits

LEMMA SessionSame == ASSUME srv \in SessionRows, srv' = srv PROVE SessionMay
BY DEF SessionMay

LEMMA SessionBecomes ==
  ASSUME srv \in SessionRows, NEW c \in Inputs \cup {NoInput}, NEW d \in [Inputs -> Nat],
         \/ srv' = srv
         \/ srv' = [srv EXCEPT !.ws = 0]
         \/ srv' = [[srv EXCEPT !.ws = 0] EXCEPT !.chat = c]
         \/ srv' = [srv EXCEPT !.chat = c]
         \/ srv' = [srv EXCEPT !.chat = c, !.cancel = c]
         \/ srv' = [srv EXCEPT !.desk = d]
         \/ srv' = [srv EXCEPT !.ws = 0, !.desk = d]
  PROVE  SessionMay
<1>1. CASE srv' = srv \/ srv' = [srv EXCEPT !.ws = 0]
  BY <1>1 DEF SessionMay, SessionRows
<1>2. CASE srv' = [[srv EXCEPT !.ws = 0] EXCEPT !.chat = c]
  BY <1>2 DEF SessionMay, SessionRows
<1>3. CASE srv' = [srv EXCEPT !.chat = c] \/ srv' = [srv EXCEPT !.desk = d]
  BY <1>3 DEF SessionMay, SessionRows
<1>4. CASE srv' = [srv EXCEPT !.chat = c, !.cancel = c]
  BY <1>4 DEF SessionMay, SessionRows
<1>5. CASE srv' = [srv EXCEPT !.ws = 0, !.desk = d]
  BY <1>5 DEF SessionMay, SessionRows
<1> QED
  BY <1>1, <1>2, <1>3, <1>4, <1>5

LEMMA ChatKeepsCarried ==
  ASSUME HistInv, CarriedInv, NEW i \in Inputs, ChatSend(i) \/ ChatStep(i) \/ DecideChat(i) \/ ApprovalEnds(i)
  PROVE  CarriedInv'
<1>0. /\ count \in [conns : Nat, sends : Nat, mishaps : Nat] /\ srv \in SessionRows /\ {i, NoInput} \subseteq Inputs \cup {NoInput}
      /\ srv.ws \in Nat /\ srv.desk \in [Inputs -> Nat]
  BY DEF HistInv, CarriedInv, SessionFits, SessionRows
<1>1. CASE ChatSend(i) \/ DecideChat(i)
  <2>1. Appends
    BY <1>1, NotedAppends DEF ChatSend, DecideChat, Appends
  <2>2. SessionMay
    BY <1>0, <1>1, SessionBecomes DEF ChatSend, DecideChat, Noted, Overflow
  <2>3. count'.conns = count.conns /\ UNCHANGED <<low, cli, wire>>
    BY <1>0, <1>1 DEF ChatSend, DecideChat
  <2> QED
    BY <2>1, <2>2, <2>3, CarriedStays
<1>2. CASE ToolEvent(i) \/ AskApproval(i) \/ WaitCancelled(i) \/ ChatEnd(i)
  <2>1. PICK k \in {"note", "event", "call", "ask", "gone", "end"} : \E pc : Emit(i, k, pc)
    BY <1>2 DEF ToolEvent, AskApproval, WaitCancelled, ChatEnd
  <2>2. Appends
    BY <2>1, EmitAppends
  <2>3. SessionMay
    BY <1>0, <2>1, SessionBecomes DEF Emit, Overflow
  <2>4. UNCHANGED <<low, cli, wire, count>>
    BY <1>2 DEF ToolEvent, AskApproval, WaitCancelled, ChatEnd
  <2> QED
    BY <2>2, <2>3, <2>4, CarriedStays
<1>3. CASE DesktopCall(i)
  <2>1. CASE srv.ws = 0 \/ ~HasRoom
    <3>1. Appends /\ SessionMay /\ UNCHANGED <<low, cli, wire, count>>
      BY <1>0, <1>3, <2>1, SessionSame DEF DesktopCall, Appends
    <3> QED
      BY <3>1, CarriedStays
  <2>2. CASE ~(srv.ws = 0 \/ ~HasRoom)
    <3>1. Stored("call", i) /\ srv' = [srv EXCEPT !.desk[i] = srv.ws] /\ UNCHANGED <<low, cli, count>>
          /\ (wire' = wire \/ wire' = Append(wire, Newest + 1))
      BY <1>3, <2>2 DEF DesktopCall
    <3>2. Appends
      BY <3>1, StoredAppends
    <3>3. SessionMay
      <4> DEFINE d == [srv.desk EXCEPT ![i] = srv.ws]
      <4>1. d \in [Inputs -> Nat] /\ srv' = [srv EXCEPT !.desk = d]
        BY <1>0, <3>1
      <4> HIDE DEF d
      <4> QED
        BY <1>0, <4>1, SessionBecomes
    <3>4. hist' # hist
      BY <3>1 DEF Stored, HistInv
    <3> QED
      BY <3>1, <3>2, <3>3, <3>4, CarriedStays
  <2> QED
    BY <2>1, <2>2
<1>4. CASE DesktopAnswered(i) \/ DesktopExpires(i)
  <2>1. srv' = [srv EXCEPT !.desk[i] = 0] /\ UNCHANGED <<hist, kept, low, cli, wire, count>>
    BY <1>4 DEF DesktopAnswered, DesktopExpires
  <2>2. SessionMay
    <3> DEFINE d == [srv.desk EXCEPT ![i] = 0]
    <3>1. d \in [Inputs -> Nat] /\ srv' = [srv EXCEPT !.desk = d]
      BY <1>0, <2>1
    <3> HIDE DEF d
    <3> QED
      BY <1>0, <3>1, SessionBecomes
  <2>3. Appends
    BY <2>1 DEF Appends
  <2> QED
    BY <2>1, <2>2, <2>3, CarriedStays
<1>5. CASE WaitDecided(i) \/ UseGrant(i) \/ ApprovalEnds(i) \/ FinishInput(i)
  <2>1. UNCHANGED <<hist, kept, low, cli, wire, count>> /\ (srv' = srv \/ srv' = [srv EXCEPT !.chat = NoInput])
    BY <1>5 DEF WaitDecided, UseGrant, ApprovalEnds, FinishInput
  <2>2. SessionMay
    BY <1>0, <2>1, SessionBecomes
  <2>3. Appends
    BY <2>1 DEF Appends
  <2> QED
    BY <2>1, <2>2, <2>3, CarriedStays
<1> QED
  BY <1>1, <1>2, <1>3, <1>4, <1>5 DEF ChatStep

\* What is dropped up to a place in the history leaves what lies above it.
LEMMA DroppedUpTo ==
  ASSUME NEW a \in Nat, NEW n \in Nat, NEW seq \in Nat, a <= n, seq <= n
  PROVE  /\ {s \in (a + 1)..n : s > seq} = (Max({a, seq}) + 1)..n
         /\ Max({a, seq}) \in Nat /\ Max({a, seq}) <= n
<1>1. PICK m \in Nat : m = Max({a, seq}) /\ m >= a /\ m >= seq /\ m \in {a, seq}
  BY MaxOfTwo
<1>2. {s \in (a + 1)..n : s > seq} = (m + 1)..n
  BY <1>1
<1>3. m <= n
  BY <1>1
<1> QED
  BY <1>1, <1>2, <1>3

LEMMA SeqOfMore ==
  ASSUME NEW A, NEW B, A \subseteq B, NEW w \in Seq(A)
  PROVE  w \in Seq(B)
<1>1. Len(w) \in Nat /\ w = [k \in 1..Len(w) |-> w[k]]
  OBVIOUS
<1>2. \A k \in 1..Len(w) : w[k] \in B
  OBVIOUS
<1> QED
  BY <1>1, <1>2

LEMMA Placed ==
  ASSUME NEW n \in Nat, NEW seq \in 0..n, srv \in SessionRows,
         srv' = [srv EXCEPT !.ready = TRUE, !.sent = seq] \/ srv' = [srv EXCEPT !.sent = seq]
  PROVE  srv' \in SessionRows /\ srv'.sent <= n /\ srv'.from = srv.from /\ srv'.ws = srv.ws
<1>1. seq \in Nat /\ seq <= n
  OBVIOUS
<1>2. CASE srv' = [srv EXCEPT !.ready = TRUE, !.sent = seq]
  BY <1>1, <1>2 DEF SessionRows
<1>3. CASE srv' = [srv EXCEPT !.sent = seq]
  BY <1>1, <1>3 DEF SessionRows
<1> QED
  BY <1>2, <1>3

LEMMA DeliveryKeepsCarried ==
  ASSUME HistInv, CarriedInv, Delivery
  PROVE  CarriedInv'
<1>0. /\ Newest \in Nat /\ low \in Nat /\ cli \in [at : Nat, conn : Nat] /\ srv \in SessionRows
      /\ srv.ws \in Nat /\ srv.sent \in Nat /\ srv.from \in Nat /\ srv.sent <= Newest /\ srv.from <= Newest
      /\ wire \in Seq(1..Newest) /\ kept = (low + 1)..Newest /\ low <= Newest
  BY DEF HistInv, Newest, CarriedInv, SessionFits, SessionRows
<1>1. CASE Replay
  <2> DEFINE due == {s \in kept : s > srv.from}
  <2>1. srv' = [srv EXCEPT !.ready = TRUE, !.sent = Max(due \cup {srv.from})]
        /\ (wire' = wire \o BySeq(due) \/ wire' = wire) /\ UNCHANGED <<hist, kept, low, cli, count>> /\ Newest' = Newest
    BY <1>1 DEF Replay, Newest
  <2>2. PICK m \in Nat : due = (m + 1)..Newest /\ m <= Newest
    BY <1>0, DroppedUpTo
  <2>4. Max(due \cup {srv.from}) \in 0..Newest
    BY <1>0, <2>2, GreatestOf
  <2> HIDE DEF due
  <2>3. BySeq(due) \in Seq(1..Newest)
    <3>1. BySeq((m + 1)..Newest) \in Seq((m + 1)..Newest)
      BY <1>0, <2>2, RunsBySeq
    <3>2. (m + 1)..Newest \subseteq 1..Newest
      OBVIOUS
    <3>4. BySeq((m + 1)..Newest) \in Seq(1..Newest)
      <4>1. ASSUME NEW A, A = (m + 1)..Newest, NEW B, B = 1..Newest PROVE BySeq(A) \in Seq(B)
        <5>1. A \subseteq B /\ BySeq(A) \in Seq(A)
          BY <3>1, <3>2, <4>1
        <5> QED
          BY <5>1, SeqOfMore
      <4> QED
        BY <4>1
    <3> QED
      BY <2>2, <3>4
  <2>5. wire' \in Seq(1..Newest)
    <3>1. ASSUME NEW S, NEW w \in Seq(S), NEW x \in Seq(S) PROVE w \o x \in Seq(S)
      OBVIOUS
    <3>2. wire \o BySeq(due) \in Seq(1..Newest)
      BY <1>0, <2>3, <3>1, Zenon
    <3> QED
      BY <1>0, <2>1, <3>2, Zenon
  <2>6. srv' \in SessionRows /\ srv'.sent <= Newest /\ srv'.from = srv.from /\ srv'.ws = srv.ws
    BY <1>0, <2>1, <2>4, Placed
  <2> QED
    BY <1>0, <2>1, <2>5, <2>6 DEF CarriedInv, SessionFits
<1>2. CASE Flush
  <2>1. srv' = [srv EXCEPT !.sent = Min(NotSent)] /\ (wire' = wire \/ wire' = Append(wire, Min(NotSent)))
        /\ NotSent # {} /\ UNCHANGED <<hist, kept, low, cli, count>> /\ Newest' = Newest
    BY <1>2 DEF Flush, Newest
  <2>2. PICK m \in Nat : NotSent = (m + 1)..Newest /\ m <= Newest
    BY <1>0, DroppedUpTo DEF NotSent
  <2>3. m < Newest
    BY <1>0, <2>1, <2>2
  <2>4. Min(NotSent) \in 1..Newest
    <3>1. Min((m + 1)..Newest) \in (m + 1)..Newest
      BY <1>0, <2>3, LeastOf
    <3> QED
      BY <1>0, <2>2, <3>1
  <2>5. wire' \in Seq(1..Newest)
    <3>1. ASSUME NEW S, NEW w \in Seq(S), NEW x \in S PROVE Append(w, x) \in Seq(S)
      OBVIOUS
    <3>2. Append(wire, Min(NotSent)) \in Seq(1..Newest)
      BY <1>0, <2>4, <3>1, Zenon
    <3> QED
      BY <1>0, <2>1, <3>2, Zenon
  <2>6. srv' \in SessionRows /\ srv'.sent <= Newest /\ srv'.from = srv.from /\ srv'.ws = srv.ws
    <3>1. Min(NotSent) \in 0..Newest
      BY <1>0, <2>4
    <3> QED
      BY <1>0, <2>1, <3>1, Placed
  <2> QED
    BY <1>0, <2>1, <2>5, <2>6 DEF CarriedInv, SessionFits
<1>3. CASE Receive
  <2>1. wire # <<>> /\ wire' = Tail(wire) /\ cli' = [cli EXCEPT !.at = IF Head(wire) = @ + 1 THEN @ + 1 ELSE @]
        /\ UNCHANGED <<hist, kept, low, srv, count>> /\ Newest' = Newest
    BY <1>3 DEF Receive, Newest
  <2>2. Head(wire) \in 1..Newest /\ wire' \in Seq(1..Newest)
    BY <1>0, <2>1
  <2>3. cli'.at <= Newest /\ cli'.conn = cli.conn
    BY <1>0, <2>1, <2>2 DEF CarriedInv
  <2> QED
    BY <2>1, <2>2, <2>3 DEF CarriedInv, SessionFits
<1> QED
  BY <1>1, <1>2, <1>3 DEF Delivery

LEMMA HelloKeepsCarried ==
  ASSUME HistInv, CarriedInv, Hello
  PROVE  CarriedInv'
<1>0. /\ Newest \in Nat /\ low \in Nat /\ cli \in [at : Nat, conn : Nat] /\ count \in [conns : Nat, sends : Nat, mishaps : Nat]
      /\ srv \in SessionRows /\ srv.sent \in Nat /\ srv.sent <= Newest /\ kept = (low + 1)..Newest /\ low <= Newest
      /\ cli.at <= Newest
  BY DEF HistInv, Newest, CarriedInv, SessionFits, SessionRows
<1> DEFINE c == count.conns + 1
           at == IF Resumable(cli.at) THEN cli.at ELSE Newest
           none == [i \in Inputs |-> 0]
<1>1. /\ count' = [count EXCEPT !.conns = c] /\ cli' = [at |-> at, conn |-> c]
      /\ srv' = [srv EXCEPT !.ws = c, !.ready = FALSE, !.desk = none, !.from = at]
      /\ wire' = <<>> /\ hist' = hist /\ Newest' = Newest /\ count.conns < MaxConns
  BY DEF Hello, Newest
<1>2. at \in Nat /\ at <= Newest /\ c \in Nat /\ none \in [Inputs -> Nat] /\ c <= MaxConns
  BY <1>0, <1>1, CompanionAssumption
<1>3. kept' = (low' + 1)..Newest /\ low' \in Nat /\ low' <= Newest
  <2>1. CASE Resumable(cli.at)
    <3>1. kept' = {s \in kept : s > cli.at} /\ low' = Max({low, cli.at})
      BY <2>1 DEF Hello, AckedUpTo
    <3> QED
      BY <1>0, <3>1, DroppedUpTo
  <2>2. CASE ~Resumable(cli.at)
    BY <1>0, <2>2 DEF Hello
  <2> QED
    BY <2>1, <2>2
<1> HIDE DEF c, at, none
<1>4. srv' \in SessionRows /\ srv'.ws = c /\ srv'.sent = srv.sent /\ srv'.from = at
  BY <1>0, <1>1, <1>2 DEF SessionRows
<1>5. count'.conns = c /\ cli'.at = at /\ cli'.conn = c
  BY <1>0, <1>1
<1>6. wire' \in Seq(1..Newest)
  BY <1>1
<1> QED
  BY <1>0, <1>1, <1>2, <1>3, <1>4, <1>5, <1>6 DEF CarriedInv, SessionFits

LEMMA OtherKeepsCarried ==
  ASSUME HistInv, CarriedInv, AckHistory \/ ServerNotices \/ ClientNotices \/ Leaves
  PROVE  CarriedInv'
<1>0. /\ Newest \in Nat /\ low \in Nat /\ cli \in [at : Nat, conn : Nat] /\ count \in [conns : Nat, sends : Nat, mishaps : Nat]
      /\ srv \in SessionRows /\ srv.desk \in [Inputs -> Nat] /\ kept = (low + 1)..Newest /\ low <= Newest
      /\ cli.at <= Newest /\ NoInput \in Inputs \cup {NoInput}
  BY DEF HistInv, Newest, CarriedInv, SessionFits, SessionRows
<1>1. CASE AckHistory
  <2>1. kept' = {s \in kept : s > cli.at} /\ low' = Max({low, cli.at}) /\ UNCHANGED <<hist, srv, wire, cli, count>> /\ Newest' = Newest
    BY <1>1 DEF AckHistory, AckedUpTo, Newest
  <2>2. kept' = (low' + 1)..Newest /\ low' <= Newest
    BY <1>0, <2>1, DroppedUpTo
  <2> QED
    BY <2>1, <2>2 DEF CarriedInv, SessionFits
<1>2. CASE ServerNotices \/ Interrupt
  <2>1. UNCHANGED <<hist, kept, low, wire, cli>> /\ count'.conns = count.conns
    BY <1>0, <1>2 DEF ServerNotices, Interrupt, Mishap
  <2>2. SessionMay
    <3>1. [i \in Inputs |-> 0] \in [Inputs -> Nat]
      OBVIOUS
    <3>2. \E desk \in [Inputs -> Nat] : srv' = srv \/ srv' = [srv EXCEPT !.ws = 0, !.desk = desk]
      BY <1>0, <1>2, <3>1 DEF ServerNotices, Interrupt
    <3> QED
      BY <1>0, <3>2, SessionBecomes
  <2> QED
    BY <2>1, <2>2, CarriedStays DEF Appends
<1>3. CASE ClientNotices \/ ClientLeaves
  <2>1. UNCHANGED <<hist, kept, low, srv, count>> /\ wire' = <<>> /\ cli' = [cli EXCEPT !.conn = 0] /\ Newest' = Newest
    BY <1>3 DEF ClientNotices, ClientLeaves, Newest
  <2>2. cli'.at = cli.at /\ cli'.conn = 0 /\ wire' \in Seq(1..Newest)
    BY <1>0, <2>1
  <2> QED
    BY <1>0, <2>1, <2>2 DEF CarriedInv, SessionFits
<1>4. CASE Evict
  <2>1. UNCHANGED <<hist, kept, low, wire, cli>> /\ srv' = NoSession /\ count'.conns = count.conns /\ Newest' = Newest
    BY <1>0, <1>4 DEF Evict, Mishap, Newest
  <2> QED
    BY <1>0, <2>1, SessionIdle DEF CarriedInv, SessionFits
<1>5. CASE ServerCrash
  <2>1. UNCHANGED <<hist, kept, low>> /\ wire' = <<>> /\ cli' = [cli EXCEPT !.conn = 0] /\ srv' = NoSession
        /\ count'.conns = count.conns /\ Newest' = Newest
    BY <1>0, <1>5 DEF ServerCrash, Mishap, Newest
  <2>2. cli'.at = cli.at /\ cli'.conn = 0 /\ wire' \in Seq(1..Newest)
    BY <1>0, <2>1
  <2> QED
    BY <1>0, <2>1, <2>2, SessionIdle DEF CarriedInv, SessionFits
<1>6. CASE Forget
  <2>1. PICK s \in kept : kept' = {t \in kept : t > s} /\ low' = Max({low, s})
    BY <1>6 DEF Forget
  <2>2. UNCHANGED <<hist, srv, wire, cli>> /\ count'.conns = count.conns /\ Newest' = Newest
    BY <1>0, <1>6 DEF Forget, Mishap, Newest
  <2>3. s \in Nat /\ s <= Newest
    BY <1>0, <2>1
  <2>4. kept' = (low' + 1)..Newest /\ low' <= Newest
    BY <1>0, <2>1, <2>3, DroppedUpTo
  <2> QED
    BY <2>2, <2>4 DEF CarriedInv, SessionFits
<1>7. CASE Erase
  <2>1. kept' = {} /\ low' = Newest /\ UNCHANGED <<hist, srv, wire, cli, count>> /\ Newest' = Newest
    BY <1>7 DEF Erase, Newest
  <2>2. kept' = (low' + 1)..Newest
    BY <1>0, <2>1
  <2> QED
    BY <1>0, <2>1, <2>2 DEF CarriedInv, SessionFits
<1> QED
  BY <1>1, <1>2, <1>3, <1>4, <1>5, <1>6, <1>7 DEF Leaves

LEMMA CompKeeps == CompInv /\ [CompNext]_compVars => CompInv'
<1> SUFFICES ASSUME CompInv, [CompNext]_compVars PROVE CompInv'
  OBVIOUS
<1>1. CASE CompNext
  <2>1. HistInv'
    BY <1>1, ChatKeepsHistory, OtherKeepsHistory, HelloKeeps, ForgetKeeps DEF CompInv, CompNext, Leaves
  <2>2. ChatInv'
    BY <1>1, StepKeepsChats, SendKeepsChats, OthersKeepChats DEF CompInv, CompNext
  <2>3. CarriedInv'
    BY <1>1, ChatKeepsCarried, DeliveryKeepsCarried, HelloKeepsCarried, OtherKeepsCarried DEF CompInv, CompNext
  <2> QED
    BY <2>1, <2>2, <2>3 DEF CompInv
<1>2. CASE UNCHANGED compVars
  BY <1>2 DEF compVars, CompInv, HistInv, CarriedInv, SessionFits, ChatInv, ChatTyped, ChatFits, Newest
<1> QED
  BY <1>1, <1>2

LEMMA CompAlways == CompSpec => []CompInv
<1>1. CompInit => CompInv
  BY CompInitial
<1>2. CompInv /\ [CompNext]_compVars => CompInv'
  BY CompKeeps
<1> QED
  BY <1>1, <1>2, PTL DEF CompSpec

\* No event is skipped in silence: a connected client that was told its history is whole
\* still finds every event it has not taken in the store, over any number of connections.
THEOREM EventsNotMissed == CompSpec => []NothingMissed
<1>1. CompInv => NothingMissed
  BY DEF CompInv, HistInv, NothingMissed
<1> QED
  BY <1>1, CompAlways, PTL

\* An input is executed once, and the operation it asked approval for once, with a grant
\* that was given and not withdrawn.
THEOREM InputsRunOnce == CompSpec => []InputOnce
<1>1. CompInv => InputOnce
  BY DEF CompInv, ChatInv, ChatFits, InputOnce
<1> QED
  BY <1>1, CompAlways, PTL

----------------------------------------------------------------------------
(* The graph of a coder and its reviewer *)

VertexStates == Success \cup Halts \cup {"absent", "queued", "running", "cancel_requested", "review_pending", "merging"}
VertexRows == [st : VertexStates, by : {"none", "run", "merge"}, live : BOOLEAN]
Reasons == {"none", "cancelled", "needs_input"}
GraphRows == [st : GraphTerminal \cup {"pending", "running", "cancelling", "erased"}, sealed : BOOLEAN, why : Reasons]
OpRows == [act : {"none", "merge", "archive"},
           st : {"none", "pending", "started", "completed", "failed", "uncertain", "cancelled"}, at : {"none", "claim", "io"}]
Permits == {"none", "started", "uncertain", "completed"}
Agents == {"none", "start", "work"}
GraphTyped ==
  /\ vertex \in [Vertices -> VertexRows] /\ graph \in GraphRows
  /\ permit \in [Vertices -> Permits] /\ agent \in [Vertices -> Agents] /\ begun \in [Vertices -> Nat]
  /\ host \in [Vertices -> {"none", "wait"}]
  /\ op \in OpRows

\* A node has one permit, ever; only with it, and with its leased row, does its process begin.
NodeFits(n) ==
  /\ begun[n] <= 1 /\ (agent[n] = "start" => begun[n] = 0)
  /\ permit[n] = "none" /\ owner # "erased" => begun[n] = 0 /\ agent[n] = "none"
  /\ vertex[n].st = "absent" => permit[n] = "none"
  /\ Hosted(n) => permit[n] \in {"started", "uncertain"}
  /\ agent[n] = "work" /\ owner # "erased" => n \in registered
  /\ graph.st \in GraphTerminal => vertex[n].st # "running"
  /\ owner = "erased" => permit[n] = "none" /\ agent[n] # "work"

\* Where an operation works no process can begin: the coder is beyond it, or the graph is over.
OpFits ==
  op.at # "none" => /\ op.st = "started" /\ owner # "erased"
                    /\ agent["coder"] # "work" /\ vertex["coder"].st \notin {"queued", "running"}
                    /\ op.act = "archive" => graph.st \in GraphTerminal /\ agent["reviewer"] # "work"
GcFits ==
  gc # "none" => /\ graph.st \in GraphTerminal /\ op.st \in {"none", "completed", "cancelled"}
                 /\ \A n \in Vertices : agent[n] # "work"

GraphInv == GraphTyped /\ (\A n \in Vertices : NodeFits(n)) /\ OpFits /\ GcFits

LEMMA GraphInitial == GraphInit => GraphInv
<1> SUFFICES ASSUME GraphInit PROVE GraphInv
  OBVIOUS
<1>1. GraphTyped
  BY DEF GraphInit, GraphTyped, VertexRows, VertexStates, GraphRows, Reasons, OpRows, Permits, Agents, NoOp
<1>2. \A n \in Vertices : NodeFits(n)
  BY DEF GraphInit, NodeFits, Hosted, GraphTerminal
<1>3. OpFits /\ GcFits
  BY DEF GraphInit, OpFits, GcFits, NoOp
<1> QED
  BY <1>1, <1>2, <1>3 DEF GraphInv

\* What every step but a claim does to the rows: none is put to work or taken away.
VertexMay ==
  /\ vertex' \in [Vertices -> VertexRows]
  /\ \A n \in Vertices : /\ vertex'[n].st = "running" => vertex[n].st = "running"
                         /\ vertex'[n].st = "absent" => vertex[n].st = "absent"
  /\ vertex'["coder"].st = "queued" => vertex["coder"].st = "queued"
\* A graph that is over stays so, and is over when nothing of it runs.
GraphMay ==
  /\ graph' \in GraphRows
  /\ graph.st \in GraphTerminal => graph'.st \in GraphTerminal
  /\ graph'.st \in GraphTerminal => graph.st \in GraphTerminal \/ \A n \in Vertices : vertex'[n].st # "running"
\* A permit stays used; a host that waits keeps its own.
PermitMay ==
  /\ permit' \in [Vertices -> Permits] /\ host' \in [Vertices -> {"none", "wait"}]
  /\ \A n \in Vertices : /\ permit'[n] = "none" <=> permit[n] = "none"
                         /\ host'[n] # "none" => permit'[n] \in {"started", "uncertain"}
AgentMay == agent' \in [Vertices -> Agents] /\ \A n \in Vertices : agent'[n] = agent[n] \/ agent'[n] = "none"
OpMay == op' \in OpRows
OwnerMay == owner' = "erased" <=> owner = "erased"

LEMMA GraphFrame ==
  ASSUME GraphInv, VertexMay, GraphMay, PermitMay, AgentMay, OwnerMay, OpMay,
         UNCHANGED <<registered, begun>>, OpFits', GcFits'
  PROVE  GraphInv'
<1>1. GraphTyped'
  BY DEF GraphInv, GraphTyped, VertexMay, GraphMay, PermitMay, AgentMay, OpMay
<1>2. ASSUME NEW n \in Vertices PROVE NodeFits(n)'
  BY DEF GraphInv, NodeFits, Hosted, VertexMay, GraphMay, PermitMay, AgentMay, OwnerMay
<1> QED
  BY <1>1, <1>2 DEF GraphInv

\* Steps that leave the operation and the collection alone.
LEMMA GraphQuiet ==
  ASSUME GraphInv, VertexMay, GraphMay, PermitMay, AgentMay, OwnerMay, UNCHANGED <<registered, begun, op, gc>>
  PROVE  GraphInv'
<1>1. OpFits'
  BY DEF GraphInv, OpFits, VertexMay, GraphMay, AgentMay, OwnerMay, Vertices
<1>2. GcFits'
  BY DEF GraphInv, GcFits, GraphMay, AgentMay
<1>3. OpMay
  BY DEF GraphInv, GraphTyped, OpMay
<1> QED
  BY <1>1, <1>2, <1>3, GraphFrame

LEMMA GraphSame ==
  ASSUME GraphInv
  PROVE  /\ UNCHANGED vertex => VertexMay
         /\ UNCHANGED <<graph>> => GraphMay
         /\ UNCHANGED <<permit, host>> => PermitMay
         /\ UNCHANGED agent => AgentMay
         /\ UNCHANGED op => OpMay
BY DEF GraphInv, GraphTyped, NodeFits, Hosted, VertexMay, GraphMay, PermitMay, AgentMay, OpMay

\* One row gets another state; it is freed.
LEMMA SetMay ==
  ASSUME GraphInv, NEW n \in Vertices, NEW st \in VertexStates, st \notin {"running", "absent", "queued"} \/ (st = "queued" /\ n # "coder"),
         vertex' = Set(n, st)
  PROVE  VertexMay
<1>1. vertex \in [Vertices -> VertexRows] /\ vertex[n] \in VertexRows
  BY DEF GraphInv, GraphTyped
<1>2. vertex' = [vertex EXCEPT ![n] = [vertex[n] EXCEPT !.st = st]]
  BY <1>1 DEF Set
<1>3. [vertex[n] EXCEPT !.st = st] \in VertexRows /\ [vertex[n] EXCEPT !.st = st].st = st
  BY <1>1 DEF VertexRows
<1> QED
  BY <1>1, <1>2, <1>3 DEF VertexMay

LEMMA FreesMay ==
  ASSUME GraphInv, NEW n \in Vertices, NEW st \in VertexStates,
         st \notin {"running", "absent", "queued"} \/ st = vertex[n].st, vertex' = Frees(n, st)
  PROVE  VertexMay
<1>1. vertex \in [Vertices -> VertexRows]
  BY DEF GraphInv, GraphTyped
<1>2. [st |-> st, by |-> "none", live |-> FALSE] \in VertexRows
  BY DEF VertexRows
<1> QED
  BY <1>1, <1>2 DEF VertexMay, Frees

\* The reviewer's end settles the coder.
LEMMA SettlesMay ==
  ASSUME GraphInv, NEW n \in Vertices, NEW st \in VertexStates, st \notin {"running", "absent", "queued"},
         NEW to \in VertexStates, to \notin {"running", "absent", "queued"} \/ to = vertex["coder"].st,
         vertex' = [Frees(n, st) EXCEPT !["coder"].st = to] 
  PROVE  VertexMay
<1>1. vertex \in [Vertices -> VertexRows] /\ "coder" \in Vertices
  BY DEF GraphInv, GraphTyped, Vertices
<1>2. [st |-> st, by |-> "none", live |-> FALSE] \in VertexRows
  BY DEF VertexRows
<1>3. Frees(n, st) \in [Vertices -> VertexRows] /\ Frees(n, st)["coder"] \in VertexRows
  BY <1>1, <1>2 DEF Frees
<1> DEFINE row == [Frees(n, st)["coder"] EXCEPT !.st = to]
<1>4. row \in VertexRows /\ row.st = to
  BY <1>3 DEF VertexRows
<1>5. vertex' = [Frees(n, st) EXCEPT !["coder"] = row]
  BY <1>1, <1>3
<1> HIDE DEF row
<1>6. vertex' \in [Vertices -> VertexRows] /\ vertex'["coder"].st = to /\ \A m \in Vertices : m # "coder" => vertex'[m] = Frees(n, st)[m]
  BY <1>1, <1>3, <1>4, <1>5
<1>7. \A m \in Vertices : m # "coder" => vertex'[m].st = (IF m = n THEN st ELSE vertex[m].st)
  BY <1>1, <1>2, <1>6 DEF Frees
<1> QED
  BY <1>1, <1>6, <1>7 DEF VertexMay

LEMMA StopMay ==
  ASSUME GraphInv, NEW why \in Reasons, StopGraph(why)
  PROVE  VertexMay /\ GraphMay
<1>0. vertex \in [Vertices -> VertexRows] /\ graph \in GraphRows
  BY DEF GraphInv, GraphTyped
<1>1. CASE graph.st \in GraphTerminal \cup {"erased"}
  <2>1. UNCHANGED vertex /\ graph' = (IF graph.st = "completed" THEN [graph EXCEPT !.why = why, !.sealed = TRUE] ELSE graph)
    BY <1>1 DEF StopGraph
  <2>2. graph' \in GraphRows /\ graph'.st = graph.st
    BY <1>0, <2>1 DEF GraphRows
  <2> QED
    BY <2>1, <2>2, GraphSame DEF GraphMay
<1>2. CASE graph.st \notin GraphTerminal \cup {"erased"}
  <2>1. graph' = [st |-> "cancelling", sealed |-> TRUE, why |-> why] /\ vertex' = StoppedRows
    BY <1>2 DEF StopGraph
  <2>2. GraphMay
    <3>1. graph' \in GraphRows /\ graph'.st = "cancelling"
      BY <2>1 DEF GraphRows
    <3> QED
      BY <1>2, <3>1 DEF GraphMay, GraphTerminal
  <2>3. ASSUME NEW n \in Vertices
        PROVE  StoppedRows[n] \in VertexRows /\ StoppedRows[n].st \in {vertex[n].st, "cancelled", "cancel_requested"}
    <3>1. vertex[n] \in VertexRows
      BY <1>0
    <3>2. ASSUME NEW st \in {"cancelled", "cancel_requested"}
          PROVE  [vertex[n] EXCEPT !.st = st] \in VertexRows /\ [vertex[n] EXCEPT !.st = st].st = st
      BY <3>1 DEF VertexRows, VertexStates, Halts
    <3>3. StoppedRows[n] = vertex[n] \/ \E st \in {"cancelled", "cancel_requested"} : StoppedRows[n] = [vertex[n] EXCEPT !.st = st]
      BY DEF StoppedRows
    <3> QED
      BY <3>1, <3>2, <3>3
  <2>4. \A n \in Vertices : StoppedRows[n] \in VertexRows /\ StoppedRows[n].st \in {vertex[n].st, "cancelled", "cancel_requested"}
    BY <2>3
  <2>5. StoppedRows \in [Vertices -> VertexRows]
    BY <2>4 DEF StoppedRows
  <2> QED
    BY <2>1, <2>2, <2>4, <2>5 DEF VertexMay, Vertices
<1> QED
  BY <1>1, <1>2

LEMMA RowsKeepGraph ==
  ASSUME GraphInv, HumanStops \/ Seal \/ SnapshotStops \/ GraphReview \/ SnapshotSettles
  PROVE  GraphInv'
<1>0. PermitMay /\ AgentMay /\ OwnerMay /\ UNCHANGED <<registered, begun, op, gc>>
  BY GraphSame DEF HumanStops, Seal, SnapshotStops, GraphReview, SnapshotSettles, OnlyRows, OwnerMay
<1>1. graph \in GraphRows /\ vertex \in [Vertices -> VertexRows]
  BY DEF GraphInv, GraphTyped
<1>2. CASE HumanStops \/ SnapshotStops
  <2>1. \E why \in Reasons : StopGraph(why)
    BY <1>2 DEF HumanStops, SnapshotStops, Reasons
  <2> QED
    BY <1>0, <2>1, StopMay, GraphQuiet
<1>3. CASE Seal
  <2>1. graph' \in GraphRows /\ graph'.st = graph.st
    BY <1>1, <1>3 DEF Seal, GraphRows
  <2>2. VertexMay /\ GraphMay
    BY <1>3, <2>1, GraphSame DEF Seal, GraphMay
  <2> QED
    BY <1>0, <2>2, GraphQuiet
<1>4. CASE GraphReview
  <2>1. VertexMay
    <3>1. vertex' = Set("reviewer", "queued") \/ vertex' = Set("coder", "needs_input")
      BY <1>4 DEF GraphReview
    <3>2. {"queued", "needs_input"} \subseteq VertexStates
      BY DEF VertexStates, Halts
    <3> QED
      BY <3>1, <3>2, SetMay DEF Vertices
  <2>2. GraphMay
    BY <1>4, GraphSame DEF GraphReview
  <2> QED
    BY <1>0, <2>1, <2>2, GraphQuiet
<1>5. CASE SnapshotSettles
  <2>1. vertex' = vertex \/ (vertex["reviewer"].st = "queued" /\ vertex' = Set("reviewer", "failed"))
    BY <1>5 DEF SnapshotSettles
  <2>2. VertexMay
    <3>1. "failed" \in VertexStates
      BY DEF VertexStates, Halts
    <3> QED
      BY <2>1, <3>1, SetMay, GraphSame DEF Vertices
  <2>3. GraphMay
    <3>1. CASE graph' = graph
      BY <3>1, GraphSame
    <3>2. CASE graph' # graph
      <4>1. /\ \A n \in Present : vertex'[n].st \in Success \cup Halts
            /\ graph.st \in {"pending", "running", "cancelling"}
        BY <1>5, <3>2 DEF SnapshotSettles
      <4>2. graph' = [graph EXCEPT !.sealed = TRUE,
                         !.st = IF graph.why # "none" THEN graph.why
                                ELSE IF \A n \in Present : vertex'[n].st \in Success THEN "completed" ELSE "needs_input"]
        BY <1>5, <3>2 DEF SnapshotSettles
      <4>3. graph' \in GraphRows
        BY <1>1, <4>2 DEF GraphRows, GraphTerminal, Reasons
      <4>4. \A n \in Vertices : vertex'[n].st # "running"
        <5> SUFFICES ASSUME NEW n \in Vertices PROVE vertex'[n].st # "running"
          OBVIOUS
        <5>1. CASE n \in Present
          BY <4>1, <5>1 DEF Success, Halts
        <5>2. CASE n \notin Present
          BY <2>2, <5>2 DEF Present, VertexMay
        <5> QED
          BY <5>1, <5>2
      <4> QED
        BY <4>1, <4>3, <4>4 DEF GraphMay, GraphTerminal
    <3> QED
      BY <3>1, <3>2
  <2> QED
    BY <1>0, <2>2, <2>3, GraphQuiet
<1> QED
  BY <1>2, <1>3, <1>4, <1>5

LEMMA NodeStoppedMay ==
  ASSUME GraphInv, NEW n \in Vertices, NodeStopped(n), host' = host
  PROVE  VertexMay /\ PermitMay
<1>1. VertexMay
  <2>1. vertex' = vertex \/ vertex' = Set(n, "cancelled") \/ vertex' = Set(n, "needs_resolution")
    BY DEF NodeStopped, FencedState
  <2>2. {"cancelled", "needs_resolution"} \subseteq VertexStates
    BY DEF VertexStates, Halts
  <2> QED
    BY <2>1, <2>2, SetMay, GraphSame
<1>2. PermitMay
  BY DEF NodeStopped, PermitMay, GraphInv, GraphTyped, NodeFits, Hosted, Permits
<1> QED
  BY <1>1, <1>2

LEMMA FlowKeepsGraph ==
  ASSUME GraphInv,
         \/ DispatchGraph \/ ParentCancels \/ RootEnds \/ DeadlinePasses \/ Tombstone
         \/ \E n \in Vertices : StartChild(n) \/ ChildCloses(n) \/ ChildRefused(n) \/ ChildFences(n) \/ HostStops(n)
  PROVE  GraphInv'
<1>0. AgentMay /\ OwnerMay /\ UNCHANGED <<registered, begun, op, gc>>
  BY GraphSame DEF DispatchGraph, ParentCancels, RootEnds, DeadlinePasses, Tombstone, StartChild, ChildCloses, ChildRefused,
                   ChildFences, HostStops, OwnerMay
<1>1. graph \in GraphRows
  BY DEF GraphInv, GraphTyped
<1>2. CASE DispatchGraph
  <2>1. graph' \in GraphRows /\ (graph'.st \in GraphTerminal <=> graph.st \in GraphTerminal)
    BY <1>1, <1>2 DEF DispatchGraph, GraphRows, GraphTerminal
  <2>2. VertexMay /\ GraphMay /\ PermitMay
    BY <1>2, <2>1, GraphSame DEF DispatchGraph, GraphMay
  <2> QED
    BY <1>0, <2>2, GraphQuiet
<1>3. CASE ParentCancels
  <2>1. UNCHANGED <<graph, vertex>> \/ \E why \in Reasons : StopGraph(why)
    BY <1>3 DEF ParentCancels, Reasons
  <2>2. VertexMay /\ GraphMay /\ PermitMay
    BY <1>3, <2>1, StopMay, GraphSame DEF ParentCancels
  <2> QED
    BY <1>0, <2>2, GraphQuiet
<1>4. CASE Tombstone
  <2>1. StopGraph("cancelled") /\ "cancelled" \in Reasons
    BY <1>4 DEF Tombstone, Reasons
  <2>2. VertexMay /\ GraphMay /\ PermitMay
    BY <1>4, <2>1, StopMay, GraphSame DEF Tombstone
  <2> QED
    BY <1>0, <2>2, GraphQuiet
<1>5. ASSUME RootEnds \/ DeadlinePasses \/ \E n \in Vertices : StartChild(n) \/ ChildCloses(n) \/ ChildRefused(n)
      PROVE  GraphInv'
  <2>1. VertexMay /\ GraphMay /\ PermitMay
    BY <1>5, GraphSame DEF RootEnds, DeadlinePasses, StartChild, ChildCloses, ChildRefused
  <2> QED
    BY <1>0, <2>1, GraphQuiet
<1>6. ASSUME NEW n \in Vertices, ChildFences(n) \/ HostStops(n) PROVE GraphInv'
  <2>1. NodeStopped(n) /\ host' = host /\ graph' = graph
    BY <1>6 DEF ChildFences, HostStops
  <2>2. VertexMay /\ GraphMay /\ PermitMay
    BY <2>1, NodeStoppedMay, GraphSame
  <2> QED
    BY <1>0, <2>2, GraphQuiet
<1> QED
  BY <1>2, <1>3, <1>4, <1>5, <1>6

LEMMA EndsMay ==
  ASSUME GraphInv, NEW n \in Vertices, agent' = [agent EXCEPT ![n] = "none"]
  PROVE  AgentMay
BY DEF GraphInv, GraphTyped, AgentMay, Agents

LEMMA NodeKeepsGraph ==
  ASSUME GraphInv, NEW n \in Vertices, ProcPublishes(n) \/ ProcEnds(n) \/ ProcessDone(n) \/ GraphLeaseExpires(n) \/ Reap(n)
  PROVE  GraphInv'
<1>0. GraphMay /\ OwnerMay /\ UNCHANGED <<registered, begun, op, gc>>
  BY GraphSame DEF ProcPublishes, ProcEnds, ProcessDone, GraphLeaseExpires, Reap, OnlyRows, OwnerMay
<1>1. vertex \in [Vertices -> VertexRows] /\ "coder" \in Vertices /\ "reviewer" \in Vertices /\ vertex[n] \in VertexRows
  BY DEF GraphInv, GraphTyped, Vertices
<1>2. {"review_pending", "needs_input", "completed", "rejected", "reviewed", "cancelled", "failed", "needs_resolution", "cancel_requested"}
        \subseteq VertexStates
  BY DEF VertexStates, Success, Halts
<1>3. CASE ProcPublishes(n)
  <2>1. VertexMay
    <3>1. PICK ok \in BOOLEAN :
            vertex' = IF n = "coder" THEN Frees(n, IF ok THEN "review_pending" ELSE "needs_input")
                      ELSE LET rows == Frees(n, IF ok THEN "completed" ELSE "rejected")
                           IN [rows EXCEPT !["coder"].st = IF @ # "review_pending" THEN @ ELSE IF ok THEN "reviewed" ELSE "rejected"]
      BY <1>3 DEF ProcPublishes
    <3>2. CASE n = "coder"
      BY <1>2, <3>1, <3>2, FreesMay
    <3>3. CASE n # "coder"
      <4> DEFINE st == IF ok THEN "completed" ELSE "rejected"
                 to == IF vertex["coder"].st # "review_pending" THEN vertex["coder"].st ELSE IF ok THEN "reviewed" ELSE "rejected"
      <4>1. Frees(n, st)["coder"] = vertex["coder"]
        BY <1>1, <3>3 DEF Frees
      <4>2. vertex' = [Frees(n, st) EXCEPT !["coder"].st = to]
        BY <3>1, <3>3, <4>1
      <4>3. st \in VertexStates /\ st \notin {"running", "absent", "queued"}
        BY <1>2
      <4>4. vertex["coder"].st \in VertexStates
        BY <1>1 DEF VertexRows
      <4>5. to \in VertexStates /\ (to \notin {"running", "absent", "queued"} \/ to = vertex["coder"].st)
        BY <1>2, <4>4
      <4> HIDE DEF st, to
      <4> QED
        BY <4>2, <4>3, <4>5, SettlesMay
    <3> QED
      BY <3>2, <3>3
  <2>2. PermitMay /\ AgentMay
    BY <1>3, EndsMay, GraphSame DEF ProcPublishes
  <2> QED
    BY <1>0, <2>1, <2>2, GraphQuiet
<1>4. CASE ProcEnds(n)
  <2>1. VertexMay
    <3>1. CASE vertex' = vertex
      BY <3>1, GraphSame
    <3>2. ASSUME NEW end \in {"failed", "needs_resolution"},
                 vertex' = LET rows == Frees(n, IF vertex[n].st = "cancel_requested" THEN "cancelled" ELSE end)
                           IN [rows EXCEPT !["coder"].st = IF n = "reviewer" /\ @ = "review_pending" THEN "rejected" ELSE @]
          PROVE  VertexMay
      <4> DEFINE st == IF vertex[n].st = "cancel_requested" THEN "cancelled" ELSE end
                 was == IF n = "coder" THEN st ELSE vertex["coder"].st
                 to == IF n = "reviewer" /\ was = "review_pending" THEN "rejected" ELSE was
      <4>1. Frees(n, st)["coder"].st = was
        BY <1>1 DEF Frees
      <4>2. vertex' = [Frees(n, st) EXCEPT !["coder"].st = to]
        BY <3>2, <4>1
      <4>3. st \in VertexStates /\ st \notin {"running", "absent", "queued"}
        BY <1>2
      <4>4. vertex["coder"].st \in VertexStates
        BY <1>1 DEF VertexRows
      <4>5. to \in VertexStates /\ (to \notin {"running", "absent", "queued"} \/ to = vertex["coder"].st)
        BY <1>2, <4>3, <4>4
      <4> HIDE DEF st, to
      <4> QED
        BY <4>2, <4>3, <4>5, SettlesMay
    <3> QED
      BY <1>4, <3>1, <3>2 DEF ProcEnds
  <2>2. PermitMay /\ AgentMay
    BY <1>4, EndsMay, GraphSame DEF ProcEnds
  <2> QED
    BY <1>0, <2>1, <2>2, GraphQuiet
<1>5. CASE ProcessDone(n)
  <2>1. VertexMay
    <3>1. vertex' = vertex \/ vertex' = Frees(n, "cancelled") \/ vertex' = Frees(n, "needs_resolution")
          \/ (vertex' = Frees(n, vertex[n].st))
      BY <1>5 DEF ProcessDone
    <3>2. vertex[n].st \in VertexStates
      BY <1>1 DEF VertexRows
    <3> QED
      BY <1>2, <3>1, <3>2, FreesMay, GraphSame
  <2>2. PermitMay /\ AgentMay
    BY <1>5, GraphSame DEF ProcessDone, PermitMay, GraphInv, GraphTyped, NodeFits, Hosted, Permits
  <2> QED
    BY <1>0, <2>1, <2>2, GraphQuiet
<1>6. CASE GraphLeaseExpires(n)
  <2>1. VertexMay
    <3>1. [vertex[n] EXCEPT !.live = FALSE] \in VertexRows /\ [vertex[n] EXCEPT !.live = FALSE].st = vertex[n].st
      BY <1>1 DEF VertexRows
    <3>2. vertex' = [vertex EXCEPT ![n] = [vertex[n] EXCEPT !.live = FALSE]]
      BY <1>1, <1>6 DEF GraphLeaseExpires
    <3> QED
      BY <1>1, <3>1, <3>2 DEF VertexMay
  <2>2. PermitMay /\ AgentMay
    BY <1>6, GraphSame DEF GraphLeaseExpires, OnlyRows
  <2> QED
    BY <1>0, <2>1, <2>2, GraphQuiet
<1>7. CASE Reap(n)
  <2>1. vertex' = vertex \/ vertex' = Set(n, "cancel_requested") \/ vertex' = Frees(n, "needs_resolution")
    BY <1>7 DEF Reap
  <2>2. VertexMay
    BY <1>2, <2>1, SetMay, FreesMay, GraphSame
  <2>3. PermitMay
    <3>1. permit' = [permit EXCEPT ![n] = "uncertain"] \/ permit' = [permit EXCEPT ![n] = "completed"]
      BY <1>7 DEF Reap
    <3>2. permit[n] # "none" /\ host[n] = "none" /\ host' = host
      BY <1>7 DEF Reap, Hosted
    <3> QED
      BY <3>1, <3>2 DEF PermitMay, GraphInv, GraphTyped, NodeFits, Hosted, Permits
  <2>4. AgentMay
    BY <1>7, GraphSame DEF Reap
  <2> QED
    BY <1>0, <2>2, <2>3, <2>4, GraphQuiet
<1> QED
  BY <1>3, <1>4, <1>5, <1>6, <1>7

\* A node that is quiet has no process that works, registered or never begun.
LEMMA QuietRests ==
  ASSUME GraphInv, NEW n \in Vertices, Quiet(n), owner # "erased"
  PROVE  agent[n] # "work"
BY DEF GraphInv, NodeFits, Quiet, Alive

LEMMA CrashKeepsGraph ==
  ASSUME GraphInv, HostCrash
  PROVE  GraphInv'
<1>1. VertexMay /\ GraphMay /\ OwnerMay /\ UNCHANGED <<registered, begun, gc, vertex, graph, owner>>
  BY GraphSame DEF HostCrash, OwnerMay
<1>2. PermitMay
  BY DEF HostCrash, PermitMay, GraphInv, GraphTyped
<1>3. AgentMay
  BY DEF HostCrash, AgentMay, GraphInv, GraphTyped, Agents
<1>4. op' \in OpRows /\ op'.at = "none" /\ op'.st = op.st
  BY DEF HostCrash, GraphInv, GraphTyped, OpRows
<1>5. OpFits' /\ GcFits'
  BY <1>1, <1>3, <1>4 DEF OpFits, GcFits, GraphInv, AgentMay
<1> QED
  BY <1>1, <1>2, <1>3, <1>4, <1>5, GraphFrame DEF OpMay

\* The operation of a graph: one for ever, executed while the nodes it touches rest.
LEMMA OperationKeepsGraph ==
  ASSUME GraphInv, RequestOp \/ Operation \/ OpObserved
  PROVE  GraphInv'
<1>0. PermitMay /\ AgentMay /\ OwnerMay /\ UNCHANGED <<registered, begun, agent, gc, owner>>
  BY GraphSame DEF RequestOp, Operation, ExecuteOp, OpApplies, OpCommits, OpFails, ReapOp, OpObserved, OwnerMay
<1>1. op \in OpRows /\ vertex \in [Vertices -> VertexRows] /\ "coder" \in Vertices /\ "reviewer" \in Vertices
  BY DEF GraphInv, GraphTyped, Vertices
<1>2. {"merged", "needs_resolution", "merging"} \subseteq VertexStates
  BY DEF VertexStates, Success, Halts
<1>3. GcFits
  BY DEF GraphInv
<1>4. ASSUME VertexMay, GraphMay, op' \in OpRows, op'.at # "none" => OpFits',
             gc # "none" => op'.st = op.st \/ op'.st \in {"none", "completed", "cancelled"}
      PROVE  GraphInv'
  <2>1. OpFits'
    BY <1>4 DEF OpFits
  <2>2. GcFits'
    BY <1>0, <1>3, <1>4 DEF GcFits, GraphMay
  <2> QED
    BY <1>0, <1>4, <2>1, <2>2, GraphFrame DEF OpMay
<1>5. CASE RequestOp
  <2>1. op' \in OpRows /\ op'.at = "none" /\ gc = "none" /\ VertexMay /\ GraphMay
    BY <1>5, GraphSame DEF RequestOp, OpRows
  <2> QED
    BY <1>4, <2>1
<1>6. CASE ExecuteOp
  <2>1. op.st = "pending" /\ owner = "active" /\ VertexMay /\ GraphMay /\ UNCHANGED <<vertex, graph>>
    BY <1>6, GraphSame DEF ExecuteOp
  <2>2. gc = "none"
    BY <1>3, <2>1 DEF GcFits
  <2>3. CASE ~Valid(op.act)
    <3>1. op' \in OpRows /\ op'.at = op.at /\ op.at = "none"
      BY <1>1, <1>6, <2>1, <2>3 DEF ExecuteOp, OpRows, GraphInv, OpFits
    <3> QED
      BY <1>4, <2>1, <2>2, <3>1
  <2>4. CASE Valid(op.act)
    <3>1. op' \in OpRows /\ op'.st = "started" /\ op'.act = op.act
      BY <1>1, <1>6, <2>4 DEF ExecuteOp, OpRows
    <3>2. agent["coder"] # "work"
      BY <1>1, <2>1, <2>4, QuietRests DEF Valid
    <3>3. vertex["coder"].st \notin {"queued", "running"}
      BY <2>4 DEF Valid, Halts
    <3>4. op.act = "archive" => graph.st \in GraphTerminal /\ agent["reviewer"] # "work"
      <4>1. op.act = "archive" => graph.st \in GraphTerminal /\ \A n \in Present : Quiet(n)
        BY <2>4 DEF Valid
      <4>2. CASE "reviewer" \in Present
        BY <1>1, <2>1, <4>1, <4>2, QuietRests
      <4>3. CASE "reviewer" \notin Present
        <5>1. permit["reviewer"] = "none"
          BY <1>1, <4>3 DEF Present, GraphInv, NodeFits
        <5>2. agent["reviewer"] = "none"
          BY <1>1, <2>1, <5>1 DEF GraphInv, NodeFits
        <5> QED
          BY <4>1, <5>2
      <4> QED
        BY <4>2, <4>3
    <3>5. OpFits'
      BY <1>0, <2>1, <3>1, <3>2, <3>3, <3>4 DEF OpFits
    <3> QED
      BY <1>4, <2>1, <2>2, <3>1, <3>5
  <2> QED
    BY <2>3, <2>4
<1>7. CASE OpApplies
  <2>1. op.at = "claim" /\ OpFits /\ graph' = graph /\ GraphMay
    BY <1>7, GraphSame DEF OpApplies, GraphInv
  <2>2. gc = "none"
    BY <1>3, <2>1 DEF GcFits, OpFits
  <2>3. CASE op' = [op EXCEPT !.at = "io"] /\ vertex' = vertex
    <3>1. op' \in OpRows /\ op'.st = op.st /\ op'.act = op.act /\ VertexMay
      BY <1>1, <2>3, GraphSame DEF OpRows
    <3>2. OpFits'
      BY <1>0, <2>1, <2>3, <3>1 DEF OpFits
    <3> QED
      BY <1>4, <2>1, <2>2, <3>1, <3>2
  <2>4. CASE op' = [op EXCEPT !.at = "io"] /\ vertex' = [vertex EXCEPT !["coder"] = [st |-> "merging", by |-> "merge", live |-> TRUE]]
    <3>1. op' \in OpRows /\ op'.st = op.st /\ op'.act = op.act
      BY <1>1, <2>4 DEF OpRows
    <3>2. [st |-> "merging", by |-> "merge", live |-> TRUE] \in VertexRows
      BY <1>2 DEF VertexRows
    <3>3. VertexMay /\ vertex'["coder"].st = "merging"
      BY <1>1, <2>4, <3>2 DEF VertexMay
    <3>4. OpFits'
      BY <1>0, <2>1, <3>1, <3>3 DEF OpFits
    <3> QED
      BY <1>4, <2>1, <2>2, <3>1, <3>3, <3>4
  <2>5. CASE op' = [op EXCEPT !.st = "uncertain", !.at = "none"] /\ vertex' = vertex
    <3>1. op' \in OpRows /\ op'.at = "none" /\ VertexMay
      BY <1>1, <2>5, GraphSame DEF OpRows
    <3> QED
      BY <1>4, <2>1, <2>2, <3>1
  <2> QED
    BY <1>7, <2>3, <2>4, <2>5 DEF OpApplies
<1>8. CASE OpCommits \/ OpFails \/ ReapOp
  <2>1. op.st = "started" /\ graph' = graph /\ GraphMay
    BY <1>8, GraphSame DEF OpCommits, OpFails, ReapOp, GraphInv, OpFits
  <2>2. gc = "none"
    BY <1>3, <2>1 DEF GcFits
  <2>3. op' \in OpRows /\ op'.at = "none"
    BY <1>1, <1>8 DEF OpCommits, OpFails, ReapOp, OpRows
  <2>4. vertex' = vertex \/ vertex' = Frees("coder", "merged") \/ vertex' = Set("coder", "needs_resolution")
        \/ vertex' = Frees("coder", "needs_resolution")
    BY <1>8 DEF OpCommits, OpFails, ReapOp
  <2>5. VertexMay
    BY <1>1, <1>2, <2>4, SetMay, FreesMay, GraphSame
  <2> QED
    BY <1>4, <2>1, <2>2, <2>3, <2>5
<1>9. CASE OpObserved
  <2>1. CASE op.st = "pending"
    <3>1. op' \in OpRows /\ op'.at = op.at /\ op.at = "none" /\ op'.st = "cancelled" /\ VertexMay /\ GraphMay
      BY <1>1, <1>9, <2>1, GraphSame DEF OpObserved, OpRows, GraphInv, OpFits
    <3> QED
      BY <1>4, <3>1
  <2>2. CASE op.st # "pending"
    <3>1. StopGraph("cancelled") /\ op' = op /\ "cancelled" \in Reasons
      BY <1>9, <2>2 DEF OpObserved, Reasons
    <3>2. VertexMay /\ GraphMay
      BY <3>1, StopMay
    <3> QED
      BY <1>0, <3>1, <3>2, GraphQuiet
  <2> QED
    BY <2>1, <2>2
<1> QED
  BY <1>5, <1>6, <1>7, <1>8, <1>9 DEF Operation

LEMMA CollectKeepsGraph ==
  ASSUME GraphInv, CollectBegins \/ CollectEnds
  PROVE  GraphInv'
<1>1. /\ VertexMay /\ GraphMay /\ PermitMay /\ AgentMay /\ OpMay /\ OwnerMay
      /\ UNCHANGED <<registered, begun, op, graph, vertex, agent, owner>>
  BY GraphSame DEF CollectBegins, CollectEnds, OwnerMay
<1>2. Collectable
  BY DEF CollectBegins, CollectEnds
<1>3. \A n \in Vertices : agent[n] # "work"
  <2> SUFFICES ASSUME NEW n \in Vertices PROVE agent[n] # "work"
    OBVIOUS
  <2>1. owner # "erased"
    BY <1>2 DEF Collectable
  <2>2. CASE n \in Present
    BY <1>2, <2>1, <2>2, QuietRests DEF Collectable
  <2>3. CASE n \notin Present
    <3>1. permit[n] = "none"
      BY <2>3 DEF Present, GraphInv, NodeFits
    <3> QED
      BY <2>1, <3>1 DEF GraphInv, NodeFits
  <2> QED
    BY <2>2, <2>3
<1>4. OpFits'
  BY <1>1 DEF GraphInv, OpFits
<1>5. GcFits'
  BY <1>1, <1>2, <1>3 DEF Collectable, GcFits, GraphTerminal
<1> QED
  BY <1>1, <1>4, <1>5, GraphFrame

\* A claim spends the permit: it is the node's only one.
LEMMA ClaimKeepsGraph ==
  ASSUME GraphInv, NEW n \in Vertices, ClaimVertex(n)
  PROVE  GraphInv'
<1>1. /\ permit[n] = "none" /\ vertex[n].st = "queued" /\ graph.st \in {"pending", "running"} /\ owner = "active"
      /\ UNCHANGED <<graph, registered, begun, op, gc, owner>>
  BY DEF ClaimVertex, Claimable
<1>2. begun[n] = 0 /\ graph.st \notin GraphTerminal
  BY <1>1 DEF GraphInv, NodeFits, GraphTerminal
<1>3. [st |-> "running", by |-> "run", live |-> TRUE] \in VertexRows
  BY DEF VertexRows, VertexStates
<1>4. /\ vertex' \in [Vertices -> VertexRows] /\ vertex'[n].st = "running" /\ \A m \in Vertices : m # n => vertex'[m] = vertex[m]
  BY <1>3 DEF ClaimVertex, GraphInv, GraphTyped
<1>5. /\ permit' \in [Vertices -> Permits] /\ permit'[n] = "started" /\ \A m \in Vertices : m # n => permit'[m] = permit[m]
      /\ agent' \in [Vertices -> Agents] /\ agent'[n] = "start" /\ \A m \in Vertices : m # n => agent'[m] = agent[m]
      /\ host' \in [Vertices -> {"none", "wait"}] /\ \A m \in Vertices : m # n => host'[m] = host[m]
  BY DEF ClaimVertex, GraphInv, GraphTyped, Permits, Agents
<1>6. GraphTyped'
  BY <1>1, <1>4, <1>5 DEF GraphInv, GraphTyped
<1>7. NodeFits(n)'
  BY <1>1, <1>2, <1>4, <1>5 DEF NodeFits, GraphInv
<1>8. \A m \in Vertices : m # n => NodeFits(m)'
  BY <1>1, <1>4, <1>5 DEF NodeFits, Hosted, GraphInv
<1>9. OpFits'
  <2>1. op.at # "none" => n # "coder" /\ op.act # "archive"
    BY <1>1, <1>2 DEF GraphInv, OpFits
  <2> QED
    BY <1>1, <1>4, <1>5, <2>1 DEF GraphInv, OpFits, Vertices
<1>10. GcFits'
  BY <1>1, <1>2 DEF GraphInv, GcFits
<1> QED
  BY <1>6, <1>7, <1>8, <1>9, <1>10 DEF GraphInv

\* A process begins under a live permit and a leased row: nothing works on its node.
LEMMA RegisterKeepsGraph ==
  ASSUME GraphInv, NEW n \in Vertices, ProcRegisters(n)
  PROVE  GraphInv'
<1>1. /\ agent[n] = "start" /\ vertex[n].st = "running" /\ permit[n] = "started"
      /\ UNCHANGED <<graph, vertex, permit, host, op, gc, owner>>
  BY DEF ProcRegisters, NodeCancelled, VertexLeased, Permitted
<1>2. begun[n] = 0 /\ graph.st \notin GraphTerminal /\ owner # "erased"
  BY <1>1 DEF GraphInv, NodeFits
<1>3. /\ agent' \in [Vertices -> Agents] /\ agent'[n] = "work" /\ \A m \in Vertices : m # n => agent'[m] = agent[m]
      /\ begun' \in [Vertices -> Nat] /\ begun'[n] = 1 /\ \A m \in Vertices : m # n => begun'[m] = begun[m]
      /\ registered' = registered \cup {n}
  BY <1>2 DEF ProcRegisters, GraphInv, GraphTyped, Agents
<1>4. GraphTyped'
  BY <1>1, <1>3 DEF GraphInv, GraphTyped
<1>5. NodeFits(n)'
  BY <1>1, <1>2, <1>3 DEF NodeFits, Hosted, GraphInv
<1>6. \A m \in Vertices : m # n => NodeFits(m)'
  BY <1>1, <1>3 DEF NodeFits, Hosted, GraphInv
<1>7. OpFits'
  <2>1. op.at # "none" => n # "coder" /\ op.act # "archive"
    BY <1>1, <1>2 DEF GraphInv, OpFits
  <2> QED
    BY <1>1, <1>3, <2>1 DEF GraphInv, OpFits, Vertices
<1>8. GcFits'
  BY <1>1, <1>2 DEF GraphInv, GcFits
<1> QED
  BY <1>4, <1>5, <1>6, <1>7, <1>8 DEF GraphInv

\* The rows of a deleted session go when every node is quiet.
LEMMA ScrubKeepsGraph ==
  ASSUME GraphInv, Scrub
  PROVE  GraphInv'
<1>1. \A n \in Vertices : agent[n] # "work"
  BY QuietRests DEF Scrub
<1>2. \A n \in Vertices : host[n] = "none"
  BY DEF Scrub, Quiet, GraphInv, NodeFits, Hosted
<1>3. graph' \in GraphRows /\ graph'.st = "erased"
  BY DEF Scrub, GraphInv, GraphTyped, GraphRows
<1>4. /\ owner' = "erased" /\ permit' = [n \in Vertices |-> "none"] /\ op' = NoOp /\ gc' = "none"
      /\ UNCHANGED <<vertex, host, agent, begun>>
  BY DEF Scrub
<1>5. GraphTyped'
  BY <1>3, <1>4 DEF GraphInv, GraphTyped, Permits, OpRows, NoOp
<1>6. \A n \in Vertices : NodeFits(n)'
  BY <1>1, <1>2, <1>3, <1>4 DEF GraphInv, NodeFits, Hosted, GraphTerminal
<1>7. OpFits' /\ GcFits'
  BY <1>4 DEF OpFits, GcFits, NoOp
<1> QED
  BY <1>5, <1>6, <1>7 DEF GraphInv

LEMMA GraphKeeps == GraphInv /\ [GraphNext]_graphVars => GraphInv'
<1> SUFFICES ASSUME GraphInv, [GraphNext]_graphVars PROVE GraphInv'
  OBVIOUS
<1>1. CASE Snapshot \/ HumanStops \/ Seal
  BY <1>1, RowsKeepGraph DEF Snapshot
<1>2. CASE DispatchGraph \/ ParentCancels \/ RootEnds \/ DeadlinePasses \/ Tombstone
  BY <1>2, FlowKeepsGraph
<1>3. CASE RequestOp \/ Operation \/ OpObserved \/ HostCrash \/ CollectBegins \/ CollectEnds \/ Scrub
  BY <1>3, OperationKeepsGraph, CrashKeepsGraph, CollectKeepsGraph, ScrubKeepsGraph
<1>4. ASSUME NEW n \in Vertices,
             OneNode(n) \/ Supervised(n) \/ StartChild(n) \/ ClaimVertex(n) \/ HostStops(n) \/ GraphLeaseExpires(n)
      PROVE  GraphInv'
  BY <1>4, NodeKeepsGraph, FlowKeepsGraph, ClaimKeepsGraph, RegisterKeepsGraph DEF OneNode, Supervised
<1>5. CASE UNCHANGED graphVars
  BY <1>5 DEF graphVars, GraphInv, GraphTyped, NodeFits, OpFits, GcFits, Hosted
<1> QED
  BY <1>1, <1>2, <1>3, <1>4, <1>5 DEF GraphNext

\* The Child Workflows and the history's collection have the states the code knows.
FlowTyped == flow \in [Vertices -> {"none", "open", "cancel", "fence", "closed"}] /\ gc \in {"none", "pending", "completed"}

LEMMA FlowInitial == GraphInit => FlowTyped
BY DEF GraphInit, FlowTyped

LEMMA FlowKeeps == FlowTyped /\ [GraphNext]_graphVars => FlowTyped'
<1> SUFFICES ASSUME FlowTyped, [GraphNext]_graphVars PROVE FlowTyped'
  OBVIOUS
<1>1. CASE Snapshot \/ Operation \/ DispatchGraph \/ HumanStops \/ Seal \/ HostCrash \/ RequestOp \/ OpObserved
           \/ Tombstone \/ RootEnds \/ DeadlinePasses \/ UNCHANGED graphVars
  <2>1. UNCHANGED <<flow, gc>>
    BY <1>1 DEF Snapshot, SnapshotStops, GraphReview, SnapshotSettles, Operation, ExecuteOp, OpApplies, OpCommits, OpFails,
                ReapOp, DispatchGraph, HumanStops, Seal, HostCrash, RequestOp, OpObserved, Tombstone, RootEnds,
                DeadlinePasses, OnlyRows, graphVars
  <2> QED
    BY <2>1 DEF FlowTyped
<1>2. CASE ParentCancels \/ CollectBegins \/ CollectEnds \/ Scrub
  <2>1. /\ \/ flow' = flow
           \/ flow' = [n \in Vertices |-> "closed"]
           \/ flow' = [n \in Vertices |-> IF flow[n] = "open" THEN "cancel" ELSE flow[n]]
        /\ gc' = gc \/ gc' \in {"none", "pending", "completed"}
    BY <1>2 DEF ParentCancels, CollectBegins, CollectEnds, Scrub
  <2> QED
    BY <2>1 DEF FlowTyped
<1>3. ASSUME NEW n \in Vertices,
             OneNode(n) \/ Supervised(n) \/ StartChild(n) \/ ClaimVertex(n) \/ HostStops(n) \/ GraphLeaseExpires(n)
      PROVE  FlowTyped'
  <2>1. gc' = gc /\ (flow' = flow \/ \E st \in {"open", "fence", "closed"} : flow' = [flow EXCEPT ![n] = st])
    BY <1>3 DEF OneNode, ProcRegisters, ProcPublishes, ProcEnds, Supervised, ChildCloses, ChildRefused, ChildFences, ProcessDone,
                Reap, StartChild, ClaimVertex, HostStops, GraphLeaseExpires, OnlyRows
  <2> QED
    BY <2>1 DEF FlowTyped
<1> QED
  BY <1>1, <1>2, <1>3 DEF GraphNext

----------------------------------------------------------------------------
(* The messages of a platform *)

PollerRows == [pc : {"off", "wait", "asked", "conflict", "got"}, offset : 0..LastUpdate + 1,
               batch : SUBSET Updates, conflicts : 0..ConflictRetries]
Handlers == {"none", "store", "respond", "release", "done"}
RecvTyped ==
  /\ poller \in [Pollers -> PollerRows] /\ lock \in [holder : Pollers \cup {NoPoller}, pending : BOOLEAN]
  /\ air \subseteq Pollers \cup {"gone", "foreign"} /\ confirmed \in 0..LastUpdate
  /\ stored \in [Updates \cup HookEvents -> {0, 1}] /\ dropped \subseteq Updates
  /\ tries \in [HookEvents -> [1..MaxTries -> Handlers]]
  /\ answered \subseteq HookEvents /\ command \in [HookEvents -> {"none", "held", "ready", "taken"}]

\* The lock's holder is the one poller; its request is the only one of this host at
\* Telegram, and while one it lost may still be there, the deadline lies ahead.
PollerFits(p) ==
  /\ ~Polls(p, "off") <=> lock.holder = p
  /\ Polls(p, "asked") => air = {p} /\ lock.pending
  /\ Polls(p, "conflict") => air \subseteq {"foreign"}
  /\ p \in air => Polls(p, "asked")
AirFits == ~duel /\ ("gone" \in air => lock.pending)

\* What lies below an offset, Telegram's or a poller's, was handled; so was what
\* precedes the rest of a batch.
Handled(u) == stored[u] = 1 \/ u \in dropped
OffsetFits(p, u) ==
  /\ u < poller[p].offset => Handled(u)
  /\ Polls(p, "got") => \A m \in poller[p].batch : u < m => Handled(u) \/ u \in poller[p].batch
ConfirmedFits(u) == u <= confirmed => Handled(u)

\* What was answered was stored, and a Discord command is free after its answer.
EventFits(e) ==
  /\ \A k \in 1..MaxTries : Handler(e, k) \in {"respond", "release"} => stored[e] = 1
  /\ \A k \in 1..MaxTries : Handler(e, k) = "release" => e \in answered
  /\ e \in answered => stored[e] = 1
  /\ e \in DiscordEvents /\ command[e] \in {"ready", "taken"} => e \in answered

PollInv ==
  /\ \A p \in Pollers : PollerFits(p)
  /\ AirFits
  /\ \A p \in Pollers, u \in Updates : OffsetFits(p, u)
  /\ \A u \in Updates : ConfirmedFits(u)
RecvInv == RecvTyped /\ PollInv /\ \A e \in HookEvents : EventFits(e)

LEMMA RecvInitial == RecvInit => RecvInv
<1> SUFFICES ASSUME RecvInit PROVE RecvInv
  OBVIOUS
<1> USE ReceivingAssumption
<1>1. RecvTyped
  BY DEF RecvInit, RecvTyped, PollerRows, Idle, Handlers, Updates
<1>2. PollInv
  BY DEF RecvInit, PollInv, PollerFits, AirFits, OffsetFits, ConfirmedFits, Handled, Polls, Idle, Updates
<1>3. \A e \in HookEvents : EventFits(e)
  BY DEF RecvInit, EventFits, Handler
<1> QED
  BY <1>1, <1>2, <1>3 DEF RecvInv

\* A webhook's step leaves the pollers, and stores no update that was not.
LEMMA HooksLeavePollers ==
  ASSUME RecvInv, UNCHANGED <<poller, lock, air, confirmed, dropped, duel>>,
         \A u \in Updates : stored[u] = 1 => stored'[u] = 1
  PROVE  PollInv'
BY DEF RecvInv, PollInv, PollerFits, AirFits, OffsetFits, ConfirmedFits, Handled, Polls, Updates

\* A poller's step leaves the webhooks, and takes no event from the store.
LEMMA PollersLeaveHooks ==
  ASSUME RecvInv, UNCHANGED Webhooks, \A e \in HookEvents : stored[e] = 1 => stored'[e] = 1
  PROVE  \A e \in HookEvents : EventFits(e)'
BY DEF RecvInv, EventFits, Handler, Webhooks

\* A poller's step sets its own row: these fields.
Moves(p, pc) ==
  /\ poller' \in [Pollers -> PollerRows] /\ poller'[p].pc = pc
  /\ \A q \in Pollers \ {p} : poller'[q] = poller[q]
KeepsBatch(p) == poller'[p].offset = poller[p].offset /\ poller'[p].batch = poller[p].batch

LEMMA PollerRowMoves ==
  ASSUME poller \in [Pollers -> PollerRows], NEW p \in Pollers, NEW row \in PollerRows, poller' = [poller EXCEPT ![p] = row]
  PROVE  Moves(p, row.pc) /\ poller'[p] = row
BY DEF Moves

LEMMA PolledMoves ==
  ASSUME poller \in [Pollers -> PollerRows], NEW p \in Pollers,
         NEW pc \in {"off", "wait", "asked", "conflict", "got"}, Polled(p, pc)
  PROVE  Moves(p, pc) /\ KeepsBatch(p)
<1>1. poller' \in [Pollers -> PollerRows]
  BY DEF Polled, PollerRows
<1> QED
  BY <1>1 DEF Polled, PollerRows, Moves, KeepsBatch

LEMMA IdleMoves ==
  ASSUME poller \in [Pollers -> PollerRows], NEW p \in Pollers, poller' = [poller EXCEPT ![p] = Idle]
  PROVE  Moves(p, "off") /\ poller'[p].offset = 0
<1>1. Idle \in PollerRows
  BY ReceivingAssumption DEF Idle, PollerRows
<1> QED
  BY <1>1, PollerRowMoves DEF Idle

LEMMA BatchMoves ==
  ASSUME poller \in [Pollers -> PollerRows], NEW p \in Pollers, BatchComes(p)
  PROVE  \E n \in confirmed..LastUpdate :
           /\ Moves(p, "got") /\ poller'[p].offset = poller[p].offset
           /\ poller'[p].batch = {u \in Updates : confirmed < u /\ u <= n}
<1>1. PICK n \in confirmed..LastUpdate :
        poller' = [poller EXCEPT ![p].pc = "got", ![p].batch = {u \in Updates : confirmed < u /\ u <= n}]
  BY DEF BatchComes
<1>2. poller' \in [Pollers -> PollerRows]
  BY <1>1 DEF PollerRows
<1> QED
  BY <1>1, <1>2 DEF PollerRows, Moves

LEMMA ConflictMoves ==
  ASSUME poller \in [Pollers -> PollerRows], NEW p \in Pollers, poller[p].conflicts < ConflictRetries,
         poller' = [poller EXCEPT ![p].pc = "wait", ![p].conflicts = @ + 1]
  PROVE  Moves(p, "wait") /\ KeepsBatch(p)
<1>1. poller[p].conflicts + 1 \in 0..ConflictRetries
  BY ReceivingAssumption DEF PollerRows
<1>2. poller' \in [Pollers -> PollerRows]
  BY <1>1 DEF PollerRows
<1> QED
  BY <1>2 DEF PollerRows, Moves, KeepsBatch

LEMMA HandleMoves ==
  ASSUME poller \in [Pollers -> PollerRows], NEW p \in Pollers, Handle(p)
  PROVE  \E u \in Updates \cap poller[p].batch :
           /\ \A m \in poller[p].batch : u <= m
           /\ (Ingested(u) /\ UNCHANGED dropped) \/ (dropped' = dropped \cup {u} /\ UNCHANGED stored)
           /\ poller'[p].offset = NextOffset(p, u)
           /\ Moves(p, "wait") \/ (Moves(p, "got") /\ poller'[p].batch = poller[p].batch \ {u})
<1>1. PICK u \in poller[p].batch :
        LET at == [poller[p] EXCEPT !.offset = NextOffset(p, u)]
        IN /\ \A m \in poller[p].batch : u <= m
           /\ \/ /\ Ingested(u) /\ UNCHANGED dropped
                 /\ poller' = [poller EXCEPT ![p] = [at EXCEPT !.batch = @ \ {u}]]
              \/ /\ dropped' = dropped \cup {u} /\ UNCHANGED stored
                 /\ \/ poller' = [poller EXCEPT ![p] = [at EXCEPT !.batch = @ \ {u}]]
                    \/ poller' = [poller EXCEPT ![p] = [at EXCEPT !.batch = {}, !.pc = "wait"]]
  BY DEF Handle
<1>2. u \in Updates /\ poller[p] \in PollerRows /\ poller[p].pc = "got"
  BY DEF PollerRows, Handle, Polls
<1>3. NextOffset(p, u) \in 0..LastUpdate + 1
  BY <1>2, ReceivingAssumption DEF NextOffset, PollerRows, Updates
<1> DEFINE at == [poller[p] EXCEPT !.offset = NextOffset(p, u)]
           on == [at EXCEPT !.batch = @ \ {u}]
           no == [at EXCEPT !.batch = {}, !.pc = "wait"]
<1>4. /\ on \in PollerRows /\ on.pc = "got" /\ on.offset = NextOffset(p, u) /\ on.batch = poller[p].batch \ {u}
      /\ no \in PollerRows /\ no.pc = "wait" /\ no.offset = NextOffset(p, u)
  BY <1>2, <1>3 DEF PollerRows
<1>5. poller' = [poller EXCEPT ![p] = on] \/ poller' = [poller EXCEPT ![p] = no]
  BY <1>1
<1>6. CASE poller' = [poller EXCEPT ![p] = on]
  <2> HIDE DEF on
  <2>1. Moves(p, "got") /\ poller'[p] = on
    BY <1>4, <1>6, PollerRowMoves DEF Moves
  <2> QED
    BY <1>1, <1>2, <1>4, <2>1
<1>7. CASE poller' = [poller EXCEPT ![p] = no]
  <2> HIDE DEF no
  <2>1. Moves(p, "wait") /\ poller'[p] = no
    BY <1>4, <1>7, PollerRowMoves DEF Moves
  <2> QED
    BY <1>1, <1>2, <1>4, <2>1
<1> QED
  BY <1>5, <1>6, <1>7

LEMMA PollTypes == RecvInv /\ PollNext => RecvTyped'
<1> SUFFICES ASSUME RecvInv, PollNext PROVE RecvTyped'
  OBVIOUS
<1> DEFINE Typed == poller' \in [Pollers -> PollerRows]
           Goal == /\ Typed /\ lock' \in [holder : Pollers \cup {NoPoller}, pending : BOOLEAN]
                   /\ air' \subseteq Pollers \cup {"gone", "foreign"} /\ confirmed' \in 0..LastUpdate
                   /\ stored' \in [Updates \cup HookEvents -> {0, 1}] /\ dropped' \subseteq Updates
<1>a. poller \in [Pollers -> PollerRows]
  BY DEF RecvInv, RecvTyped
<1>b. UNCHANGED <<tries, answered, command>>
  BY DEF PollNext, PollStep, Start, Ask, BatchComes, Conflict, Handle, BatchOver, AskFails, PollerDies,
         RequestEnds, DeadlineComes, ForeignAsks, ForeignEnds, Webhooks
<1> SUFFICES Goal
  BY <1>b DEF RecvInv, RecvTyped
<1> USE DEF RecvInv, RecvTyped
<1>1. ASSUME NEW p \in Pollers, Start(p) PROVE Goal
  <2>1. Typed
    BY <1>1, <1>a, PolledMoves DEF Start, Moves
  <2> QED
    BY <1>1, <2>1 DEF Start
<1>2. ASSUME NEW p \in Pollers, Ask(p) PROVE Goal
  <2>1. Typed
    BY <1>2, <1>a, PolledMoves DEF Ask, Moves
  <2>2. confirmed' \in 0..LastUpdate
    BY <1>2, <1>a, ReceivingAssumption DEF Ask, PollerRows
  <2> QED
    BY <1>2, <2>1, <2>2 DEF Ask
<1>3. ASSUME NEW p \in Pollers, BatchComes(p) PROVE Goal
  <2>1. Typed
    BY <1>3, <1>a, BatchMoves DEF Moves
  <2> QED
    BY <1>3, <2>1 DEF BatchComes
<1>4. ASSUME NEW p \in Pollers, Conflict(p) PROVE Goal
  <2>1. Typed
    BY <1>4, <1>a, ConflictMoves, IdleMoves DEF Conflict, Moves
  <2>2. lock' = [lock EXCEPT !.pending = FALSE] \/ lock' = [holder |-> NoPoller, pending |-> FALSE]
    BY <1>4 DEF Conflict
  <2>3. lock' \in [holder : Pollers \cup {NoPoller}, pending : BOOLEAN]
    <3>1. CASE lock' = [lock EXCEPT !.pending = FALSE]
      BY <3>1
    <3>2. CASE lock' = [holder |-> NoPoller, pending |-> FALSE]
      BY <3>2
    <3> QED
      BY <2>2, <3>1, <3>2
  <2>4. UNCHANGED <<air, confirmed, stored, dropped>>
    BY <1>4 DEF Conflict
  <2> QED
    BY <2>1, <2>3, <2>4
<1>5. ASSUME NEW p \in Pollers, Handle(p) PROVE Goal
  <2>1. Typed
    BY <1>5, <1>a, HandleMoves DEF Moves
  <2>2. stored' \in [Updates \cup HookEvents -> {0, 1}] /\ dropped' \subseteq Updates
    BY <1>5, <1>a, HandleMoves DEF Ingested
  <2> QED
    BY <1>5, <2>1, <2>2 DEF Handle
<1>6. ASSUME NEW p \in Pollers, BatchOver(p) PROVE Goal
  <2>1. Typed
    BY <1>6, <1>a, PolledMoves DEF BatchOver, Moves
  <2> QED
    BY <1>6, <2>1 DEF BatchOver
<1>7. ASSUME NEW p \in Pollers, AskFails(p) PROVE Goal
  <2>1. Typed
    BY <1>7, <1>a, PolledMoves DEF AskFails, Moves
  <2> QED
    BY <1>7, <2>1 DEF AskFails
<1>8. ASSUME NEW p \in Pollers, PollerDies(p) PROVE Goal
  <2>1. Typed
    BY <1>8, <1>a, IdleMoves DEF PollerDies, Moves
  <2> QED
    BY <1>8, <2>1 DEF PollerDies
<1>9. CASE RequestEnds
  BY <1>9 DEF RequestEnds
<1>10. CASE DeadlineComes
  BY <1>10 DEF DeadlineComes
<1>11. CASE ForeignAsks \/ ForeignEnds
  BY <1>11 DEF ForeignAsks, ForeignEnds
<1> QED
  BY <1>1, <1>2, <1>3, <1>4, <1>5, <1>6, <1>7, <1>8, <1>9, <1>10, <1>11 DEF PollNext, PollStep

\* Who holds the lock, and what is open at Telegram.
LEMMA PollAir == RecvInv /\ PollNext => AirFits' /\ \A q \in Pollers : PollerFits(q)'
<1> SUFFICES ASSUME RecvInv, PollNext PROVE AirFits' /\ \A q \in Pollers : PollerFits(q)'
  OBVIOUS
<1> DEFINE Goal == AirFits' /\ \A q \in Pollers : PollerFits(q)'
<1>a. poller \in [Pollers -> PollerRows] /\ lock \in [holder : Pollers \cup {NoPoller}, pending : BOOLEAN]
  BY DEF RecvInv, RecvTyped
<1>b. AirFits /\ (\A q \in Pollers : PollerFits(q)) /\ air \subseteq Pollers \cup {"gone", "foreign"}
  BY DEF RecvInv, RecvTyped, PollInv
<1> USE <1>a, <1>b, ReceivingAssumption DEF PollerFits, AirFits, Polls
<1>1. ASSUME NEW p \in Pollers, Start(p) PROVE Goal
  <2>1. Moves(p, "wait")
    BY <1>1, PolledMoves DEF Start
  <2> QED
    BY <1>1, <2>1 DEF Start, Moves
<1>2. ASSUME NEW p \in Pollers, Ask(p) PROVE Goal
  <2>1. Moves(p, IF air = {} THEN "asked" ELSE "conflict")
    BY <1>2, PolledMoves DEF Ask
  <2>2. /\ air \subseteq {"foreign"} /\ lock' = [lock EXCEPT !.pending = TRUE]
        /\ ~duel' /\ poller[p].pc = "wait" /\ lock.holder = p
    BY <1>2 DEF Ask, RequestOver
  <2>3. lock'.holder = lock.holder /\ lock'.pending
    BY <2>2
  <2>4. CASE air = {}
    <3>1. air' = {p} /\ "gone" \notin air'
      BY <1>2, <2>4 DEF Ask
    <3> QED
      BY <2>1, <2>2, <2>3, <2>4, <3>1 DEF Moves
  <2>5. CASE air # {}
    <3>1. air' = air
      BY <1>2, <2>5 DEF Ask
    <3> QED
      BY <2>1, <2>2, <2>3, <2>5, <3>1 DEF Moves
  <2> QED
    BY <2>4, <2>5
<1>3. ASSUME NEW p \in Pollers, BatchComes(p) PROVE Goal
  <2>1. Moves(p, "got")
    BY <1>3, BatchMoves
  <2> QED
    BY <1>3, <2>1 DEF BatchComes, Moves
<1>4. ASSUME NEW p \in Pollers, Conflict(p) PROVE Goal
  <2>1. UNCHANGED <<air, duel>> /\ poller[p].pc = "conflict"
    BY <1>4 DEF Conflict
  <2>2. CASE poller[p].conflicts < ConflictRetries
    <3>1. Moves(p, "wait") /\ lock' = [lock EXCEPT !.pending = FALSE]
      BY <1>4, <2>2, ConflictMoves DEF Conflict
    <3> QED
      BY <2>1, <3>1 DEF Moves
  <2>3. CASE ~(poller[p].conflicts < ConflictRetries)
    <3>1. Moves(p, "off") /\ lock' = [holder |-> NoPoller, pending |-> FALSE]
      BY <1>4, <2>3, IdleMoves DEF Conflict
    <3> QED
      BY <2>1, <3>1 DEF Moves
  <2> QED
    BY <2>2, <2>3
<1>5. ASSUME NEW p \in Pollers, Handle(p) PROVE Goal
  <2>1. UNCHANGED <<lock, air, duel>> /\ poller[p].pc = "got"
    BY <1>5 DEF Handle
  <2>2. Moves(p, "wait") \/ Moves(p, "got")
    BY <1>5, HandleMoves
  <2> QED
    BY <2>1, <2>2 DEF Moves
<1>6. ASSUME NEW p \in Pollers, BatchOver(p) PROVE Goal
  <2>1. Moves(p, "wait")
    BY <1>6, PolledMoves DEF BatchOver
  <2> QED
    BY <1>6, <2>1 DEF BatchOver, Moves
<1>7. ASSUME NEW p \in Pollers, AskFails(p) PROVE Goal
  <2>1. Moves(p, "wait")
    BY <1>7, PolledMoves DEF AskFails
  <2> QED
    BY <1>7, <2>1 DEF AskFails, Moves
<1>8. ASSUME NEW p \in Pollers, PollerDies(p) PROVE Goal
  <2>1. Moves(p, "off")
    BY <1>8, IdleMoves DEF PollerDies
  <2> QED
    BY <1>8, <2>1 DEF PollerDies, Moves
<1>9. CASE RequestEnds
  BY <1>9 DEF RequestEnds
<1>10. CASE DeadlineComes
  BY <1>10 DEF DeadlineComes
<1>11. CASE ForeignAsks \/ ForeignEnds
  BY <1>11 DEF ForeignAsks, ForeignEnds
<1> QED
  BY <1>1, <1>2, <1>3, <1>4, <1>5, <1>6, <1>7, <1>8, <1>9, <1>10, <1>11 DEF PollNext, PollStep

\* Where no update is handled, no offset rises and no batch comes, all stays as it was.
LEMMA OffsetsStay ==
  ASSUME RecvInv, UNCHANGED <<stored, dropped, confirmed>>, NEW p \in Pollers,
         \A q \in Pollers \ {p} : poller'[q] = poller[q],
         poller' \in [Pollers -> PollerRows], poller'[p].pc # "got", poller'[p].offset <= poller[p].offset
  PROVE  (\A q \in Pollers, u \in Updates : OffsetFits(q, u)') /\ \A u \in Updates : ConfirmedFits(u)'
<1>1. \A q \in Pollers : poller[q].offset \in Nat /\ poller'[q].offset \in Nat
  BY ReceivingAssumption DEF RecvInv, RecvTyped, PollerRows
<1>2. \A q \in Pollers, u \in Updates : OffsetFits(q, u) /\ u \in Nat
  BY ReceivingAssumption DEF RecvInv, PollInv, Updates
<1>3. \A u \in Updates : OffsetFits(p, u)'
  BY <1>1, <1>2 DEF OffsetFits, Handled, Polls
<1>4. \A q \in Pollers \ {p}, u \in Updates : OffsetFits(q, u)'
  BY <1>1, <1>2 DEF OffsetFits, Handled, Polls
<1>5. \A u \in Updates : ConfirmedFits(u)'
  BY DEF RecvInv, PollInv, ConfirmedFits, Handled
<1> QED
  BY <1>3, <1>4, <1>5

LEMMA PollOffsets ==
  RecvInv /\ PollNext => (\A q \in Pollers, u \in Updates : OffsetFits(q, u)') /\ \A u \in Updates : ConfirmedFits(u)'
<1> DEFINE Goal == (\A q \in Pollers, u \in Updates : OffsetFits(q, u)') /\ \A u \in Updates : ConfirmedFits(u)'
<1> SUFFICES ASSUME RecvInv, PollNext PROVE Goal
  OBVIOUS
<1>a. /\ poller \in [Pollers -> PollerRows] /\ confirmed \in Nat
      /\ \A q \in Pollers : poller[q].offset \in Nat /\ poller[q].offset <= poller[q].offset
  BY ReceivingAssumption DEF RecvInv, RecvTyped, PollerRows
<1>b. \A u \in Updates : /\ u \in Nat /\ (u <= confirmed => Handled(u))
                         /\ \A q \in Pollers : OffsetFits(q, u)
  BY ReceivingAssumption DEF RecvInv, PollInv, ConfirmedFits, Updates
<1>c. Updates \subseteq Nat
  BY <1>b
<1>1. ASSUME NEW p \in Pollers, Start(p) PROVE Goal
  BY <1>1, <1>a, PolledMoves, OffsetsStay DEF Start, Moves, KeepsBatch
<1>2. ASSUME NEW p \in Pollers, Ask(p) PROVE Goal
  <2>1. UNCHANGED <<stored, dropped>> /\ (confirmed' = confirmed \/ confirmed' = poller[p].offset - 1)
    BY <1>2 DEF Ask
  <2>2. Moves(p, IF air = {} THEN "asked" ELSE "conflict") /\ KeepsBatch(p)
    BY <1>2, <1>a, PolledMoves DEF Ask
  <2>3. \A u \in Updates : u < poller[p].offset => Handled(u)
    BY <1>b DEF OffsetFits
  <2>4. \A u \in Updates : ConfirmedFits(u)'
    BY <2>1, <2>3, <1>a, <1>b DEF ConfirmedFits, Handled
  <2>5. \A q \in Pollers : poller'[q].offset = poller[q].offset /\ (poller'[q].pc = "got" => poller'[q] = poller[q])
    BY <2>2 DEF Moves, KeepsBatch
  <2>6. \A q \in Pollers, u \in Updates : OffsetFits(q, u)'
    BY <2>1, <2>5, <1>b DEF OffsetFits, Handled, Polls
  <2> QED
    BY <2>4, <2>6
<1>3. ASSUME NEW p \in Pollers, BatchComes(p) PROVE Goal
  <2>1. UNCHANGED <<confirmed, stored, dropped>>
    BY <1>3 DEF BatchComes
  <2>3. PICK n \in confirmed..LastUpdate :
          /\ Moves(p, "got") /\ poller'[p].offset = poller[p].offset
          /\ poller'[p].batch = {u \in Updates : confirmed < u /\ u <= n}
    BY <1>3, <1>a, BatchMoves
  <2>4. n \in Nat
    BY <1>a, ReceivingAssumption
  <2>5. \A u \in Updates : OffsetFits(p, u)'
    BY <2>1, <2>3, <2>4, <1>a, <1>b DEF OffsetFits, Handled
  <2>6. \A q \in Pollers \ {p}, u \in Updates : OffsetFits(q, u)'
    BY <2>1, <2>3, <1>b DEF OffsetFits, Handled, Polls, Moves
  <2>7. \A u \in Updates : ConfirmedFits(u)'
    BY <2>1, <1>b DEF ConfirmedFits, Handled
  <2> QED
    BY <2>5, <2>6, <2>7
<1>4. ASSUME NEW p \in Pollers, Conflict(p) PROVE Goal
  <2>1. UNCHANGED <<confirmed, stored, dropped>>
    BY <1>4 DEF Conflict
  <2>2. CASE poller[p].conflicts < ConflictRetries
    <3>1. Moves(p, "wait") /\ KeepsBatch(p)
      BY <1>4, <2>2, <1>a, ConflictMoves DEF Conflict
    <3> QED
      BY <2>1, <3>1, <1>a, OffsetsStay DEF Moves, KeepsBatch
  <2>3. CASE ~(poller[p].conflicts < ConflictRetries)
    <3>1. Moves(p, "off") /\ poller'[p].offset = 0
      BY <1>4, <2>3, <1>a, IdleMoves DEF Conflict
    <3> QED
      BY <2>1, <3>1, <1>a, OffsetsStay DEF Moves
  <2> QED
    BY <2>2, <2>3
<1>5. ASSUME NEW p \in Pollers, Handle(p) PROVE Goal
  <2>1. PICK u \in Updates \cap poller[p].batch :
          /\ \A m \in poller[p].batch : u <= m
          /\ (Ingested(u) /\ UNCHANGED dropped) \/ (dropped' = dropped \cup {u} /\ UNCHANGED stored)
          /\ poller'[p].offset = NextOffset(p, u)
          /\ Moves(p, "wait") \/ (Moves(p, "got") /\ poller'[p].batch = poller[p].batch \ {u})
    BY <1>5, <1>a, HandleMoves
  <2>2. UNCHANGED confirmed /\ poller[p].pc = "got"
    BY <1>5 DEF Handle, Polls
  <2>3. Handled(u)' /\ \A v \in Updates : Handled(v) => Handled(v)'
    BY <2>1 DEF Handled, Ingested, RecvInv, RecvTyped
  <2>4. \A v \in Updates : v < u => Handled(v)
    BY <2>1, <2>2, <1>b DEF OffsetFits, Polls
  <2>5. \A v \in Updates : v < poller'[p].offset => Handled(v)'
    BY <2>1, <2>3, <2>4, <1>a, <1>b DEF OffsetFits, NextOffset
  <2>6. \A v \in Updates : OffsetFits(p, v)'
    <3> SUFFICES ASSUME NEW v \in Updates, Polls(p, "got")' PROVE \A m \in poller'[p].batch : v < m => Handled(v)' \/ v \in poller'[p].batch
      BY <2>5 DEF OffsetFits
    <3>1. poller'[p].batch = poller[p].batch \ {u}
      BY <2>1 DEF Polls, Moves
    <3> QED
      BY <3>1, <2>2, <2>3, <1>b DEF OffsetFits, Polls
  <2>7. \A q \in Pollers \ {p}, v \in Updates : OffsetFits(q, v)'
    BY <2>1, <2>3, <1>b DEF OffsetFits, Polls, Moves
  <2>8. \A v \in Updates : ConfirmedFits(v)'
    BY <2>2, <2>3, <1>b DEF ConfirmedFits
  <2> QED
    BY <2>6, <2>7, <2>8
<1>6. ASSUME NEW p \in Pollers, BatchOver(p) PROVE Goal
  BY <1>6, <1>a, PolledMoves, OffsetsStay DEF BatchOver, Moves, KeepsBatch
<1>7. ASSUME NEW p \in Pollers, AskFails(p) PROVE Goal
  BY <1>7, <1>a, PolledMoves, OffsetsStay DEF AskFails, Moves, KeepsBatch
<1>8. ASSUME NEW p \in Pollers, PollerDies(p) PROVE Goal
  <2>1. UNCHANGED <<stored, dropped, confirmed>> /\ Moves(p, "off") /\ poller'[p].offset = 0
    BY <1>8, <1>a, IdleMoves DEF PollerDies
  <2> QED
    BY <2>1, <1>a, OffsetsStay DEF Moves
<1>9. CASE RequestEnds \/ DeadlineComes \/ ForeignAsks \/ ForeignEnds
  <2>1. UNCHANGED <<poller, confirmed, stored, dropped>>
    BY <1>9 DEF RequestEnds, DeadlineComes, ForeignAsks, ForeignEnds
  <2> QED
    BY <2>1, <1>b DEF OffsetFits, ConfirmedFits, Handled, Polls
<1> QED
  BY <1>1, <1>2, <1>3, <1>4, <1>5, <1>6, <1>7, <1>8, <1>9 DEF PollNext, PollStep

LEMMA PollKeeps == RecvInv /\ PollNext => RecvInv'
<1> SUFFICES ASSUME RecvInv, PollNext PROVE RecvInv'
  OBVIOUS
<1>1. UNCHANGED Webhooks
  BY DEF PollNext, PollStep, Start, Ask, BatchComes, Conflict, Handle, BatchOver, AskFails, PollerDies,
         RequestEnds, DeadlineComes, ForeignAsks, ForeignEnds
<1>2. \A e \in HookEvents : stored[e] = 1 => stored'[e] = 1
  BY DEF PollNext, PollStep, Start, Ask, BatchComes, Conflict, Handle, BatchOver, AskFails, PollerDies,
         RequestEnds, DeadlineComes, ForeignAsks, ForeignEnds, Ingested, RecvInv, RecvTyped
<1> QED
  BY <1>1, <1>2, PollTypes, PollAir, PollOffsets, PollersLeaveHooks DEF RecvInv, PollInv

LEMMA HookKeeps == RecvInv /\ HookNext => RecvInv'
<1> SUFFICES ASSUME RecvInv, HookNext PROVE RecvInv'
  OBVIOUS
<1>0. UNCHANGED <<poller, lock, air, confirmed, dropped, duel>>
  BY DEF HookNext, HookStep, Deliver, StoreEvent, Respond, ReleaseInteraction, TakeCommand, LoopDies, ServerDies,
         ServerStarts, Polling
<1>1. /\ \A e \in Updates \cup HookEvents : stored[e] = 1 => stored'[e] = 1
      /\ stored' \in [Updates \cup HookEvents -> {0, 1}]
  BY DEF HookNext, HookStep, Deliver, StoreEvent, Respond, ReleaseInteraction, TakeCommand, LoopDies, ServerDies,
         ServerStarts, Ingested, RecvInv, RecvTyped
<1>2. PollInv'
  BY <1>0, <1>1, HooksLeavePollers
<1> DEFINE Rows == /\ tries' \in [HookEvents -> [1..MaxTries -> Handlers]] /\ answered' \subseteq HookEvents
                   /\ command' \in [HookEvents -> {"none", "held", "ready", "taken"}]
           Goal == Rows /\ \A f \in HookEvents : EventFits(f)'
<1> SUFFICES Goal
  BY <1>0, <1>1, <1>2 DEF RecvInv, RecvTyped
<1>t. /\ tries \in [HookEvents -> [1..MaxTries -> Handlers]] /\ answered \subseteq HookEvents
      /\ command \in [HookEvents -> {"none", "held", "ready", "taken"}] /\ \A f \in HookEvents : EventFits(f)
  BY DEF RecvInv, RecvTyped
<1>h. ASSUME NEW e \in HookEvents, NEW k \in 1..MaxTries, NEW pc \in Handlers, Turns(e, k, pc)
      PROVE  /\ tries' \in [HookEvents -> [1..MaxTries -> Handlers]]
             /\ \A f \in HookEvents, j \in 1..MaxTries : Handler(f, j)' = IF f = e /\ j = k THEN pc ELSE Handler(f, j)
  BY <1>t, <1>h DEF Turns, Handler
<1>s. \A f \in HookEvents : stored[f] = 1 => stored'[f] = 1
  BY <1>1
<1>3. ASSUME NEW e \in HookEvents, NEW k \in 1..MaxTries, Deliver(e, k) PROVE Goal
  <2>1. PICK pc \in {"store", "done"} : Turns(e, k, pc)
    BY <1>3 DEF Deliver
  <2>2. /\ tries' \in [HookEvents -> [1..MaxTries -> Handlers]]
        /\ \A f \in HookEvents, j \in 1..MaxTries : Handler(f, j)' = IF f = e /\ j = k THEN pc ELSE Handler(f, j)
    BY <2>1, <1>h DEF Handlers
  <2> QED
    BY <1>3, <2>1, <2>2, <1>t, <1>s DEF Deliver, EventFits
<1>4. ASSUME NEW e \in HookEvents, NEW k \in 1..MaxTries, StoreEvent(e, k) PROVE Goal
  <2>1. CASE Turns(e, k, "respond") /\ Ingested(e) /\ command' = [command EXCEPT ![e] = IF @ = "none" THEN RowOf(e) ELSE @]
    <3>1. /\ tries' \in [HookEvents -> [1..MaxTries -> Handlers]]
          /\ \A f \in HookEvents, j \in 1..MaxTries : Handler(f, j)' = IF f = e /\ j = k THEN "respond" ELSE Handler(f, j)
      BY <2>1, <1>h DEF Handlers
    <3>2. stored'[e] = 1
      BY <2>1 DEF Ingested, RecvInv, RecvTyped
    <3>3. /\ command' \in [HookEvents -> {"none", "held", "ready", "taken"}]
          /\ \A f \in DiscordEvents : command'[f] \in {"ready", "taken"} => command[f] \in {"ready", "taken"}
      BY <2>1, <1>t, ReceivingAssumption DEF RowOf
    <3> QED
      BY <1>4, <3>1, <3>2, <3>3, <1>t, <1>s DEF StoreEvent, EventFits
  <2>2. CASE Turns(e, k, "done") /\ UNCHANGED <<stored, command>>
    <3>1. /\ tries' \in [HookEvents -> [1..MaxTries -> Handlers]]
          /\ \A f \in HookEvents, j \in 1..MaxTries : Handler(f, j)' = IF f = e /\ j = k THEN "done" ELSE Handler(f, j)
      BY <2>2, <1>h DEF Handlers
    <3> QED
      BY <1>4, <2>2, <3>1, <1>t, <1>s DEF StoreEvent, EventFits
  <2> QED
    BY <1>4, <2>1, <2>2 DEF StoreEvent
<1>5. ASSUME NEW e \in HookEvents, NEW k \in 1..MaxTries, Respond(e, k) PROVE Goal
  <2>1. PICK pc \in {"release", "done"} : Turns(e, k, pc) /\ (pc = "release" => e \in answered')
    BY <1>5 DEF Respond
  <2>2. /\ tries' \in [HookEvents -> [1..MaxTries -> Handlers]]
        /\ \A f \in HookEvents, j \in 1..MaxTries : Handler(f, j)' = IF f = e /\ j = k THEN pc ELSE Handler(f, j)
    BY <2>1, <1>h DEF Handlers
  <2>3. UNCHANGED <<stored, command>> /\ stored[e] = 1 /\ (answered' = answered \/ answered' = answered \cup {e})
    BY <1>5, <1>t DEF Respond, EventFits
  <2> QED
    BY <2>1, <2>2, <2>3, <1>t DEF EventFits
<1>6. ASSUME NEW e \in HookEvents, NEW k \in 1..MaxTries, ReleaseInteraction(e, k) PROVE Goal
  <2>1. Turns(e, k, "done") /\ UNCHANGED <<stored, answered>> /\ e \in answered
    BY <1>6, <1>t DEF ReleaseInteraction, EventFits
  <2>2. /\ tries' \in [HookEvents -> [1..MaxTries -> Handlers]]
        /\ \A f \in HookEvents, j \in 1..MaxTries : Handler(f, j)' = IF f = e /\ j = k THEN "done" ELSE Handler(f, j)
    BY <2>1, <1>h DEF Handlers
  <2>3. /\ command' \in [HookEvents -> {"none", "held", "ready", "taken"}]
        /\ \A f \in HookEvents \ {e} : command'[f] = command[f]
    BY <1>6, <1>t DEF ReleaseInteraction
  <2> QED
    BY <2>1, <2>2, <2>3, <1>t DEF EventFits
<1>7. ASSUME NEW e \in HookEvents, TakeCommand(e) PROVE Goal
  BY <1>7, <1>t DEF TakeCommand, EventFits, Handler
<1>8. CASE LoopDies \/ ServerStarts
  BY <1>8, <1>t DEF LoopDies, ServerStarts, EventFits, Handler
<1>9. CASE ServerDies
  <2>1. tries' = [e \in HookEvents |-> [k \in 1..MaxTries |-> IF Handler(e, k) = "none" THEN "none" ELSE "done"]]
    BY <1>9 DEF ServerDies
  <2>2. tries' \in [HookEvents -> [1..MaxTries -> Handlers]]
    BY <2>1 DEF Handlers
  <2>3. \A f \in HookEvents, j \in 1..MaxTries : Handler(f, j)' \in {"none", "done"}
    BY <2>1 DEF Handler
  <2> QED
    BY <1>9, <2>2, <2>3, <1>t DEF ServerDies, EventFits
<1> QED
  BY <1>3, <1>4, <1>5, <1>6, <1>7, <1>8, <1>9 DEF HookNext, HookStep

LEMMA RecvStep == RecvInv /\ [PollNext \/ HookNext]_recvVars => RecvInv'
<1> SUFFICES ASSUME RecvInv, UNCHANGED recvVars PROVE RecvInv'
  BY PollKeeps, HookKeeps
<1>1. RecvTyped'
  BY DEF RecvInv, RecvTyped, recvVars
<1>2. PollInv'
  BY HooksLeavePollers DEF recvVars
<1>3. \A e \in HookEvents : EventFits(e)'
  BY PollersLeaveHooks DEF recvVars, Webhooks
<1> QED
  BY <1>1, <1>2, <1>3 DEF RecvInv

LEMMA AcceptsOnce == RecvInv => AcceptedOnce
<1> SUFFICES ASSUME RecvInv PROVE AcceptedOnce
  OBVIOUS
<1>1. \A u \in 1..confirmed : stored[u] = 1 \/ u \in dropped
  BY ReceivingAssumption DEF RecvInv, RecvTyped, PollInv, ConfirmedFits, Handled, Updates
<1>2. \A e \in answered : stored[e] = 1
  BY DEF RecvInv, RecvTyped, EventFits
<1>3. \A e \in DOMAIN stored : stored[e] <= 1
  BY DEF RecvInv, RecvTyped
<1> QED
  BY <1>1, <1>2, <1>3 DEF AcceptedOnce

LEMMA ReceivesInTurn == RecvInv => ReceivedInTurn
<1> SUFFICES ASSUME RecvInv PROVE ReceivedInTurn
  OBVIOUS
<1>1. ~duel /\ \A e \in DiscordEvents : command[e] \in {"ready", "taken"} => e \in answered
  BY ReceivingAssumption DEF RecvInv, PollInv, AirFits, EventFits
<1>2. {p \in Pollers : ~Polls(p, "off")} \subseteq {lock.holder}
  BY DEF RecvInv, PollInv, PollerFits
<1>3. IsFiniteSet({lock.holder}) /\ Cardinality({lock.holder}) = 1
  BY FS_Singleton
<1>4. Cardinality({p \in Pollers : ~Polls(p, "off")}) <= 1
  BY <1>2, <1>3, FS_Subset
<1> QED
  BY <1>1, <1>4 DEF ReceivedInTurn

----------------------------------------------------------------------------
(* The services side by side *)

ServicesInv == CompInv /\ GraphInv /\ FlowTyped /\ RecvInv /\ DeliveryInv

LEMMA ServicesAlways == Spec => []ServicesInv
<1>1. Init => ServicesInv
  BY CompInitial, GraphInitial, FlowInitial, RecvInitial, DeliveryInitial DEF Init, ServicesInv
<1>2. FirstPlan \subseteq DPlans /\ FirstJob \subseteq Jobs
  BY ServicesAssumption DEF FirstPlan, FirstJob
<1>3. ServicesInv /\ [Next]_servicesVars => ServicesInv'
  <2> SUFFICES ASSUME ServicesInv, [Next]_servicesVars PROVE ServicesInv'
    OBVIOUS
  <2>1. [CompNext]_compVars /\ [GraphNext]_graphVars /\ [PollNext \/ HookNext]_recvVars
    BY DEF Next, servicesVars, InChats, InGraphs, InPolling, InWebhooks, InDelivery
  <2>2. [DeliverNext(Jobs, DPlans) \/ PatchNext]_deliveryVars
    BY <1>2 DEF Next, servicesVars, InChats, InGraphs, InPolling, InWebhooks, InDelivery, DeliverNext
  <2> QED
    BY <2>1, <2>2, CompKeeps, GraphKeeps, FlowKeeps, RecvStep, DeliveryStep DEF ServicesInv
<1> QED
  BY <1>1, <1>3, PTL DEF Spec

\* ServicesTypeOK: every event, Session, thread, process, plan and file has a state the code
\* knows; no Session or client knows an event that is not stored yet.
THEOREM ServicesTyped == Spec => []ServicesTypeOK
<1>1. ServicesInv => CompTypeOK
  <2> SUFFICES ASSUME ServicesInv PROVE CompTypeOK
    OBVIOUS
  <2>1. Newest \in Nat /\ low \in Nat /\ cli.at \in Nat /\ cli.conn \in Nat /\ srv \in SessionRows /\ count.conns \in Nat
    BY DEF ServicesInv, CompInv, HistInv, CarriedInv, SessionFits, Newest
  <2>2. kept \subseteq 1..Newest /\ low \in 0..Newest /\ cli.at \in 0..Newest /\ cli.conn \in 0..MaxConns
    BY <2>1, CompanionAssumption DEF ServicesInv, CompInv, CarriedInv
  <2>3. srv.ws \in 0..MaxConns /\ srv.sent \in 0..Newest /\ srv.chat \in Inputs \cup {NoInput}
    BY <2>1, CompanionAssumption DEF ServicesInv, CompInv, CarriedInv, SessionFits, SessionRows
  <2> QED
    BY <2>2, <2>3 DEF ServicesInv, CompInv, ChatInv, ChatTyped, InputStates, Threads, ApprovalStates, CompTypeOK
<1>2. ServicesInv => GraphTypeOK
  BY DEF ServicesInv, GraphInv, GraphTyped, FlowTyped, GraphTypeOK, VertexRows, VertexStates, GraphRows, Reasons, OpRows,
         Permits, Agents
<1>3. ServicesInv => RecvTypeOK
  BY DEF ServicesInv, RecvInv, RecvTyped, RecvTypeOK, PollerRows, Handlers
<1>4. ServicesInv => DeliveryTypeOK
  <2> SUFFICES ASSUME ServicesInv PROVE DeliveryTypeOK
    OBVIOUS
  <2>1. DeliveryTyped
    BY DEF ServicesInv, DeliveryInv
  <2>2. dplan \in [DPlans -> [st : PlanStates, head : 0..MaxCommits, prev : 0..MaxCommits, pull : 0..MaxPulls]]
    BY <2>1 DEF DeliveryTyped, PlanRows
  <2>3. \A j \in Jobs : job[j].pc \in JobPcs
    BY <2>1 DEF DeliveryTyped, CallRows
  <2>4. patch.st \in {"none", "prepared", "applying", "applied", "needs_resolution", "abandoned"}
    BY <2>1 DEF DeliveryTyped, PatchRows
  <2> QED
    BY <2>1, <2>2, <2>3, <2>4 DEF DeliveryTyped, PullRows, PlanStates, JobPcs, DeliveryTypeOK
<1> QED
  BY <1>1, <1>2, <1>3, <1>4, ServicesAlways, PTL DEF ServicesTypeOK

\* DoneOnce: what a client, a Workflow, a platform or a tool asks for, however often, is
\* done once.
THEOREM EverythingDoneOnce == Spec => []DoneOnce
<1>1. ServicesInv => DoneOnce
  BY AcceptsOnce DEF ServicesInv, DoneOnce, CompInv, ChatInv, ChatFits, InputOnce, GraphInv, NodeFits, NodeOnce,
                     DeliveryInv, SentInv, PushedOnce
<1> QED
  BY <1>1, ServicesAlways, PTL

\* InTurn: nobody acts on a graph that still works, or on a platform that is still owed.
THEOREM EveryoneInTurn == Spec => []InTurn
<1>1. ServicesInv => InTurn
  BY ReceivesInTurn DEF ServicesInv, InTurn, GraphInv, NodeFits, OpFits, GcFits, UntouchedWhileAlive
<1> QED
  BY <1>1, ServicesAlways, PTL
=============================================================================
