------------------------------ MODULE Receiving ------------------------------
(****************************************************************************)
(* How a platform's message becomes a command.  Telegram is polled: the     *)
(* host's polling lock with the deadline of the request in the air          *)
(* (telegram_polling.py), the offset in the poller's memory and the         *)
(* handling of a batch (telegram_polling_worker.py).  LINE and Discord call *)
(* a webhook (communication_server.py); a Discord command is held until the *)
(* interaction was answered.  What becomes of a command is in CommQueue.    *)
(*                                                                          *)
(* The platforms are not in the repository: Telegram gives what is not      *)
(* confirmed, confirms below the offset of a request, and refuses a second  *)
(* request while one is open.                                               *)
(****************************************************************************)
EXTENDS Naturals, FiniteSets

CONSTANTS
  Pollers,       \* polling processes of this host
  NoPoller,      \* none of them
  LastUpdate,    \* bound: Telegram's updates are 1..LastUpdate
  ConflictRetries,  \* conflict_retries
  HookEvents,    \* events that arrive by webhook
  DiscordEvents, \* the Discord interactions among them
  MaxTries,      \* bound: deliveries of one webhook event
  MaxTroubles    \* bound: crashes, failed requests and other consumers

ASSUME ReceivingAssumption ==
  /\ {NoPoller, "gone", "foreign"} \cap Pollers = {} /\ DiscordEvents \subseteq HookEvents
  /\ {LastUpdate, ConflictRetries, MaxTries, MaxTroubles} \subseteq Nat

VARIABLES
  poller,    \* pc, offset (0: None), the rest of its batch, conflicts
  lock,      \* the polling lock: its holder, and whether pending_until lies ahead
  air,       \* getUpdates requests open at Telegram: pollers, "gone" or "foreign"
  confirmed, \* Telegram has dropped the updates up to here
  stored,    \* how many commands each update and webhook event became
  dropped,   \* the updates whose handling ended without a command
  duel,      \* history: this host asked while another request of its own was open
  tries,     \* the handlers of each webhook event
  answered,  \* the events whose delivery the platform knows as accepted
  command,       \* each webhook event's command: none, held, ready, taken
  server,    \* the server runs; its worker loop runs
  troubles

recvVars == <<poller, lock, air, confirmed, stored, dropped, duel, tries, answered, command, server, troubles>>

Updates == 1..LastUpdate
Idle == [pc |-> "off", offset |-> 0, batch |-> {}, conflicts |-> 0]

RecvInit ==
  /\ poller = [p \in Pollers |-> Idle] /\ lock = [holder |-> NoPoller, pending |-> FALSE]
  /\ air = {} /\ confirmed = 0 /\ stored = [e \in Updates \cup HookEvents |-> 0] /\ dropped = {} /\ duel = FALSE
  /\ tries = [e \in HookEvents |-> [k \in 1..MaxTries |-> "none"]]
  /\ answered = {} /\ command = [e \in HookEvents |-> "none"]
  /\ server = [up |-> TRUE, loop |-> TRUE] /\ troubles = 0

Trouble == troubles < MaxTroubles /\ troubles' = troubles + 1
Polls(p, pc) == poller[p].pc = pc
Polled(p, pc) == poller' = [poller EXCEPT ![p].pc = pc]
Webhooks == <<tries, answered, command, server>>

----------------------------------------------------------------------------
(* The Telegram poller *)

\* PollingLease.__enter__ and get_webhook_info; a second process of the host goes away.
Start(p) ==
  /\ Polls(p, "off") /\ lock.holder = NoPoller
  /\ lock' = [lock EXCEPT !.holder = p] /\ Polled(p, "wait")
  /\ UNCHANGED <<air, confirmed, stored, dropped, duel, troubles, Webhooks>>

\* Mutant of RequestOver: the deadline of an interrupted request is not looked at.
RequestOverAny == TRUE

RequestOver == ~lock.pending

\* _wait_for_pending_request, begin_request, getUpdates.
Ask(p) ==
  /\ Polls(p, "wait") /\ RequestOver /\ lock' = [lock EXCEPT !.pending = TRUE]
  /\ duel' = (duel \/ air \ {"foreign"} # {})
  /\ IF air = {}
       THEN /\ air' = {p} /\ Polled(p, "asked")
            /\ confirmed' = IF poller[p].offset > confirmed + 1 THEN poller[p].offset - 1 ELSE confirmed
       ELSE Polled(p, "conflict") /\ UNCHANGED <<air, confirmed>>
  /\ UNCHANGED <<stored, dropped, troubles, Webhooks>>

\* Telegram's answer is there: complete_request, then the batch.
BatchComes(p) ==
  /\ Polls(p, "asked") /\ air' = air \ {p} /\ lock' = [lock EXCEPT !.pending = FALSE]
  /\ \E n \in confirmed..LastUpdate :
       poller' = [poller EXCEPT ![p].pc = "got", ![p].batch = {u \in Updates : confirmed < u /\ u <= n}]
  /\ UNCHANGED <<confirmed, stored, dropped, duel, troubles, Webhooks>>

\* The connection fails: nobody knows whether Telegram still holds the request.
AskFails(p) ==
  /\ Polls(p, "asked") /\ Trouble /\ Polled(p, "wait")
  /\ air' = (air \ {p}) \cup {"gone"}
  /\ UNCHANGED <<lock, confirmed, stored, dropped, duel, Webhooks>>

\* 409: retried a few times in the life of the process, then it ends.
Conflict(p) ==
  /\ Polls(p, "conflict")
  /\ IF poller[p].conflicts < ConflictRetries
       THEN /\ lock' = [lock EXCEPT !.pending = FALSE]
            /\ poller' = [poller EXCEPT ![p].pc = "wait", ![p].conflicts = @ + 1]
       ELSE lock' = [holder |-> NoPoller, pending |-> FALSE] /\ poller' = [poller EXCEPT ![p] = Idle]
  /\ UNCHANGED <<air, confirmed, stored, dropped, duel, troubles, Webhooks>>

\* Mutant of NextOffset: one too far.
NextOffsetSkips(p, u) == u + 2

\* Mutant of NextOffset: the batch counts as handled when it is there.
NextOffsetOfBatch(p, u) == 1 + (CHOOSE m \in poller[p].batch : \A v \in poller[p].batch : v <= m)

NextOffset(p, u) == IF poller[p].offset > u + 1 THEN poller[p].offset ELSE u + 1

\* Mutant of Ingested: an event that comes again is a new command.
IngestedAgain(e) == stored' = [stored EXCEPT ![e] = @ + 1]

\* ingest_inbound_message: the event's key makes the command.
Ingested(e) == stored' = [stored EXCEPT ![e] = 1]

\* One update of the batch: the offset passes it before it is handled.  A refused sender, an
\* old timestamp, a full attachment store or a failed download raise and end the batch.
Handle(p) ==
  /\ Polls(p, "got")
  /\ \E u \in poller[p].batch :
       LET at == [poller[p] EXCEPT !.offset = NextOffset(p, u)]
       IN /\ \A m \in poller[p].batch : u <= m
          /\ \/ /\ Ingested(u) /\ UNCHANGED dropped
                /\ poller' = [poller EXCEPT ![p] = [at EXCEPT !.batch = @ \ {u}]]
             \/ /\ dropped' = dropped \cup {u} /\ UNCHANGED stored
                /\ \/ poller' = [poller EXCEPT ![p] = [at EXCEPT !.batch = @ \ {u}]]
                   \/ poller' = [poller EXCEPT ![p] = [at EXCEPT !.batch = {}, !.pc = "wait"]]
  /\ UNCHANGED <<lock, air, confirmed, duel, troubles, Webhooks>>
BatchOver(p) ==
  /\ Polls(p, "got") /\ poller[p].batch = {} /\ Polled(p, "wait")
  /\ UNCHANGED <<lock, air, confirmed, stored, dropped, duel, troubles, Webhooks>>

\* The process dies: the system releases the lock, the file keeps the deadline.
PollerDies(p) ==
  /\ ~Polls(p, "off") /\ Trouble /\ poller' = [poller EXCEPT ![p] = Idle]
  /\ lock' = [lock EXCEPT !.holder = NoPoller]
  /\ air' = IF p \in air THEN (air \ {p}) \cup {"gone"} ELSE air
  /\ UNCHANGED <<confirmed, stored, dropped, duel, Webhooks>>

\* Telegram lets an abandoned request go before its deadline; then pending_until passes.
RequestEnds == "gone" \in air /\ air' = air \ {"gone"}
  /\ UNCHANGED <<poller, lock, confirmed, stored, dropped, duel, troubles, Webhooks>>
DeadlineComes == lock.pending /\ "gone" \notin air /\ lock' = [lock EXCEPT !.pending = FALSE]
  /\ (\A p \in Pollers : ~Polls(p, "asked") /\ ~Polls(p, "conflict"))
  /\ UNCHANGED <<poller, air, confirmed, stored, dropped, duel, troubles, Webhooks>>

\* A consumer on another host.
ForeignAsks == air = {} /\ Trouble /\ air' = {"foreign"}
  /\ UNCHANGED <<poller, lock, confirmed, stored, dropped, duel, Webhooks>>
ForeignEnds == "foreign" \in air /\ air' = air \ {"foreign"}
  /\ UNCHANGED <<poller, lock, confirmed, stored, dropped, duel, troubles, Webhooks>>

----------------------------------------------------------------------------
(* Webhooks *)

Polling == <<poller, lock, air, confirmed, dropped, duel>>
Handler(e, k) == tries[e][k]
Turns(e, k, pc) == tries' = [tries EXCEPT ![e][k] = pc]

\* The platform delivers, and again while it knows of no success; verify_request and the
\* timestamp refuse what is not fresh.
Deliver(e, k) ==
  /\ server.up /\ Handler(e, k) = "none" /\ e \notin answered /\ (\A j \in 1..(k - 1) : Handler(e, j) # "none")
  /\ \E pc \in {"store", "done"} : Turns(e, k, pc)
  /\ UNCHANGED <<Polling, stored, answered, command, server, troubles>>

\* Mutant of RowOf: a Discord command can be taken at once.
RowOfAny(e) == "ready"

RowOf(e) == IF e \in DiscordEvents THEN "held" ELSE "ready"

\* handle_webhook; without room the answer is 500.
StoreEvent(e, k) ==
  /\ Handler(e, k) = "store"
  /\ \/ /\ Ingested(e) /\ command' = [command EXCEPT ![e] = IF @ = "none" THEN RowOf(e) ELSE @] /\ Turns(e, k, "respond")
     \/ stored[e] = 0 /\ Turns(e, k, "done") /\ UNCHANGED <<stored, command>>
  /\ UNCHANGED <<Polling, answered, server, troubles>>

\* The answer reaches the platform, or the connection is gone; then Discord's release is skipped.
Respond(e, k) ==
  /\ Handler(e, k) = "respond"
  /\ \/ answered' = answered \cup {e} /\ Turns(e, k, IF e \in DiscordEvents THEN "release" ELSE "done") /\ UNCHANGED troubles
     \/ Trouble /\ Turns(e, k, "done") /\ UNCHANGED answered
  /\ UNCHANGED <<Polling, stored, command, server>>

\* release_discord_interaction, after the answer.
ReleaseInteraction(e, k) ==
  /\ Handler(e, k) = "release" /\ Turns(e, k, "done")
  /\ command' = [command EXCEPT ![e] = IF @ = "held" THEN "ready" ELSE @]
  /\ UNCHANGED <<Polling, stored, answered, server, troubles>>

\* The worker loop takes the command.
TakeCommand(e) ==
  /\ server.up /\ server.loop /\ command[e] = "ready" /\ command' = [command EXCEPT ![e] = "taken"]
  /\ UNCHANGED <<Polling, stored, tries, answered, server, troubles>>

\* An exception in process_pending_once ends the thread; nobody starts another.
LoopDies == server.loop /\ Trouble /\ server' = [server EXCEPT !.loop = FALSE]
  /\ UNCHANGED <<Polling, stored, tries, answered, command>>

ServerDies ==
  /\ server.up /\ Trouble /\ server' = [up |-> FALSE, loop |-> FALSE]
  /\ tries' = [e \in HookEvents |-> [k \in 1..MaxTries |-> IF Handler(e, k) = "none" THEN "none" ELSE "done"]]
  /\ UNCHANGED <<Polling, stored, answered, command>>
ServerStarts == ~server.up /\ server' = [up |-> TRUE, loop |-> TRUE]
  /\ UNCHANGED <<Polling, stored, tries, answered, command, troubles>>

----------------------------------------------------------------------------
PollStep(p) == Ask(p) \/ BatchComes(p) \/ Conflict(p) \/ Handle(p) \/ BatchOver(p)
HookStep(e, k) == StoreEvent(e, k) \/ Respond(e, k) \/ ReleaseInteraction(e, k)

\* The poller and the webhook server are programs of their own.
PollNext ==
  \/ \E p \in Pollers : Start(p) \/ PollStep(p) \/ AskFails(p) \/ PollerDies(p)
  \/ RequestEnds \/ DeadlineComes \/ ForeignAsks \/ ForeignEnds
HookNext ==
  \/ \E e \in HookEvents : TakeCommand(e) \/ \E k \in 1..MaxTries : Deliver(e, k) \/ HookStep(e, k)
  \/ LoopDies \/ ServerDies \/ ServerStarts

\* Every poller, handler and command has a state the code knows.
RecvTypeOK ==
  /\ poller \in [Pollers -> [pc : {"off", "wait", "asked", "conflict", "got"}, offset : 0..LastUpdate + 1,
                             batch : SUBSET Updates, conflicts : 0..ConflictRetries]]
  /\ lock.holder \in Pollers \cup {NoPoller} /\ air \subseteq Pollers \cup {"gone", "foreign"} /\ confirmed \in 0..LastUpdate
  /\ tries \in [HookEvents -> [1..MaxTries -> {"none", "store", "respond", "release", "done"}]]
  /\ command \in [HookEvents -> {"none", "held", "ready", "taken"}]

\* Every message becomes one command: what Telegram has dropped was stored or refused, what
\* a platform knows as accepted is stored, and nothing is stored twice, whatever is
\* delivered again and whichever process dies.
AcceptedOnce ==
  /\ \A u \in 1..confirmed : stored[u] = 1 \/ u \in dropped
  /\ \A e \in answered : stored[e] = 1
  /\ \A e \in DOMAIN stored : stored[e] <= 1

\* Nobody is early: a host never competes with itself for getUpdates, one poller at a time,
\* the next one after the request a dead one may have left; and no work on an interaction
\* begins before there is the answer its reply will edit.
ReceivedInTurn ==
  /\ ~duel /\ Cardinality({p \in Pollers : ~Polls(p, "off")}) <= 1
  /\ \A e \in DiscordEvents : command[e] \in {"ready", "taken"} => e \in answered

\* An accepted event is taken up, unless its loop died, or its handler before the release.
Arrived == \E e \in answered : command[e] # "taken"
Stranded == \/ server.up /\ ~server.loop
            \/ \E e \in answered : command[e] = "held" /\ \A k \in 1..MaxTries : Handler(e, k) \in {"none", "done"}
=============================================================================
