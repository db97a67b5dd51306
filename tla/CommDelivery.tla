---------------------------- MODULE CommDelivery ----------------------------
(****************************************************************************)
(* The delivery ledger of the communication transports: table               *)
(* comm_deliveries of communication_store.py, the threads and main loops of *)
(* communication_worker.py that queue, claim and send replies, the Temporal *)
(* publication that only queues, and the deletion of a session              *)
(* (workspace_lifecycle/communication.py).                                  *)
(*                                                                          *)
(* A delivery stands for its key.  A key of the form command:temporal:event *)
(* (Keyed) is also recorded in comm_event_keys; every other key is made of  *)
(* the command and a digest of the text.  Texts, owners and platforms are   *)
(* not distinguished.  Time is abstract: a lease is live until it lapses, a *)
(* row is fresh until it expires, and either may happen at any moment.      *)
(****************************************************************************)
EXTENDS Naturals, FiniteSets, Sequences, SequencesExt

CONSTANTS
  Sessions,       \* conversation sessions of one owner
  Deliveries,     \* delivery keys
  SessionOf,      \* the session a delivery belongs to
  Keyed,          \* deliveries with a durable event key
  Receipts,       \* minimal receipts of a cleanup control command
  Loops,          \* main loops: process_next, the server's deliver loop
  Threads,        \* everything that calls _send_reply or publish
  Adapters,       \* the deliveries whose platform a sender's process has an adapter for
  NoDelivery,
  Page,           \* LIMIT 20 of pending_deliveries
  Capacity,       \* COMM_DELIVERY_LIMIT
  MaxPurges,      \* how often TTL may remove one row (model bound)
  MaxCrashes      \* how often processes die (model bound)

ASSUME DeliveryAssumption ==
  /\ SessionOf \in [Deliveries -> Sessions]
  /\ Keyed \subseteq Deliveries /\ Receipts \subseteq Deliveries /\ Keyed \cap Receipts = {}
  /\ NoDelivery \notin Deliveries /\ Loops \cap Threads = {}
  /\ Adapters \in [Loops \cup Threads -> SUBSET Deliveries]
  /\ Page \in Nat \ {0} /\ Capacity \in Nat \ {0}
  /\ MaxPurges \in Nat /\ MaxCrashes \in Nat

VARIABLES
  session,    \* comm_session_states
  row,        \* comm_deliveries: state, lease and expires of each key
  ledger,     \* the keys that have a row, in rowid order
  eventKeys,  \* comm_event_keys
  outbound,   \* comm_messages, direction outbound
  accepted,   \* how often the platform received the text of a delivery
  attempted,  \* the deliveries some adapter was asked to send
  purges,     \* how often cleanup_expired removed the row
  snd,        \* the senders: program counter, delivery at hand, rows still to visit
  crashes

vars == <<session, row, ledger, eventKeys, outbound, accepted, attempted, purges, snd, crashes>>

Senders == Loops \cup Threads

RowStates == {"none", "pending", "sending", "sent", "uncertain", "deleted"}
Rows == [state : RowStates, lease : {"null", "live", "lapsed"}, expired : BOOLEAN]
NoRow == [state |-> "none", lease |-> "null", expired |-> FALSE]

Pcs == {"idle", "queue", "cleanup", "scan", "claim", "send", "finish_sent", "finish_uncertain"}
Locals == [pc : Pcs, key : Deliveries \cup {NoDelivery}, todo : Seq(Deliveries)]
Idle == [pc |-> "idle", key |-> NoDelivery, todo |-> <<>>]

Init ==
  /\ session = [s \in Sessions |-> "active"]
  /\ row = [d \in Deliveries |-> NoRow]
  /\ ledger = <<>>
  /\ eventKeys = {}
  /\ outbound = [d \in Deliveries |-> "none"]
  /\ accepted = [d \in Deliveries |-> 0]
  /\ attempted = {}
  /\ purges = [d \in Deliveries |-> 0]
  /\ snd = [s \in Senders |-> Idle]
  /\ crashes = 0

Active(d) == session[SessionOf[d]] = "active"

\* The rows of a table that a WHERE clause keeps, in rowid order.
Selected(rows, keep) ==
  LET Upto[n \in 0..Len(rows)] ==
        IF n = 0 THEN <<>>
        ELSE IF rows[n] \in keep THEN Append(Upto[n - 1], rows[n]) ELSE Upto[n - 1]
  IN Upto[Len(rows)]

----------------------------------------------------------------------------
(* Queueing *)

\* _send_reply: the lifecycle is read here and again by queue_delivery.  A
\* cleanup receipt is only queued once the session has left the active state.
SendReply(s, d) ==
  /\ s \in Threads /\ snd[s].pc = "idle"
  /\ (d \in Receipts) # Active(d)
  /\ snd' = [snd EXCEPT ![s] = [pc |-> "queue", key |-> d, todo |-> <<>>]]
  /\ UNCHANGED <<session, row, ledger, eventKeys, outbound, accepted, attempted, purges, crashes>>

MayQueueNoFence(d) == TRUE

\* queue_delivery refuses a reply to a deleting or deleted session.
MayQueue(d) == Active(d) \/ d \in Receipts

KnownKeyRowOnly(d) == row[d].state # "none"

\* The key already names a row, or is recorded as an event whose row is gone.
KnownKey(d) == row[d].state # "none" \/ d \in eventKeys

EventKeyAlways(d) == {d}

\* What comm_event_keys gains when a row is made for d.
EventKey(d) == {d} \cap Keyed

\* The transaction of queue_delivery for a key it has not seen.
InsertRow(d) ==
  /\ MayQueue(d) /\ ~KnownKey(d) /\ Len(ledger) < Capacity
  /\ eventKeys' = eventKeys \cup EventKey(d)
  /\ row' = [row EXCEPT ![d] = [state |-> "pending", lease |-> "null", expired |-> FALSE]]
  /\ ledger' = Append(ledger, d)

QueueDelivery(s) ==
  /\ snd[s].pc = "queue"
  /\ InsertRow(snd[s].key)
  /\ snd' = [snd EXCEPT ![s].pc = "cleanup"]
  /\ UNCHANGED <<session, outbound, accepted, attempted, purges, crashes>>

\* A known key is returned as it is, and the caller goes on to deliver it.
QueueKnown(s) ==
  LET d == snd[s].key IN
  /\ snd[s].pc = "queue"
  /\ MayQueue(d) /\ KnownKey(d)
  /\ snd' = [snd EXCEPT ![s].pc = "cleanup"]
  /\ UNCHANGED <<session, row, ledger, eventKeys, outbound, accepted, attempted, purges, crashes>>

\* DeletedConversation or CapacityError leaves queue_delivery; nothing is written.
QueueRefused(s) ==
  LET d == snd[s].key IN
  /\ snd[s].pc = "queue"
  /\ ~MayQueue(d) \/ (~KnownKey(d) /\ Len(ledger) >= Capacity)
  /\ snd' = [snd EXCEPT ![s] = Idle]
  /\ UNCHANGED <<session, row, ledger, eventKeys, outbound, accepted, attempted, purges, crashes>>

\* The Temporal publication queues an event and leaves the sending to the loops.
Publish(d) ==
  /\ d \in Keyed
  /\ InsertRow(d)
  /\ UNCHANGED <<session, outbound, accepted, attempted, purges, snd, crashes>>

----------------------------------------------------------------------------
(* Delivering *)

\* deliver_pending() of a main loop.
StartLoop(s) ==
  /\ s \in Loops /\ snd[s].pc = "idle"
  /\ snd' = [snd EXCEPT ![s].pc = "cleanup"]
  /\ UNCHANGED <<session, row, ledger, eventKeys, outbound, accepted, attempted, purges, crashes>>

Lapsed(d) == row[d].state = "sending" /\ row[d].lease = "lapsed"

CleanedStateKept == "sending"

\* What becomes of a sending row whose lease has lapsed.
CleanedState == "uncertain"

\* Expired rows are removed once sent, or while nobody has claimed them.
Purgeable(d) == row[d].expired /\ row[d].state \in {"sent", "pending"}

CleanupExpired(s) ==
  LET gone == {d \in Deliveries : Purgeable(d)} IN
  /\ snd[s].pc = "cleanup"
  /\ \A d \in gone : purges[d] < MaxPurges
  /\ row' = [d \in Deliveries |->
               IF d \in gone THEN NoRow
               ELSE IF Lapsed(d) THEN [row[d] EXCEPT !.state = CleanedState] ELSE row[d]]
  /\ ledger' = Selected(ledger, Deliveries \ gone)
  /\ purges' = [d \in Deliveries |-> IF d \in gone THEN purges[d] + 1 ELSE purges[d]]
  /\ snd' = [snd EXCEPT ![s].pc = "scan"]
  /\ UNCHANGED <<session, eventKeys, outbound, accepted, attempted, crashes>>

FirstPage(rows) == SubSeq(rows, 1, IF Len(rows) < Page THEN Len(rows) ELSE Page)

PendingPageFilterLate(key) ==
  Selected(FirstPage(ledger), {d \in Deliveries : row[d].state = "pending" /\ key \in {NoDelivery, d}})

\* pending_deliveries: one page of unexpired pending rows, or the one asked for.
PendingPage(key) ==
  FirstPage(Selected(ledger, {d \in Deliveries : /\ row[d].state = "pending" /\ ~row[d].expired
                                                 /\ key \in {NoDelivery, d}}))

PendingDeliveries(s) ==
  /\ snd[s].pc = "scan"
  /\ snd' = [snd EXCEPT ![s].pc = "claim", ![s].todo = PendingPage(snd[s].key)]
  /\ UNCHANGED <<session, row, ledger, eventKeys, outbound, accepted, attempted, purges, crashes>>

\* claim_delivery reads the row again: the page may be stale by now.
Claimable(d) ==
  row[d].state = "pending" /\ ~row[d].expired /\ (d \in Receipts \/ Active(d))

ClaimDelivery(s) ==
  LET d == Head(snd[s].todo) IN
  /\ snd[s].pc = "claim" /\ snd[s].todo # <<>>
  /\ Claimable(d)
  /\ row' = [row EXCEPT ![d].state = "sending", ![d].lease = "live"]
  /\ snd' = [snd EXCEPT ![s].pc = "send"]
  /\ UNCHANGED <<session, ledger, eventKeys, outbound, accepted, attempted, purges, crashes>>

ClaimLost(s) ==
  /\ snd[s].pc = "claim" /\ snd[s].todo # <<>>
  /\ ~Claimable(Head(snd[s].todo))
  /\ snd' = [snd EXCEPT ![s].todo = Tail(@)]
  /\ UNCHANGED <<session, row, ledger, eventKeys, outbound, accepted, attempted, purges, crashes>>

DeliveryDone(s) ==
  /\ snd[s].pc = "claim" /\ snd[s].todo = <<>>
  /\ snd' = [snd EXCEPT ![s] = Idle]
  /\ UNCHANGED <<session, row, ledger, eventKeys, outbound, accepted, attempted, purges, crashes>>

AfterErrorSent == "finish_sent"

\* Any exception of send_message: the platform may have taken the text or not.
AfterError == "finish_uncertain"

\* The adapter's send_message returns, or raises before or after the platform
\* took the message.
SendMessage(s) ==
  LET d == Head(snd[s].todo) IN
  /\ snd[s].pc = "send" /\ d \in Adapters[s]
  /\ \E took \in {0, 1}, next \in {"finish_sent", AfterError} :
       /\ next = AfterError \/ took = 1
       /\ accepted' = [accepted EXCEPT ![d] = @ + took]
       /\ snd' = [snd EXCEPT ![s].pc = next]
  /\ attempted' = attempted \cup {d}
  /\ UNCHANGED <<session, row, ledger, eventKeys, outbound, purges, crashes>>

\* A process claims rows of every platform; self.adapters[...] raises KeyError
\* for one it has no adapter for.
NoAdapter(s) ==
  /\ snd[s].pc = "send" /\ Head(snd[s].todo) \notin Adapters[s]
  /\ snd' = [snd EXCEPT ![s].pc = "finish_uncertain"]
  /\ UNCHANGED <<session, row, ledger, eventKeys, outbound, accepted, attempted, purges, crashes>>

\* finish_delivery only touches a row that is still sending.
MayFinish(d) == row[d].state = "sending"

FinishDelivery(s, state) ==
  LET d == Head(snd[s].todo) IN
  /\ IF MayFinish(d)
       THEN /\ row' = [row EXCEPT ![d].state = state, ![d].lease = "null"]
            /\ outbound' = IF state = "sent" /\ outbound[d] = "none"
                             THEN [outbound EXCEPT ![d] = "sent"] ELSE outbound
       ELSE UNCHANGED <<row, outbound>>
  /\ snd' = [snd EXCEPT ![s].pc = "claim", ![s].todo = Tail(@)]
  /\ UNCHANGED <<session, ledger, eventKeys, accepted, attempted, purges, crashes>>

FinishSent(s) == snd[s].pc = "finish_sent" /\ FinishDelivery(s, "sent")

\* finish_delivery('sent') is inside the try: if it raises, the row is uncertain.
FinishRaised(s) ==
  /\ snd[s].pc = "finish_sent"
  /\ snd' = [snd EXCEPT ![s].pc = "finish_uncertain"]
  /\ UNCHANGED <<session, row, ledger, eventKeys, outbound, accepted, attempted, purges, crashes>>

FinishUncertain(s) == snd[s].pc = "finish_uncertain" /\ FinishDelivery(s, "uncertain")

----------------------------------------------------------------------------
(* Deletion of a session *)

BeginDeletion(x) ==
  /\ session[x] = "active"
  /\ session' = [session EXCEPT ![x] = "deleting"]
  /\ UNCHANGED <<row, ledger, eventKeys, outbound, accepted, attempted, purges, snd, crashes>>

BlockedNever(x) == FALSE

\* lifecycle_blockers, as far as deliveries are concerned.
Blocked(x) == \E d \in Deliveries : SessionOf[d] = x /\ row[d].state = "sending" /\ row[d].lease = "live"

\* erase_session runs after begin_session_deletion, once nothing blocks it, and
\* again when a cleanup that died after it is resumed.
EraseSession(x) ==
  /\ session[x] # "active"
  /\ ~Blocked(x)
  /\ session' = [session EXCEPT ![x] = "deleted"]
  /\ row' = [d \in Deliveries |->
               IF SessionOf[d] = x /\ d \notin Receipts /\ row[d].state # "none"
                 THEN [row[d] EXCEPT !.state = "deleted", !.lease = "null"] ELSE row[d]]
  /\ outbound' = [d \in Deliveries |->
               IF SessionOf[d] = x /\ outbound[d] = "sent" THEN "deleted" ELSE outbound[d]]
  /\ UNCHANGED <<ledger, eventKeys, accepted, attempted, purges, snd, crashes>>

----------------------------------------------------------------------------
(* Time and failures *)

LapseLease(d) ==
  /\ row[d].lease = "live"
  /\ row' = [row EXCEPT ![d].lease = "lapsed"]
  /\ UNCHANGED <<session, ledger, eventKeys, outbound, accepted, attempted, purges, snd, crashes>>

ExpireRow(d) ==
  /\ row[d].state # "none" /\ ~row[d].expired /\ purges[d] < MaxPurges
  /\ row' = [row EXCEPT ![d].expired = TRUE]
  /\ UNCHANGED <<session, ledger, eventKeys, outbound, accepted, attempted, purges, snd, crashes>>

\* A process dies between any two of its steps; its rows stay as they are.
Crash(s) ==
  /\ snd[s].pc # "idle" /\ crashes < MaxCrashes
  /\ snd' = [snd EXCEPT ![s] = Idle]
  /\ crashes' = crashes + 1
  /\ UNCHANGED <<session, row, ledger, eventKeys, outbound, accepted, attempted, purges>>

----------------------------------------------------------------------------
Deliver(s) ==
  \/ StartLoop(s) \/ CleanupExpired(s) \/ PendingDeliveries(s)
  \/ ClaimDelivery(s) \/ ClaimLost(s) \/ DeliveryDone(s)
  \/ SendMessage(s) \/ NoAdapter(s) \/ FinishSent(s) \/ FinishRaised(s) \/ FinishUncertain(s)

Queue(s) == QueueDelivery(s) \/ QueueKnown(s) \/ QueueRefused(s)

Next ==
  \/ \E s \in Senders : Deliver(s) \/ Queue(s) \/ Crash(s) \/ \E d \in Deliveries : SendReply(s, d)
  \/ \E d \in Deliveries : Publish(d) \/ LapseLease(d) \/ ExpireRow(d)
  \/ \E x \in Sessions : BeginDeletion(x) \/ EraseSession(x)

Spec == Init /\ [][Next]_vars

\* The loops keep calling deliver_pending and every call of it comes to an end
\* (adapters have timeouts); the clock runs a lease out.
FairSpec ==
  /\ Spec
  /\ \A s \in Senders : WF_vars(Deliver(s))
  /\ \A d \in Deliveries : WF_vars(LapseLease(d))

----------------------------------------------------------------------------
(* Properties *)

\* Every variable keeps its type, and the ledger lists the keys with a row, each once
\* and no more than COMM_DELIVERY_LIMIT, whatever is queued, purged and erased in between
\* (queue_delivery, cleanup_expired, erase_session).
TypeOK ==
  /\ session \in [Sessions -> {"active", "deleting", "deleted"}]
  /\ row \in [Deliveries -> Rows]
  /\ ledger \in Seq(Deliveries) /\ Len(ledger) <= Capacity /\ IsInjective(ledger)
  /\ ToSet(ledger) = {d \in Deliveries : row[d].state # "none"}
  /\ eventKeys \subseteq Keyed
  /\ outbound \in [Deliveries -> {"none", "sent", "deleted"}]
  /\ accepted \in [Deliveries -> Nat]
  /\ attempted \subseteq Deliveries
  /\ purges \in [Deliveries -> 0..MaxPurges]
  /\ snd \in [Senders -> Locals]
  /\ crashes \in 0..MaxCrashes

\* The platform takes a reply at most once per row ever made for it, and an
\* event of the Temporal backend at most once at all: no interleaving of
\* loops, threads, crashes and lapsed leases sends a claimed row again
\* (claim_delivery, cleanup_expired, queue_delivery).
\* What is recorded as sent was taken, whoever finished it and however late
\* (deliver_pending, finish_delivery).
SentOnce ==
  \A d \in Deliveries :
    /\ accepted[d] <= IF d \in Keyed THEN 1 ELSE 1 + purges[d]
    /\ "sent" \in {row[d].state, outbound[d]} => accepted[d] > 0

\* Once a session is erased no delivery text and no outbound message of it is
\* left or comes back, apart from the cleanup receipts: neither a sender that
\* finishes late nor a reply queued late restores one (erase_session,
\* queue_delivery, finish_delivery).  And deletion waits for a send that holds a
\* live lease: a row never goes from sending straight to deleted before its 120
\* seconds are over.
Erased(d) ==
  session[SessionOf[d]] = "deleted" =>
    row[d].state \in {"none", "deleted"} /\ outbound[d] \in {"none", "deleted"}

ErasureHolds ==
  /\ [](\A d \in Deliveries \ Receipts : Erased(d))
  /\ [][\A d \in Deliveries :
          row[d].state = "sending" /\ row'[d].state = "deleted" => row[d].lease = "lapsed"]_vars

\* README.md:526: a row is uncertain because sending timed out or its lease
\* lapsed, so that a message the platform may have taken is not sent twice.
\* Violated by NoAdapter: a process without the adapter makes rows of another
\* process's platform uncertain that nobody ever tried to send.
UncertainWasAttempted ==
  [][\A d \in Deliveries :
       row[d].state = "sending" /\ row'[d].state = "uncertain" =>
         d \in attempted \/ row[d].lease = "lapsed"]_vars

\* The rows in front of d that every page shows and that nobody may claim.
StuckBefore(d) ==
  {e \in Deliveries \ {d} : /\ row[e].state = "pending" /\ ~row[e].expired /\ ~Claimable(e)
                            /\ \E i, j \in DOMAIN ledger : i < j /\ ledger[i] = e /\ ledger[j] = d}

\* A reply that was queued is sent, declared uncertain or dropped, even if its sender dies,
\* unless it still waits and expires, its session is being deleted, or a full page of rows of
\* sessions under deletion is in front of it (deliver_pending of the main loops).
Outstanding(d) == row[d].state \in {"pending", "sending"}
Excused(d) == row[d].state = "pending" /\ (row[d].expired \/ ~Active(d) \/ Cardinality(StuckBefore(d)) >= Page)

DeliveriesSettle == \A d \in Deliveries : Outstanding(d) ~> (~Outstanding(d) \/ Excused(d))
=============================================================================
