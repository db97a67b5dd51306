------------------------- MODULE CommDeliveryProofs -------------------------
(****************************************************************************)
(* The delivery ledger for any number of sessions, deliveries, loops,       *)
(* threads, purges and crashes: a reply is taken once, and an erased        *)
(* session stays erased.                                                    *)
(****************************************************************************)
EXTENDS CommDelivery, SequenceTheorems, WellFoundedInduction, TLAPS

\* The sender that has claimed d and not finished it.
Holds(s, d) == snd[s].pc \in {"send", "finish_sent", "finish_uncertain"} /\ Head(snd[s].todo) = d

\* How often the platform may have taken d before the row it has now.
Before(d) == IF d \in Keyed THEN 0 ELSE purges[d]

\* A row may still be claimed, or made.
Ahead(d) == \/ row[d].state = "pending"
            \/ row[d].state = "none" /\ ~(d \in Keyed /\ d \in eventKeys)

\* What the rows promise: a claim is paid for by the row's leaving the pending state, which
\* only a purge gives back, and an event's key is remembered for good.
RowKept(d) ==
  /\ (d \in Keyed /\ row[d].state # "none") => d \in eventKeys
  /\ accepted[d] <= 1 + Before(d)
  /\ Ahead(d) => accepted[d] <= Before(d)
  /\ "sent" \in {row[d].state, outbound[d]} => accepted[d] > 0
  /\ row[d].state = "sending" => row[d].lease # "null"

\* What a sender may rely on between its claim and its finish, though the lease may lapse and
\* the session be erased meanwhile: nobody else holds the delivery and nobody makes it anew.
HoldKept(s, d) ==
  Holds(s, d) => /\ row[d].state \in {"sending", "uncertain", "deleted"}
                 /\ snd[s].pc = "send" => accepted[d] <= Before(d)
                 /\ snd[s].pc = "finish_sent" => accepted[d] > 0
                 /\ \A t \in Senders : Holds(t, d) => t = s

RowsOK == /\ row \in [Deliveries -> Rows] /\ outbound \in [Deliveries -> {"none", "sent", "deleted"}]
          /\ accepted \in [Deliveries -> Nat] /\ purges \in [Deliveries -> Nat]
          /\ \A d \in Deliveries : RowKept(d)

\* Of a sender's variables only the shape matters, and that it queues something.
Shaped(s) == /\ snd[s] = [pc |-> snd[s].pc, key |-> snd[s].key, todo |-> snd[s].todo]
             /\ snd[s].pc = "queue" => snd[s].key \in Deliveries
SendersOK == /\ snd = [s \in Senders |-> snd[s]] /\ \A s \in Senders : Shaped(s)
             /\ \A s \in Senders, d \in Deliveries : HoldKept(s, d)

OnceInv == RowsOK /\ SendersOK

----------------------------------------------------------------------------
(* Lemmas *)

\* Before any reply is made the ledger is empty and nobody holds one (Init).
LEMMA OnceInit == Init => OnceInv
<1>. SUFFICES ASSUME Init PROVE OnceInv
  OBVIOUS
<1>1. RowsOK
  BY DEF Init, NoRow, Rows, RowStates, RowsOK, RowKept, Ahead, Before
<1>2. SendersOK
  BY DEF Init, Idle, SendersOK, Shaped, HoldKept, Holds
<1>. QED  BY <1>1, <1>2 DEF OnceInv

\* A row keeps its promise if nothing of it changes.
LEMMA RowSame ==
  ASSUME OnceInv, NEW e \in Deliveries, row'[e] = row[e], outbound'[e] = outbound[e],
         accepted'[e] = accepted[e], purges'[e] = purges[e], eventKeys' = eventKeys
  PROVE  RowKept(e)'
<1>1. RowKept(e)
  BY DEF OnceInv, RowsOK
<1>. QED  BY <1>1 DEF RowKept, Ahead, Before

\* What becomes of the local variables of a sender when two of them are written.
LEMMA LocalsWritten ==
  ASSUME NEW q, NEW key, NEW todo, NEW old, old = [pc |-> q, key |-> key, todo |-> todo],
         NEW p, NEW page, NEW new, new = [old EXCEPT !.pc = p, !.todo = page]
  PROVE  /\ new.pc = p /\ new.key = key /\ new.todo = page
         /\ new = [pc |-> new.pc, key |-> new.key, todo |-> new.todo]
  OBVIOUS

\* What a sender is after its program counter and its page were written.
LEMMA SenderMoves ==
  ASSUME OnceInv, NEW s \in Senders, NEW p, NEW page,
         snd' = [snd EXCEPT ![s].pc = p, ![s].todo = page]
  PROVE  /\ snd'[s] = [pc |-> p, key |-> snd[s].key, todo |-> page]
         /\ snd' = [snd EXCEPT ![s] = snd'[s]]
<1>. DEFINE old == snd[s]  new == snd'[s]
<1>1. old = [pc |-> old.pc, key |-> old.key, todo |-> old.todo]
  BY DEF OnceInv, SendersOK, Shaped
<1>2. snd' = [snd EXCEPT ![s] = [snd[s] EXCEPT !.pc = p, !.todo = page]]
  OBVIOUS
<1>3. new = [old EXCEPT !.pc = p, !.todo = page] /\ snd' = [snd EXCEPT ![s] = new]
  BY <1>2 DEF OnceInv, SendersOK
<1>4. /\ new.pc = p /\ new.key = old.key /\ new.todo = page
      /\ new = [pc |-> new.pc, key |-> new.key, todo |-> new.todo]
  <2>. HIDE DEF old, new
  <2>. QED  BY <1>1, <1>3, LocalsWritten, Zenon
<1>. QED  BY <1>3, <1>4

\* A step of one sender that neither takes hold of a delivery nor touches a row, and that
\* leaves what it holds as it is or for uncertain, keeps the promise.
LEMMA SenderStep ==
  ASSUME OnceInv, NEW s \in Senders, snd' = [snd EXCEPT ![s] = snd'[s]], Shaped(s)',
         UNCHANGED <<row, outbound, eventKeys, accepted, purges>>,
         \A d \in Deliveries : Holds(s, d)' => Holds(s, d),
         snd'[s].pc \in {"send", "finish_sent"} => snd'[s].pc = snd[s].pc
  PROVE  OnceInv'
<1>1. RowsOK'
  BY DEF OnceInv, RowsOK, RowKept, Ahead, Before
<1>2. \A t \in Senders \ {s} : snd'[t] = snd[t]
  BY DEF OnceInv, SendersOK
<1>3. snd' = [t \in Senders |-> snd'[t]] /\ \A t \in Senders : Shaped(t)'
  BY <1>2 DEF OnceInv, SendersOK, Shaped
<1>4. \A t \in Senders, d \in Deliveries : Holds(t, d)' => Holds(t, d)
  BY <1>2 DEF Holds
<1>5. \A t \in Senders, d \in Deliveries : HoldKept(t, d)'
  <2>. SUFFICES ASSUME NEW t \in Senders, NEW d \in Deliveries, Holds(t, d)'
                PROVE  /\ row'[d].state \in {"sending", "uncertain", "deleted"}
                       /\ snd'[t].pc = "send" => accepted'[d] <= Before(d)'
                       /\ snd'[t].pc = "finish_sent" => accepted'[d] > 0
                       /\ \A u \in Senders : Holds(u, d)' => u = t
    BY DEF HoldKept
  <2>1. Holds(t, d) /\ HoldKept(t, d)
    BY <1>4 DEF OnceInv, SendersOK
  <2>2. snd'[t].pc \in {"send", "finish_sent"} => snd'[t].pc = snd[t].pc
    BY <1>2
  <2>. QED  BY <1>4, <2>1, <2>2 DEF HoldKept, Before
<1>. QED  BY <1>1, <1>3, <1>5 DEF OnceInv, SendersOK

\* A step that changes no sender keeps the promise, if the rows it leaves keep theirs, a
\* delivery that is held stays out of reach, and the platform takes nothing.
LEMMA RowStep ==
  ASSUME OnceInv, RowsOK', UNCHANGED <<snd, accepted, purges>>,
         \A d \in Deliveries : row[d].state \in {"sending", "uncertain", "deleted"} =>
                               row'[d].state \in {"sending", "uncertain", "deleted"}
  PROVE  OnceInv'
  BY DEF OnceInv, SendersOK, Shaped, HoldKept, Holds, Before

----------------------------------------------------------------------------
(* The steps, one lemma for those that only move a sender and one for each of the others *)

\* The steps that write no row: what the sender holds stays, or is dropped.
LEMMA SenderSteps ==
  ASSUME OnceInv, NEW s \in Senders,
         \/ \E d \in Deliveries : SendReply(s, d)
         \/ QueueKnown(s) \/ QueueRefused(s) \/ StartLoop(s) \/ PendingDeliveries(s)
         \/ ClaimLost(s) \/ DeliveryDone(s) \/ NoAdapter(s) \/ FinishRaised(s) \/ Crash(s)
  PROVE  OnceInv'
<1>. DEFINE P == /\ snd' = [snd EXCEPT ![s] = snd'[s]] /\ Shaped(s)'
                 /\ UNCHANGED <<row, outbound, eventKeys, accepted, purges>>
                 /\ \A d \in Deliveries : Holds(s, d)' => Holds(s, d)
                 /\ snd'[s].pc \in {"send", "finish_sent"} => snd'[s].pc = snd[s].pc
<1>. USE DEF OnceInv, SendersOK, Shaped, Holds, Idle
<1>1. ASSUME NEW d \in Deliveries, SendReply(s, d) PROVE P
  BY <1>1 DEF SendReply
<1>2. CASE QueueKnown(s)
  <2>. P  BY <1>2 DEF QueueKnown
  <2>. QED  BY SenderStep
<1>3. CASE QueueRefused(s)
  <2>. P  BY <1>3 DEF QueueRefused
  <2>. QED  BY SenderStep
<1>4. CASE StartLoop(s)
  <2>. P  BY <1>4 DEF StartLoop
  <2>. QED  BY SenderStep
<1>5. CASE PendingDeliveries(s)
  <2>1. PICK page : snd' = [snd EXCEPT ![s].pc = "claim", ![s].todo = page]
    BY <1>5 DEF PendingDeliveries
  <2>2. /\ snd'[s] = [pc |-> "claim", key |-> snd[s].key, todo |-> page]
        /\ snd' = [snd EXCEPT ![s] = snd'[s]]
    BY <2>1, SenderMoves
  <2>3. UNCHANGED <<row, outbound, eventKeys, accepted, purges>>
    BY <1>5 DEF PendingDeliveries
  <2>. P  BY <2>2, <2>3
  <2>. QED  BY SenderStep
<1>6. CASE ClaimLost(s)
  <2>1. PICK rest : snd' = [snd EXCEPT ![s].todo = rest]
    BY <1>6 DEF ClaimLost
  <2>2. PICK key, todo : snd[s] = [pc |-> "claim", key |-> key, todo |-> todo]
    BY <1>6 DEF ClaimLost
  <2>3. snd'[s] = [pc |-> "claim", key |-> key, todo |-> rest]
    BY <2>1, <2>2
  <2>4. snd' = [snd EXCEPT ![s] = snd'[s]]
    BY <2>1
  <2>. P  BY <1>6, <2>3, <2>4 DEF ClaimLost
  <2>. QED  BY SenderStep
<1>7. CASE DeliveryDone(s)
  <2>. P  BY <1>7 DEF DeliveryDone
  <2>. QED  BY SenderStep
<1>8. CASE NoAdapter(s)
  <2>. P  BY <1>8 DEF NoAdapter
  <2>. QED  BY SenderStep
<1>9. CASE FinishRaised(s)
  <2>. P  BY <1>9 DEF FinishRaised
  <2>. QED  BY SenderStep
<1>10. CASE Crash(s)
  <2>. P  BY <1>10 DEF Crash
  <2>. QED  BY SenderStep
<1>11. CASE \E d \in Deliveries : SendReply(s, d)
  <2>. P  BY <1>1, <1>11
  <2>. QED  BY SenderStep
<1>. QED  BY <1>2, <1>3, <1>4, <1>5, <1>6, <1>7, <1>8, <1>9, <1>10, <1>11

\* A row is only made for a key that is not known, and nobody can hold one that has no row
\* (queue_delivery).
LEMMA InsertKeeps ==
  ASSUME OnceInv, NEW d \in Deliveries, InsertRow(d), UNCHANGED <<outbound, accepted, purges>>
  PROVE  /\ RowsOK'
         /\ \A e \in Deliveries : row[e].state \in {"sending", "uncertain", "deleted"} =>
                                  row'[e] = row[e]
<1>1. row[d].state = "none" /\ d \notin eventKeys
  BY DEF InsertRow, KnownKey
<1>2. row' = [row EXCEPT ![d] = [state |-> "pending", lease |-> "null", expired |-> FALSE]]
  BY DEF InsertRow
<1>3. \A e \in Deliveries : RowKept(e)'
  <2>. SUFFICES ASSUME NEW e \in Deliveries PROVE RowKept(e)'
    OBVIOUS
  <2>1. RowKept(e) /\ RowKept(d)
    BY DEF OnceInv, RowsOK
  <2>2. CASE e = d
    BY <1>1, <1>2, <2>1, <2>2 DEF OnceInv, RowsOK, RowKept, Ahead, Before, InsertRow, EventKey
  <2>3. CASE e # d
    <3>1. row'[e] = row[e] /\ (e \in eventKeys' <=> e \in eventKeys)
      BY <1>2, <2>3 DEF OnceInv, RowsOK, InsertRow, EventKey
    <3>. QED  BY <2>1, <3>1 DEF RowKept, Ahead, Before
  <2>. QED  BY <2>2, <2>3
<1>4. RowsOK'
  BY <1>2, <1>3 DEF OnceInv, RowsOK, Rows, RowStates
<1>. QED  BY <1>1, <1>2, <1>4 DEF OnceInv, RowsOK

\* The two ways a reply is queued (queue_delivery, the publication's enqueue).
LEMMA QueueSteps ==
  ASSUME OnceInv, (\E s \in Senders : QueueDelivery(s)) \/ (\E d \in Deliveries : Publish(d))
  PROVE  OnceInv'
<1>1. ASSUME NEW s \in Senders, QueueDelivery(s) PROVE OnceInv'
  <2>1. /\ InsertRow(snd[s].key) /\ UNCHANGED <<outbound, accepted, purges>>
        /\ snd' = [snd EXCEPT ![s].pc = "cleanup"]
    BY <1>1 DEF QueueDelivery
  <2>2. snd[s].key \in Deliveries
    BY <1>1 DEF QueueDelivery, OnceInv, SendersOK, Shaped
  <2>3. RowsOK' /\ \A e \in Deliveries : row[e].state \in {"sending", "uncertain", "deleted"} =>
                                         row'[e] = row[e]
    BY <2>1, <2>2, InsertKeeps
  <2>4. SendersOK'
    BY <2>1, <2>3 DEF OnceInv, SendersOK, Shaped, HoldKept, Holds, Before
  <2>. QED  BY <2>3, <2>4 DEF OnceInv
<1>2. ASSUME NEW d \in Deliveries, Publish(d) PROVE OnceInv'
  BY <1>2, InsertKeeps, RowStep DEF Publish
<1>. QED  BY <1>1, <1>2

\* What a row is after its state and its lease were written, d being a delivery or not.
LEMMA RowWritten ==
  ASSUME OnceInv, NEW d, NEW x \in RowStates, NEW y \in {"null", "live", "lapsed"},
         row' = [row EXCEPT ![d].state = x, ![d].lease = y]
  PROVE  /\ row' \in [Deliveries -> Rows]
         /\ d \in Deliveries => row'[d].state = x /\ row'[d].lease = y
         /\ \A e \in Deliveries \ {d} : row'[e] = row[e]
<1>1. row' = [row EXCEPT ![d] = [row[d] EXCEPT !.state = x, !.lease = y]]
  OBVIOUS
<1>2. row = [e \in Deliveries |-> row[e]] /\ \A e \in Deliveries : row[e] \in Rows
  BY DEF OnceInv, RowsOK
<1>3. ASSUME d \in Deliveries
      PROVE  row'[d] \in Rows /\ row'[d].state = x /\ row'[d].lease = y
  <2>. DEFINE new == [row[d] EXCEPT !.state = x, !.lease = y]
  <2>1. new.state = x /\ new.lease = y /\ new \in Rows
    BY <1>2, <1>3 DEF Rows
  <2>2. row'[d] = new
    BY <1>1, <1>2, <1>3
  <2>. QED  BY <2>1, <2>2
<1>4. \A e \in Deliveries \ {d} : row'[e] = row[e]
  BY <1>1, <1>2
<1>5. row' = [e \in Deliveries |-> row'[e]]
  BY <1>1, <1>2
<1>6. \A e \in Deliveries : row'[e] \in Rows
  BY <1>2, <1>3, <1>4
<1>. QED  BY <1>3, <1>4, <1>5, <1>6

\* A claim is given to one sender: nobody holds a pending row (claim_delivery).
LEMMA ClaimKeeps ==
  ASSUME OnceInv, NEW s \in Senders, ClaimDelivery(s)
  PROVE  OnceInv'
<1>. DEFINE d == Head(snd[s].todo)
<1>1. /\ row[d].state = "pending"
      /\ row' = [row EXCEPT ![d].state = "sending", ![d].lease = "live"]
      /\ snd' = [snd EXCEPT ![s].pc = "send"]
      /\ UNCHANGED <<outbound, eventKeys, accepted, purges>>
  BY DEF ClaimDelivery, Claimable
<1>. HIDE DEF d
<1>2. /\ row' \in [Deliveries -> Rows]
      /\ d \in Deliveries => row'[d].state = "sending" /\ row'[d].lease = "live"
      /\ \A e \in Deliveries \ {d} : row'[e] = row[e]
  BY <1>1, RowWritten DEF RowStates
<1>3. \A e \in Deliveries : RowKept(e)'
  BY <1>1, <1>2 DEF OnceInv, RowsOK, RowKept, Ahead, Before
<1>4. /\ snd' = [t \in Senders |-> snd'[t]] /\ \A t \in Senders : Shaped(t)'
      /\ \A t \in Senders \ {s} : snd'[t] = snd[t]
      /\ snd'[s].pc = "send" /\ snd'[s].todo = snd[s].todo
  BY <1>1 DEF OnceInv, SendersOK, Shaped
<1>5. \A t \in Senders : d \in Deliveries => ~Holds(t, d)
  BY <1>1 DEF OnceInv, SendersOK, HoldKept
<1>6. \A t \in Senders, e \in Deliveries : HoldKept(t, e)'
  <2>. SUFFICES ASSUME NEW t \in Senders, NEW e \in Deliveries PROVE HoldKept(t, e)'
    OBVIOUS
  <2>1. CASE e = d
    <3>1. \A u \in Senders : Holds(u, e)' => u = s
      BY <1>4, <1>5, <2>1 DEF Holds
    <3>2. accepted'[e] <= Before(e)' /\ row'[e].state = "sending"
      BY <1>1, <1>2, <2>1 DEF OnceInv, RowsOK, RowKept, Ahead, Before
    <3>. QED  BY <1>4, <3>1, <3>2 DEF HoldKept
  <2>2. CASE e # d
    <3>1. \A u \in Senders : Holds(u, e)' <=> Holds(u, e) /\ u # s
      <4>1. ~Holds(s, e)'
        BY <1>4, <2>2 DEF Holds, d
      <4>2. ~Holds(s, e)
        BY DEF ClaimDelivery, Holds
      <4>. QED  BY <1>4, <4>1, <4>2 DEF Holds
    <3>. QED  BY <1>1, <1>2, <1>4, <2>2, <3>1 DEF OnceInv, SendersOK, HoldKept, Before
  <2>. QED  BY <2>1, <2>2
<1>. QED  BY <1>1, <1>2, <1>3, <1>4, <1>6 DEF OnceInv, RowsOK, SendersOK

\* The platform takes a delivery from the one sender that holds it, once per claim
\* (send_message inside deliver_pending).
LEMMA SendKeeps ==
  ASSUME DeliveryAssumption, OnceInv, NEW s \in Senders, SendMessage(s)
  PROVE  OnceInv'
<1>0. PICK d : d = Head(snd[s].todo)
  OBVIOUS
<1>1. PICK took \in {0, 1}, next \in {"finish_sent", AfterError} :
        /\ next = AfterError \/ took = 1
        /\ accepted' = [accepted EXCEPT ![d] = @ + took]
        /\ snd' = [snd EXCEPT ![s].pc = next]
  BY <1>0 DEF SendMessage
<1>2. d \in Deliveries
  BY <1>0 DEF SendMessage, DeliveryAssumption, Senders
<1>3. UNCHANGED <<row, outbound, eventKeys, purges>> /\ Holds(s, d) /\ snd[s].pc = "send"
  BY <1>0 DEF SendMessage, Holds
<1>4. next \in {"finish_sent", "finish_uncertain"} /\ (next = "finish_sent" => took = 1)
  BY <1>1 DEF AfterError
<1>5. /\ accepted' \in [Deliveries -> Nat] /\ accepted'[d] = accepted[d] + took
      /\ \A e \in Deliveries \ {d} : accepted'[e] = accepted[e]
  BY <1>1, <1>2 DEF OnceInv, RowsOK
<1>6. HoldKept(s, d) /\ RowKept(d)
  BY <1>2 DEF OnceInv, RowsOK, SendersOK
<1>7. \A e \in Deliveries : RowKept(e)'
  <2>1. RowKept(d)'
    <3>1. Before(d)' = Before(d) /\ Before(d) \in Nat /\ accepted[d] \in Nat
      BY <1>2, <1>3 DEF OnceInv, RowsOK, Before
    <3>2. /\ row[d].state \in {"sending", "uncertain", "deleted"}
          /\ accepted[d] <= Before(d)
      BY <1>3, <1>6 DEF HoldKept
    <3>3. accepted'[d] <= 1 + Before(d) /\ (accepted[d] > 0 => accepted'[d] > 0)
      BY <1>5, <3>1, <3>2
    <3>4. ~Ahead(d)'
      BY <1>3, <3>2 DEF Ahead
    <3>. QED  BY <1>3, <1>6, <3>1, <3>3, <3>4 DEF RowKept
  <2>2. \A e \in Deliveries \ {d} : RowKept(e)'
    BY <1>3, <1>5, RowSame
  <2>. QED  BY <2>1, <2>2
<1>8. /\ snd' = [t \in Senders |-> snd'[t]] /\ \A t \in Senders : Shaped(t)'
      /\ \A t \in Senders \ {s} : snd'[t] = snd[t]
      /\ snd'[s].pc = next /\ snd'[s].todo = snd[s].todo
  <2>1. Shaped(s)
    BY DEF OnceInv, SendersOK
  <2>. QED  BY <1>1, <1>4, <2>1 DEF OnceInv, SendersOK, Shaped
<1>9. \A t \in Senders, e \in Deliveries : Holds(t, e)' <=> Holds(t, e)
  BY <1>3, <1>4, <1>8 DEF Holds
<1>10. \A t \in Senders, e \in Deliveries : HoldKept(t, e)'
  <2>. SUFFICES ASSUME NEW t \in Senders, NEW e \in Deliveries, Holds(t, e) PROVE HoldKept(t, e)'
    BY <1>9 DEF HoldKept
  <2>1. HoldKept(t, e)
    BY DEF OnceInv, SendersOK
  <2>2. CASE t = s
    <3>1. e = d
      BY <1>0, <2>2 DEF Holds
    <3>2. snd'[t].pc = "finish_sent" => accepted'[e] > 0
      BY <1>2, <1>4, <1>5, <1>8, <2>2, <3>1 DEF OnceInv, RowsOK
    <3>. QED  BY <1>3, <1>4, <1>8, <1>9, <2>1, <2>2, <3>2 DEF HoldKept
  <2>3. CASE t # s
    <3>1. e # d
      BY <1>3, <1>6, <2>3 DEF HoldKept
    <3>. QED  BY <1>3, <1>5, <1>8, <1>9, <2>1, <2>3, <3>1 DEF HoldKept, Before
  <2>. QED  BY <2>2, <2>3
<1>. QED  BY <1>3, <1>5, <1>7, <1>8, <1>10 DEF OnceInv, RowsOK, SendersOK

\* A late finish touches a row that is still sending, and then the sender holds nothing: what
\* it records as sent was taken (finish_delivery).
LEMMA FinishKeeps ==
  ASSUME OnceInv, NEW s \in Senders, FinishSent(s) \/ FinishUncertain(s)
  PROVE  OnceInv'
<1>0. PICK d : d = Head(snd[s].todo)
  OBVIOUS
<1>1. PICK x \in {"sent", "uncertain"} :
        /\ FinishDelivery(s, x) /\ Holds(s, d)
        /\ x = "sent" => snd[s].pc = "finish_sent"
  BY <1>0 DEF FinishSent, FinishUncertain, Holds
<1>2. /\ snd' = [snd EXCEPT ![s].pc = "claim", ![s].todo = Tail(snd[s].todo)]
      /\ UNCHANGED <<eventKeys, accepted, purges>>
  BY <1>1 DEF FinishDelivery
<1>3. \/ UNCHANGED <<row, outbound>>
      \/ /\ row[d].state = "sending"
         /\ row' = [row EXCEPT ![d].state = x, ![d].lease = "null"]
         /\ outbound' = outbound \/ (x = "sent" /\ outbound' = [outbound EXCEPT ![d] = "sent"])
  BY <1>0, <1>1 DEF FinishDelivery, MayFinish
<1>4. snd'[s].pc = "claim" /\ snd' = [snd EXCEPT ![s] = snd'[s]] /\ Shaped(s)'
  <2>1. /\ snd'[s] = [pc |-> "claim", key |-> snd[s].key, todo |-> Tail(snd[s].todo)]
        /\ snd' = [snd EXCEPT ![s] = snd'[s]]
    BY <1>2, SenderMoves
  <2>. QED  BY <2>1 DEF Shaped
<1>5. CASE UNCHANGED <<row, outbound>>
  <2>1. \A e \in Deliveries : Holds(s, e)' => Holds(s, e)
    BY <1>4 DEF Holds
  <2>. QED  BY <1>2, <1>4, <1>5, <2>1, SenderStep
<1>6. CASE /\ row[d].state = "sending"
           /\ row' = [row EXCEPT ![d].state = x, ![d].lease = "null"]
           /\ outbound' = outbound \/ (x = "sent" /\ outbound' = [outbound EXCEPT ![d] = "sent"])
  <2>1. /\ row' \in [Deliveries -> Rows]
        /\ d \in Deliveries => row'[d].state = x /\ row'[d].lease = "null"
        /\ \A e \in Deliveries \ {d} : row'[e] = row[e]
    BY <1>6, RowWritten DEF RowStates
  <2>2. /\ outbound' \in [Deliveries -> {"none", "sent", "deleted"}]
        /\ \A e \in Deliveries \ {d} : outbound'[e] = outbound[e]
        /\ d \in Deliveries => outbound'[d] = outbound[d] \/ x = "sent"
    BY <1>6 DEF OnceInv, RowsOK
  <2>3. \A e \in Deliveries : RowKept(e)'
    <3>1. ASSUME d \in Deliveries PROVE RowKept(d)'
      <4>1. RowKept(d) /\ HoldKept(s, d)
        BY <3>1 DEF OnceInv, RowsOK, SendersOK
      <4>2. x = "sent" => accepted[d] > 0
        BY <1>1, <4>1 DEF HoldKept
      <4>3. ~Ahead(d)' /\ Before(d)' = Before(d)
        BY <1>2, <2>1, <3>1 DEF Ahead, Before
      <4>4. row'[d].state # "sending" /\ (d \in Keyed => d \in eventKeys')
        BY <1>2, <1>6, <2>1, <3>1, <4>1 DEF RowKept
      <4>5. "sent" \in {row'[d].state, outbound'[d]} => accepted'[d] > 0
        BY <1>2, <2>1, <2>2, <3>1, <4>1, <4>2 DEF RowKept
      <4>. QED  BY <1>2, <4>1, <4>3, <4>4, <4>5 DEF RowKept
    <3>2. \A e \in Deliveries \ {d} : RowKept(e)'
      BY <1>2, <2>1, <2>2, RowSame
    <3>. QED  BY <3>1, <3>2
  <2>4. /\ snd' = [t \in Senders |-> snd'[t]] /\ \A t \in Senders : Shaped(t)'
        /\ \A t \in Senders \ {s} : snd'[t] = snd[t]
    BY <1>4 DEF OnceInv, SendersOK, Shaped
  <2>5. \A t \in Senders, e \in Deliveries : Holds(t, e)' <=> Holds(t, e) /\ t # s
    BY <1>4, <2>4 DEF Holds
  <2>6. \A t \in Senders, e \in Deliveries : HoldKept(t, e)'
    <3>. SUFFICES ASSUME NEW t \in Senders \ {s}, NEW e \in Deliveries, Holds(t, e)
                  PROVE  HoldKept(t, e)'
      BY <2>5 DEF HoldKept
    <3>1. HoldKept(t, e)
      BY DEF OnceInv, SendersOK
    <3>2. e # d
      BY <1>1, <3>1 DEF HoldKept
    <3>. QED  BY <1>2, <2>1, <2>4, <2>5, <3>1, <3>2 DEF HoldKept, Before
  <2>. QED  BY <1>2, <2>1, <2>2, <2>3, <2>4, <2>6 DEF OnceInv, RowsOK, SendersOK
<1>. QED  BY <1>3, <1>5, <1>6

\* Only a row that is sent or still pending is removed, and a purge of an event's row leaves
\* its key behind (cleanup_expired).
LEMMA CleanupKeeps ==
  ASSUME OnceInv, NEW s \in Senders, CleanupExpired(s)
  PROVE  OnceInv'
<1>1. /\ UNCHANGED <<eventKeys, accepted, outbound>> /\ snd[s].pc = "cleanup"
      /\ snd' = [snd EXCEPT ![s].pc = "scan"]
  BY DEF CleanupExpired
<1>2. /\ row' = [d \in Deliveries |-> IF Purgeable(d) THEN NoRow
                   ELSE IF Lapsed(d) THEN [row[d] EXCEPT !.state = CleanedState] ELSE row[d]]
      /\ purges' = [d \in Deliveries |-> IF Purgeable(d) THEN purges[d] + 1 ELSE purges[d]]
  BY DEF CleanupExpired
<1>3. ASSUME NEW d \in Deliveries
      PROVE  /\ row'[d] \in Rows /\ purges'[d] \in Nat /\ RowKept(d)'
             /\ row[d].state \in {"sending", "uncertain", "deleted"} =>
                  /\ row'[d].state \in {"sending", "uncertain", "deleted"}
                  /\ purges'[d] = purges[d]
  <2>1. RowKept(d) /\ row[d] \in Rows /\ accepted[d] \in Nat /\ purges[d] \in Nat
    BY <1>3 DEF OnceInv, RowsOK
  <2>2. CASE Purgeable(d)
    <3>1. row'[d] = NoRow /\ purges'[d] = purges[d] + 1 /\ row[d].state \in {"sent", "pending"}
      BY <1>2, <1>3, <2>2 DEF Purgeable
    <3>2. (d \notin Keyed => accepted[d] <= Before(d)') /\ Before(d)' \in Nat
      BY <2>1, <3>1 DEF RowKept, Before
    <3>3. d \in Keyed => ~Ahead(d)'
      BY <1>1, <2>1, <3>1 DEF RowKept, Ahead, NoRow
    <3>4. row'[d].state = "none" /\ row'[d] \in Rows
      BY <3>1 DEF NoRow, Rows, RowStates
    <3>5. d \in Keyed => accepted[d] <= 1 + Before(d)'
      BY <2>1, <3>1 DEF RowKept, Before
    <3>. QED  BY <1>1, <2>1, <3>1, <3>2, <3>3, <3>4, <3>5 DEF RowKept
  <2>3. CASE ~Purgeable(d) /\ Lapsed(d)
    <3>1. row'[d] = [row[d] EXCEPT !.state = "uncertain"] /\ row[d].state = "sending"
      BY <1>2, <1>3, <2>3 DEF Lapsed, CleanedState
    <3>2. row'[d].state = "uncertain" /\ row'[d] \in Rows
      BY <2>1, <3>1 DEF Rows, RowStates
    <3>3. purges'[d] = purges[d]
      BY <1>2, <1>3, <2>3
    <3>4. Before(d)' = Before(d) /\ ~Ahead(d)'
      BY <3>2, <3>3 DEF Before, Ahead
    <3>. QED  BY <1>1, <2>1, <3>1, <3>2, <3>3, <3>4 DEF RowKept
  <2>4. CASE ~Purgeable(d) /\ ~Lapsed(d)
    <3>1. row'[d] = row[d] /\ purges'[d] = purges[d]
      BY <1>2, <1>3, <2>4
    <3>. QED  BY <1>1, <1>3, <2>1, <3>1, RowSame
  <2>. QED  BY <2>2, <2>3, <2>4
<1>4. RowsOK'
  <2>1. row' \in [Deliveries -> Rows] /\ purges' \in [Deliveries -> Nat]
    BY <1>2, <1>3
  <2>. QED  BY <1>1, <1>3, <2>1 DEF OnceInv, RowsOK
<1>5. /\ snd' = [t \in Senders |-> snd'[t]] /\ \A t \in Senders : Shaped(t)'
      /\ \A t \in Senders \ {s} : snd'[t] = snd[t]
      /\ snd'[s].pc = "scan" /\ snd'[s].todo = snd[s].todo
  <2>1. Shaped(s)
    BY DEF OnceInv, SendersOK
  <2>. QED  BY <1>1, <2>1 DEF OnceInv, SendersOK, Shaped
<1>6. \A t \in Senders, d \in Deliveries : Holds(t, d)' <=> Holds(t, d)
  BY <1>1, <1>5 DEF Holds
<1>7. \A t \in Senders, d \in Deliveries : HoldKept(t, d)'
  <2>. SUFFICES ASSUME NEW t \in Senders, NEW d \in Deliveries, Holds(t, d) PROVE HoldKept(t, d)'
    BY <1>6 DEF HoldKept
  <2>1. HoldKept(t, d)
    BY DEF OnceInv, SendersOK
  <2>2. t # s
    BY <1>1 DEF Holds
  <2>. QED  BY <1>1, <1>3, <1>5, <1>6, <2>1, <2>2 DEF HoldKept, Before
<1>. QED  BY <1>4, <1>5, <1>7 DEF OnceInv, SendersOK

\* What happens to the rows of an erased session, and to one that grows old (erase_session,
\* the clock): a row only leaves the reach of a claim.
LEMMA RowSteps ==
  ASSUME OnceInv, \/ \E x \in Sessions : BeginDeletion(x) \/ EraseSession(x)
                  \/ \E d \in Deliveries : LapseLease(d) \/ ExpireRow(d)
  PROVE  OnceInv'
<1>1. ASSUME NEW x \in Sessions, BeginDeletion(x) PROVE OnceInv'
  <2>. RowsOK'
    BY <1>1 DEF BeginDeletion, OnceInv, RowsOK, RowKept, Ahead, Before
  <2>. QED  BY <1>1, RowStep DEF BeginDeletion
<1>2. ASSUME NEW x \in Sessions, EraseSession(x) PROVE OnceInv'
  <2>1. /\ UNCHANGED <<eventKeys, accepted, purges, snd>>
        /\ row' = [d \in Deliveries |->
                     IF SessionOf[d] = x /\ d \notin Receipts /\ row[d].state # "none"
                       THEN [row[d] EXCEPT !.state = "deleted", !.lease = "null"] ELSE row[d]]
        /\ outbound' = [d \in Deliveries |->
                     IF SessionOf[d] = x /\ outbound[d] = "sent" THEN "deleted" ELSE outbound[d]]
    BY <1>2 DEF EraseSession
  <2>2. ASSUME NEW d \in Deliveries
        PROVE  /\ row'[d] \in Rows /\ outbound'[d] \in {"none", "sent", "deleted"} /\ RowKept(d)'
               /\ row[d].state \in {"sending", "uncertain", "deleted"} =>
                    row'[d].state \in {"sending", "uncertain", "deleted"}
    <3>1. RowKept(d) /\ row[d] \in Rows /\ outbound[d] \in {"none", "sent", "deleted"}
      BY <2>2 DEF OnceInv, RowsOK
    <3>2. outbound'[d] \in {"deleted", outbound[d]}
      BY <2>1, <2>2
    <3>3. CASE row'[d] = row[d]
      <4>1. Ahead(d)' <=> Ahead(d)
        BY <2>1, <3>3 DEF Ahead
      <4>. QED  BY <2>1, <3>1, <3>2, <3>3, <4>1 DEF RowKept, Before
    <3>4. CASE /\ row'[d] = [row[d] EXCEPT !.state = "deleted", !.lease = "null"]
               /\ row[d].state # "none"
      <4>1. row'[d].state = "deleted" /\ row'[d] \in Rows
        BY <3>1, <3>4 DEF Rows, RowStates
      <4>2. ~Ahead(d)' /\ Before(d)' = Before(d)
        BY <2>1, <4>1 DEF Ahead, Before
      <4>. QED  BY <2>1, <3>1, <3>2, <3>4, <4>1, <4>2 DEF RowKept
    <3>. QED  BY <2>1, <2>2, <3>3, <3>4
  <2>3. row' \in [Deliveries -> Rows] /\ outbound' \in [Deliveries -> {"none", "sent", "deleted"}]
    BY <2>1, <2>2
  <2>4. RowsOK'
    BY <2>1, <2>2, <2>3 DEF OnceInv, RowsOK
  <2>. QED  BY <2>1, <2>2, <2>4, RowStep
<1>3. ASSUME NEW d \in Deliveries, LapseLease(d) \/ ExpireRow(d) PROVE OnceInv'
  <2>1. UNCHANGED <<eventKeys, outbound, accepted, purges, snd>>
    BY <1>3 DEF LapseLease, ExpireRow
  <2>2. PICK new \in Rows :
          /\ row' = [row EXCEPT ![d] = new] /\ new.state = row[d].state
          /\ row[d].lease # "null" => new.lease # "null"
    <3>1. row[d] \in Rows
      BY DEF OnceInv, RowsOK
    <3>2. CASE LapseLease(d)
      <4>. DEFINE new == [row[d] EXCEPT !.lease = "lapsed"]
      <4>1. new \in Rows /\ new.state = row[d].state /\ new.lease = "lapsed"
        BY <3>1 DEF Rows
      <4>2. row' = [row EXCEPT ![d] = new]
        BY <3>2 DEF LapseLease
      <4>. QED  BY <4>1, <4>2
    <3>3. CASE ExpireRow(d)
      <4>. DEFINE new == [row[d] EXCEPT !.expired = TRUE]
      <4>1. new \in Rows /\ new.state = row[d].state /\ new.lease = row[d].lease
        BY <3>1 DEF Rows
      <4>2. row' = [row EXCEPT ![d] = new]
        BY <3>3 DEF ExpireRow
      <4>. QED  BY <4>1, <4>2
    <3>. QED  BY <1>3, <3>2, <3>3
  <2>3. /\ row' \in [Deliveries -> Rows]
        /\ \A e \in Deliveries : /\ row'[e].state = row[e].state
                                 /\ row[e].lease # "null" => row'[e].lease # "null"
    BY <2>2 DEF OnceInv, RowsOK
  <2>4. \A e \in Deliveries : RowKept(e)'
    <3>. SUFFICES ASSUME NEW e \in Deliveries PROVE RowKept(e)'
      OBVIOUS
    <3>1. RowKept(e)
      BY DEF OnceInv, RowsOK
    <3>2. (Ahead(e)' <=> Ahead(e)) /\ Before(e)' = Before(e)
      BY <2>1, <2>3 DEF Ahead, Before
    <3>. QED  BY <2>1, <2>3, <3>1, <3>2 DEF RowKept
  <2>5. RowsOK'
    BY <2>1, <2>3, <2>4 DEF OnceInv, RowsOK
  <2>. QED  BY <2>1, <2>3, <2>5, RowStep
<1>. QED  BY <1>1, <1>2, <1>3

----------------------------------------------------------------------------
(* What a run of the communication processes guarantees *)

\* Every step of the loops, the threads, the publication, the deletion and the clock keeps the
\* promise (deliver_pending, queue_delivery, erase_session).
LEMMA OnceStep ==
  ASSUME DeliveryAssumption, OnceInv, [Next]_vars
  PROVE  OnceInv'
<1>1. ASSUME NEW s \in Senders, Deliver(s) PROVE OnceInv'
  BY <1>1, SenderSteps, CleanupKeeps, ClaimKeeps, SendKeeps, FinishKeeps DEF Deliver
<1>2. ASSUME NEW s \in Senders, Queue(s) PROVE OnceInv'
  BY <1>2, SenderSteps, QueueSteps DEF Queue
<1>3. ASSUME NEW s \in Senders, Crash(s) \/ \E d \in Deliveries : SendReply(s, d) PROVE OnceInv'
  BY <1>3, SenderSteps
<1>4. ASSUME NEW d \in Deliveries, Publish(d) PROVE OnceInv'
  BY <1>4, QueueSteps
<1>5. CASE UNCHANGED vars
  <2>1. UNCHANGED <<row, outbound, eventKeys, accepted, purges, snd>>
    BY <1>5 DEF vars
  <2>2. RowsOK'
    BY <2>1, RowSame DEF OnceInv, RowsOK
  <2>. QED  BY <2>1, <2>2, RowStep
<1>. QED  BY <1>1, <1>2, <1>3, <1>4, <1>5, RowSteps DEF Next

\* A reply is taken at most once per row made for it, an event of the Temporal backend at most
\* once at all, and what is recorded as sent was taken, for any number of loops, threads,
\* purges, lapsed leases and crashes (deliver_pending, claim_delivery, finish_delivery,
\* cleanup_expired, queue_delivery).
THEOREM RepliesSentOnce == Spec => []SentOnce
<1>1. OnceInv => SentOnce
  <2>. SUFFICES ASSUME OnceInv, NEW d \in Deliveries
                PROVE  /\ accepted[d] <= IF d \in Keyed THEN 1 ELSE 1 + purges[d]
                       /\ "sent" \in {row[d].state, outbound[d]} => accepted[d] > 0
    BY DEF SentOnce
  <2>. QED  BY DEF OnceInv, RowsOK, RowKept, Before
<1>. QED  BY <1>1, OnceInit, OnceStep, DeliveryAssumption, PTL DEF Spec

----------------------------------------------------------------------------
(* An erased session stays erased *)

\* What may become of a reply while no session is being deleted: a row is made or claimed while
\* the lifecycle allows it, and only a claimed one is finished.
RowMove(d) ==
  /\ \/ row'[d].state = row[d].state
     \/ row[d].state = "none" /\ MayQueue(d) /\ row'[d].state = "pending"
     \/ row[d].state = "pending" /\ (d \in Receipts \/ Active(d)) /\ row'[d].state = "sending"
     \/ row[d].state = "sending" /\ row'[d].state \in {"sent", "uncertain"}
     \/ row[d].state \in {"sent", "pending"} /\ row'[d].state = "none"
  /\ outbound'[d] # outbound[d] => row[d].state = "sending"

Working(s) == Deliver(s) \/ Queue(s) \/ Crash(s) \/ \E d \in Deliveries : SendReply(s, d)

\* Neither a late finish nor a queueing behind the deletion gives a row a text again
\* (queue_delivery, claim_delivery, finish_delivery, cleanup_expired).
LEMMA RowMoves ==
  ASSUME OnceInv, \/ \E s \in Senders : Working(s)
                  \/ \E d \in Deliveries : Publish(d) \/ LapseLease(d) \/ ExpireRow(d)
                  \/ UNCHANGED vars
  PROVE  session' = session /\ \A d \in Deliveries : RowMove(d)
<1>. USE DEF RowMove
<1>1. ASSUME NEW d \in Deliveries, InsertRow(d), UNCHANGED <<outbound, session>>
      PROVE  session' = session /\ \A e \in Deliveries : RowMove(e)
  <2>1. /\ row' = [row EXCEPT ![d] = [state |-> "pending", lease |-> "null", expired |-> FALSE]]
        /\ MayQueue(d) /\ row[d].state = "none"
    BY <1>1 DEF InsertRow, KnownKey
  <2>. QED  BY <1>1, <2>1 DEF OnceInv, RowsOK
<1>2. ASSUME UNCHANGED <<row, outbound, session>>
      PROVE  session' = session /\ \A e \in Deliveries : RowMove(e)
  BY <1>2
<1>3. ASSUME NEW s \in Senders, Queue(s)
      PROVE  session' = session /\ \A e \in Deliveries : RowMove(e)
  <2>1. CASE QueueDelivery(s)
    <3>1. snd[s].key \in Deliveries
      BY <2>1 DEF QueueDelivery, OnceInv, SendersOK, Shaped
    <3>. QED  BY <1>1, <2>1, <3>1 DEF QueueDelivery
  <2>. QED  BY <1>2, <1>3, <2>1 DEF Queue, QueueKnown, QueueRefused
<1>4. ASSUME NEW s \in Senders, CleanupExpired(s)
      PROVE  session' = session /\ \A e \in Deliveries : RowMove(e)
  <2>. SUFFICES ASSUME NEW d \in Deliveries PROVE RowMove(d)
    BY <1>4 DEF CleanupExpired
  <2>1. /\ row'[d] = IF Purgeable(d) THEN NoRow
                       ELSE IF Lapsed(d) THEN [row[d] EXCEPT !.state = CleanedState] ELSE row[d]
        /\ outbound' = outbound
    BY <1>4 DEF CleanupExpired
  <2>2. CASE Purgeable(d)
    BY <2>1, <2>2 DEF Purgeable, NoRow
  <2>3. CASE ~Purgeable(d) /\ Lapsed(d)
    <3>1. row[d] \in Rows /\ row'[d] = [row[d] EXCEPT !.state = "uncertain"]
      BY <2>1, <2>3 DEF CleanedState, OnceInv, RowsOK
    <3>2. row'[d].state = "uncertain"
      BY <3>1 DEF Rows
    <3>. QED  BY <2>1, <2>3, <3>2 DEF Lapsed
  <2>. QED  BY <2>1, <2>2, <2>3
<1>5. ASSUME NEW s \in Senders, ClaimDelivery(s)
      PROVE  session' = session /\ \A e \in Deliveries : RowMove(e)
  <2>1. PICK d : d = Head(snd[s].todo)
    OBVIOUS
  <2>2. /\ row[d].state = "pending" /\ (d \in Receipts \/ Active(d))
        /\ row' = [row EXCEPT ![d].state = "sending", ![d].lease = "live"]
        /\ UNCHANGED <<outbound, session>>
    BY <1>5, <2>1 DEF ClaimDelivery, Claimable
  <2>3. /\ d \in Deliveries => row'[d].state = "sending"
        /\ \A e \in Deliveries \ {d} : row'[e] = row[e]
    BY <2>2, RowWritten DEF RowStates
  <2>. QED  BY <2>2, <2>3
<1>6. ASSUME NEW s \in Senders, FinishSent(s) \/ FinishUncertain(s)
      PROVE  session' = session /\ \A e \in Deliveries : RowMove(e)
  <2>1. PICK d : d = Head(snd[s].todo)
    OBVIOUS
  <2>2. PICK x \in {"sent", "uncertain"} : FinishDelivery(s, x)
    BY <1>6 DEF FinishSent, FinishUncertain
  <2>3. CASE UNCHANGED <<row, outbound>>
    BY <1>2, <2>2, <2>3 DEF FinishDelivery
  <2>4. CASE ~UNCHANGED <<row, outbound>>
    <3>1. /\ row[d].state = "sending" /\ session' = session
          /\ row' = [row EXCEPT ![d].state = x, ![d].lease = "null"]
          /\ outbound' = outbound \/ outbound' = [outbound EXCEPT ![d] = "sent"]
      BY <2>1, <2>2, <2>4 DEF FinishDelivery, MayFinish
    <3>2. /\ d \in Deliveries => row'[d].state = x
          /\ \A e \in Deliveries \ {d} : row'[e] = row[e]
      BY <3>1, RowWritten DEF RowStates
    <3>3. \A e \in Deliveries \ {d} : outbound'[e] = outbound[e]
      BY <3>1 DEF OnceInv, RowsOK
    <3>. QED  BY <3>1, <3>2, <3>3
  <2>. QED  BY <2>3, <2>4
<1>7. ASSUME NEW d \in Deliveries, LapseLease(d) \/ ExpireRow(d)
      PROVE  session' = session /\ \A e \in Deliveries : RowMove(e)
  <2>1. UNCHANGED <<outbound, session>>
    BY <1>7 DEF LapseLease, ExpireRow
  <2>2. row[d] \in Rows /\ row = [e \in Deliveries |-> row[e]]
    BY DEF OnceInv, RowsOK
  <2>3. PICK new : row' = [row EXCEPT ![d] = new] /\ new.state = row[d].state
    <3>1. [row[d] EXCEPT !.lease = "lapsed"].state = row[d].state
      BY <2>2 DEF Rows
    <3>2. [row[d] EXCEPT !.expired = TRUE].state = row[d].state
      BY <2>2 DEF Rows
    <3>3. \/ row' = [row EXCEPT ![d] = [row[d] EXCEPT !.lease = "lapsed"]]
          \/ row' = [row EXCEPT ![d] = [row[d] EXCEPT !.expired = TRUE]]
      BY <1>7 DEF LapseLease, ExpireRow
    <3>. QED  BY <3>1, <3>2, <3>3
  <2>4. \A e \in Deliveries : row'[e].state = row[e].state
    BY <2>2, <2>3
  <2>. QED  BY <2>1, <2>4
<1>8. ASSUME NEW d \in Deliveries, Publish(d)
      PROVE  session' = session /\ \A e \in Deliveries : RowMove(e)
  BY <1>1, <1>8 DEF Publish
<1>9. ASSUME NEW s \in Senders, Crash(s) \/ \E d \in Deliveries : SendReply(s, d)
      PROVE  session' = session /\ \A e \in Deliveries : RowMove(e)
  BY <1>2, <1>9 DEF Crash, SendReply
<1>10. ASSUME NEW s \in Senders, Deliver(s)
       PROVE  session' = session /\ \A e \in Deliveries : RowMove(e)
  <2>1. CASE \/ StartLoop(s) \/ PendingDeliveries(s) \/ ClaimLost(s) \/ DeliveryDone(s)
             \/ SendMessage(s) \/ NoAdapter(s) \/ FinishRaised(s)
    BY <1>2, <2>1 DEF StartLoop, PendingDeliveries, ClaimLost, DeliveryDone, SendMessage,
                      NoAdapter, FinishRaised
  <2>. QED  BY <1>4, <1>5, <1>6, <1>10, <2>1 DEF Deliver
<1>11. CASE UNCHANGED vars
  BY <1>2, <1>11 DEF vars
<1>. QED  BY <1>3, <1>7, <1>8, <1>9, <1>10, <1>11 DEF Working

\* The deletion of a session, as far as rows are concerned: the state goes from active to
\* deleting to deleted, and the last step leaves no text behind.
ErasedInv ==
  /\ OnceInv
  /\ session \in [Sessions -> {"active", "deleting", "deleted"}]
  /\ \A d \in Deliveries \ Receipts : Erased(d)

\* erase_session itself: it waits for the sends that hold a live lease.
LEMMA EraseRows ==
  ASSUME ErasedInv, NEW x \in Sessions, EraseSession(x), NEW d \in Deliveries
  PROVE  /\ SessionOf[d] = x /\ d \notin Receipts =>
              row'[d].state \in {"none", "deleted"} /\ outbound'[d] \in {"none", "deleted"}
         /\ SessionOf[d] # x => row'[d] = row[d] /\ outbound'[d] = outbound[d]
         /\ row[d].state = "sending" /\ row'[d].state = "deleted" => row[d].lease = "lapsed"
<1>1. /\ row[d] \in Rows /\ outbound[d] \in {"none", "sent", "deleted"} /\ RowKept(d)
  BY DEF ErasedInv, OnceInv, RowsOK
<1>2. row'[d] = IF SessionOf[d] = x /\ d \notin Receipts /\ row[d].state # "none"
                  THEN [row[d] EXCEPT !.state = "deleted", !.lease = "null"] ELSE row[d]
  BY DEF EraseSession
<1>3. outbound'[d] = IF SessionOf[d] = x /\ outbound[d] = "sent" THEN "deleted" ELSE outbound[d]
  BY DEF EraseSession
<1>4. [row[d] EXCEPT !.state = "deleted", !.lease = "null"].state = "deleted"
  BY <1>1 DEF Rows
<1>5. SessionOf[d] = x /\ row[d].state = "sending" => row[d].lease = "lapsed"
  BY <1>1 DEF EraseSession, Blocked, RowKept, Rows
<1>. QED  BY <1>1, <1>2, <1>3, <1>4, <1>5

\* Every step keeps erased what is erased (erase_session, queue_delivery, finish_delivery).
LEMMA ErasedStep ==
  ASSUME DeliveryAssumption, ErasedInv, [Next]_vars
  PROVE  ErasedInv'
<1>1. OnceInv'
  BY OnceStep DEF ErasedInv
<1>2. \A d \in Deliveries : SessionOf[d] \in Sessions
  BY DEF DeliveryAssumption
<1>3. CASE \/ \E s \in Senders : Working(s)
           \/ \E d \in Deliveries : Publish(d) \/ LapseLease(d) \/ ExpireRow(d)
           \/ UNCHANGED vars
  <2>1. session' = session /\ \A d \in Deliveries : RowMove(d)
    BY <1>3, RowMoves DEF ErasedInv
  <2>2. ASSUME NEW d \in Deliveries \ Receipts PROVE Erased(d)'
    <3>1. Erased(d) /\ RowMove(d)
      BY <2>1, <2>2 DEF ErasedInv
    <3>2. CASE session[SessionOf[d]] = "deleted"
      BY <2>1, <2>2, <3>1, <3>2 DEF Erased, RowMove, MayQueue, Active
    <3>3. CASE session[SessionOf[d]] # "deleted"
      BY <2>1, <3>3 DEF Erased
    <3>. QED  BY <3>2, <3>3
  <2>. QED  BY <1>1, <2>1, <2>2 DEF ErasedInv
<1>4. ASSUME NEW x \in Sessions, BeginDeletion(x) PROVE ErasedInv'
  <2>1. session' = [session EXCEPT ![x] = "deleting"] /\ UNCHANGED <<row, outbound>>
    BY <1>4 DEF BeginDeletion
  <2>2. ASSUME NEW d \in Deliveries \ Receipts PROVE Erased(d)'
    BY <1>2, <2>1, <2>2 DEF ErasedInv, Erased
  <2>. QED  BY <1>1, <2>1, <2>2 DEF ErasedInv
<1>5. ASSUME NEW x \in Sessions, EraseSession(x) PROVE ErasedInv'
  <2>1. session' = [session EXCEPT ![x] = "deleted"]
    BY <1>5 DEF EraseSession
  <2>2. ASSUME NEW d \in Deliveries \ Receipts PROVE Erased(d)'
    <3>1. CASE SessionOf[d] = x
      BY <1>5, <2>2, <3>1, EraseRows DEF Erased
    <3>2. CASE SessionOf[d] # x
      <4>1. row'[d] = row[d] /\ outbound'[d] = outbound[d]
        BY <1>5, <2>2, <3>2, EraseRows
      <4>2. session'[SessionOf[d]] = session[SessionOf[d]]
        BY <1>2, <2>1, <2>2, <3>2 DEF ErasedInv
      <4>. QED  BY <2>2, <4>1, <4>2 DEF ErasedInv, Erased
    <3>. QED  BY <3>1, <3>2
  <2>. QED  BY <1>1, <2>1, <2>2 DEF ErasedInv
<1>. QED  BY <1>3, <1>4, <1>5 DEF Next, Working

\* An erased session stays erased, whoever was sending when it was deleted, and deletion never
\* overtakes a send that still holds its lease (begin_session_deletion, lifecycle_blockers,
\* erase_session, queue_delivery, finish_delivery).
THEOREM ErasedStaysErased == Spec => ErasureHolds
<1>. DEFINE Waits == \A d \in Deliveries :
               row[d].state = "sending" /\ row'[d].state = "deleted" => row[d].lease = "lapsed"
<1>1. Init => ErasedInv
  BY OnceInit DEF Init, ErasedInv, Erased, NoRow
<1>2. ErasedInv /\ [Next]_vars => ErasedInv'
  BY ErasedStep, DeliveryAssumption
<1>3. ErasedInv => \A d \in Deliveries \ Receipts : Erased(d)
  BY DEF ErasedInv
<1>4. ErasedInv /\ [Next]_vars => [Waits]_vars
  <2>. SUFFICES ASSUME ErasedInv, Next PROVE Waits
    OBVIOUS
  <2>1. CASE \/ \E s \in Senders : Working(s)
             \/ \E d \in Deliveries : Publish(d) \/ LapseLease(d) \/ ExpireRow(d)
    BY <2>1, RowMoves DEF ErasedInv, RowMove
  <2>2. ASSUME NEW x \in Sessions, BeginDeletion(x) PROVE Waits
    BY <2>2 DEF BeginDeletion
  <2>3. ASSUME NEW x \in Sessions, EraseSession(x) PROVE Waits
    BY <2>3, EraseRows
  <2>. QED  BY <2>1, <2>2, <2>3 DEF Next, Working
<1>. QED  BY <1>1, <1>2, <1>3, <1>4, PTL DEF Spec, ErasureHolds
----------------------------------------------------------------------------
(* What a query returns *)

\* The selection, as the recursive function that Selected defines.
UptoStep(rows, keep, g, n) ==
  IF n = 0 THEN <<>> ELSE IF rows[n] \in keep THEN Append(g[n - 1], rows[n]) ELSE g[n - 1]
UptoOf(rows, keep) == CHOOSE g : g = [n \in 0..Len(rows) |-> UptoStep(rows, keep, g, n)]

\* A set of numbers has a least one.
LEMMA LeastNumber ==
  ASSUME NEW S, S \subseteq Nat, S # {} PROVE \E x \in S : \A y \in S : x <= y
<1>1. PICK x \in S : \A y \in S : <<y, x>> \notin OpToRel(<, Nat)
  BY WFMin, NatLessThanWellFounded, Zenon
<1>2. \A y \in S : ~(y < x)
  BY <1>1, Zenon DEF OpToRel
<1>3. \A y \in S : y \in Nat /\ x \in Nat
  OBVIOUS
<1>. QED  BY <1>2, <1>3

\* The recursion has a solution: one that is right up to n gives one that is right up to n + 1.
LEMMA UptoDefined ==
  ASSUME NEW rows \in Seq(Deliveries), NEW keep
  PROVE  UptoOf(rows, keep) = [n \in 0..Len(rows) |-> UptoStep(rows, keep, UptoOf(rows, keep), n)]
<1>. DEFINE N == Len(rows)
            Right(g, m) == \A n \in 0..m : g[n] = UptoStep(rows, keep, g, n)
            None == {m \in Nat : \A g : ~Right(g, m)}
<1>1. 0 \notin None
  <2>. DEFINE z == [n \in 0..0 |-> <<>>]
  <2>1. Right(z, 0)
    BY DEF UptoStep
  <2>. QED  BY <2>1
<1>2. ASSUME NEW m \in Nat, m \notin None PROVE m + 1 \notin None
  <2>1. PICK g : Right(g, m)
    BY <1>2
  <2>. DEFINE h == [n \in 0..(m + 1) |-> IF n <= m THEN g[n] ELSE UptoStep(rows, keep, g, n)]
  <2>2. \A n \in 0..m : h[n] = g[n]
    OBVIOUS
  <2>3. h[m + 1] = UptoStep(rows, keep, g, m + 1)
    OBVIOUS
  <2>4. ASSUME NEW n \in 0..(m + 1) PROVE UptoStep(rows, keep, h, n) = UptoStep(rows, keep, g, n)
    <3>1. n # 0 => h[n - 1] = g[n - 1]
      BY <2>2, <2>4
    <3>. HIDE DEF h
    <3>. QED  BY <3>1 DEF UptoStep
  <2>5. Right(h, m + 1)
    <3>. SUFFICES ASSUME NEW n \in 0..(m + 1) PROVE h[n] = UptoStep(rows, keep, h, n)
      OBVIOUS
    <3>. HIDE DEF h
    <3>1. CASE n <= m
      BY <2>1, <2>2, <2>4, <3>1
    <3>2. CASE n = m + 1
      BY <2>3, <2>4, <3>2
    <3>. QED  BY <3>1, <3>2
  <2>. QED  BY <2>5
<1>3. None = {}
  <2>. SUFFICES ASSUME None # {} PROVE FALSE
    OBVIOUS
  <2>1. None \subseteq Nat
    OBVIOUS
  <2>. HIDE DEF None
  <2>2. PICK n \in None : \A m \in None : n <= m
    BY <2>1, LeastNumber
  <2>3. n - 1 \in Nat /\ n - 1 < n /\ (n - 1) + 1 = n
    BY <1>1, <2>1
  <2>. QED  BY <1>2, <2>2, <2>3
<1>4. N \in Nat
  OBVIOUS
<1>5. PICK g : Right(g, N)
  BY <1>3, <1>4
<1>. DEFINE f == [n \in 0..N |-> g[n]]
<1>6. \A n \in 0..N : UptoStep(rows, keep, g, n) = UptoStep(rows, keep, f, n)
  <2>1. \A n \in 0..N : f[n] = g[n] /\ (n # 0 => f[n - 1] = g[n - 1])
    BY <1>4
  <2>. HIDE DEF f
  <2>. QED  BY <2>1 DEF UptoStep
<1>7. f = [n \in 0..N |-> UptoStep(rows, keep, f, n)]
  BY <1>5, <1>6
<1>. HIDE DEF f
<1>. QED  BY <1>7 DEF UptoOf

\* Another row behind those selected so far.
LEMMA RowAppended ==
  ASSUME NEW q \in Seq(Deliveries), NEW d \in Deliveries
  PROVE  /\ Append(q, d) \in Seq(Deliveries) /\ Len(Append(q, d)) = Len(q) + 1
         /\ ToSet(Append(q, d)) = ToSet(q) \cup {d}
         /\ IsInjective(q) /\ d \notin ToSet(q) => IsInjective(Append(q, d))
<1>. DEFINE r == Append(q, d)
<1>1. r \in Seq(Deliveries) /\ Len(r) = Len(q) + 1
  OBVIOUS
<1>2. DOMAIN r = 1..(Len(q) + 1) /\ DOMAIN q = 1..Len(q) /\ Len(q) \in Nat
  OBVIOUS
<1>3. r[Len(q) + 1] = d /\ \A i \in 1..Len(q) : r[i] = q[i]
  OBVIOUS
<1>. HIDE DEF r
<1>4. ToSet(r) = ToSet(q) \cup {d}
  <2>1. \A i \in DOMAIN r : i \in DOMAIN q \/ i = Len(q) + 1
    BY <1>2
  <2>2. \A i \in DOMAIN q : i \in DOMAIN r /\ r[i] = q[i]
    BY <1>2, <1>3
  <2>3. Len(q) + 1 \in DOMAIN r /\ r[Len(q) + 1] = d
    BY <1>2, <1>3
  <2>. QED  BY <2>1, <2>2, <2>3 DEF ToSet
<1>5. ASSUME IsInjective(q), d \notin ToSet(q) PROVE IsInjective(r)
  <2>. SUFFICES ASSUME NEW i \in DOMAIN r, NEW j \in DOMAIN r, r[i] = r[j] PROVE i = j
    BY DEF IsInjective
  <2>1. \A k \in DOMAIN r : k \in DOMAIN q \/ k = Len(q) + 1
    BY <1>2
  <2>2. \A k \in DOMAIN q : r[k] = q[k] /\ q[k] # d
    BY <1>2, <1>3, <1>5 DEF ToSet
  <2>. QED  BY <1>3, <1>5, <2>1, <2>2 DEF IsInjective
<1>. QED  BY <1>1, <1>4, <1>5 DEF r

\* A query returns the rows that its condition keeps, each as often as the table has it: a table
\* without repetition gives a result without repetition (cleanup_expired, pending_deliveries).
LEMMA SelectedRows ==
  ASSUME NEW rows \in Seq(Deliveries), NEW keep
  PROVE  /\ Selected(rows, keep) \in Seq(Deliveries) /\ Len(Selected(rows, keep)) <= Len(rows)
         /\ ToSet(Selected(rows, keep)) = ToSet(rows) \cap keep
         /\ IsInjective(rows) => IsInjective(Selected(rows, keep))
<1>. DEFINE U == UptoOf(rows, keep)
            First(n) == {rows[i] : i \in 1..n}
            Fits(n) == /\ U[n] \in Seq(Deliveries) /\ Len(U[n]) <= n
                       /\ ToSet(U[n]) = First(n) \cap keep
                       /\ IsInjective(rows) => IsInjective(U[n])
            Bad == {n \in 0..Len(rows) : ~Fits(n)}
<1>1. Len(rows) \in Nat /\ DOMAIN rows = 1..Len(rows) /\ \A i \in 1..Len(rows) : rows[i] \in Deliveries
  OBVIOUS
<1>2. \A n \in 0..Len(rows) : U[n] = UptoStep(rows, keep, U, n)
  BY UptoDefined
<1>3. Selected(rows, keep) = U[Len(rows)]
  BY DEF Selected, UptoOf, UptoStep
<1>. HIDE DEF U
<1>4. Fits(0)
  <2>1. U[0] = <<>> /\ First(0) = {}
    BY <1>1, <1>2 DEF UptoStep
  <2>2. DOMAIN U[0] = {}
    BY <2>1
  <2>3. U[0] \in Seq(Deliveries) /\ Len(U[0]) <= 0
    BY <2>1
  <2>. QED  BY <2>1, <2>2, <2>3 DEF ToSet, IsInjective
<1>5. ASSUME NEW n \in 1..Len(rows), Fits(n - 1) PROVE Fits(n)
  <2>1. n \in 0..Len(rows) /\ n # 0 /\ n - 1 \in Nat /\ n \in Nat
    BY <1>1
  <2>2. U[n] = IF rows[n] \in keep THEN Append(U[n - 1], rows[n]) ELSE U[n - 1]
    BY <1>2, <2>1 DEF UptoStep
  <2>3. rows[n] \in Deliveries
    BY <1>1
  <2>4. First(n) = First(n - 1) \cup {rows[n]}
    <3>1. \A i : i \in 1..n <=> i \in 1..(n - 1) \/ i = n
      BY <2>1
    <3>. QED  BY <3>1
  <2>5. IsInjective(rows) => rows[n] \notin First(n - 1)
    <3>1. \A i \in 1..(n - 1) : i \in DOMAIN rows /\ n \in DOMAIN rows /\ i # n
      BY <1>1, <2>1
    <3>. QED  BY <3>1 DEF IsInjective
  <2>. DEFINE q == U[n - 1]  F == First(n - 1)  d == rows[n]
  <2>6. /\ q \in Seq(Deliveries) /\ Len(q) <= n - 1
        /\ ToSet(q) = F \cap keep
        /\ IsInjective(rows) => IsInjective(q)
    BY <1>5
  <2>7. /\ U[n] = IF d \in keep THEN Append(q, d) ELSE q
        /\ First(n) = F \cup {d} /\ d \in Deliveries
        /\ IsInjective(rows) => d \notin F
    BY <2>2, <2>3, <2>4, <2>5
  <2>. HIDE DEF q, F, d, First
  <2>8. Len(q) \in Nat
    BY <2>6
  <2>9. CASE d \in keep
    <3>1. /\ Append(q, d) \in Seq(Deliveries) /\ Len(Append(q, d)) = Len(q) + 1
          /\ ToSet(Append(q, d)) = ToSet(q) \cup {d}
          /\ IsInjective(q) /\ d \notin ToSet(q) => IsInjective(Append(q, d))
      BY <2>6, <2>7, RowAppended
    <3>2. U[n] = Append(q, d)
      BY <2>7, <2>9
    <3>3. Len(U[n]) <= n
      BY <2>1, <2>6, <2>8, <3>1, <3>2
    <3>4. ToSet(U[n]) = First(n) \cap keep
      BY <2>6, <2>7, <2>9, <3>1, <3>2
    <3>5. IsInjective(rows) => IsInjective(U[n])
      BY <2>6, <2>7, <3>1, <3>2
    <3>. QED  BY <3>1, <3>2, <3>3, <3>4, <3>5
  <2>10. CASE d \notin keep
    <3>1. U[n] = q
      BY <2>7, <2>10
    <3>2. Len(U[n]) <= n
      BY <2>1, <2>6, <2>8, <3>1
    <3>3. ToSet(U[n]) = First(n) \cap keep
      BY <2>6, <2>7, <2>10, <3>1
    <3>. QED  BY <2>6, <3>1, <3>2, <3>3
  <2>. QED  BY <2>9, <2>10
<1>6. Bad = {}
  <2>. SUFFICES ASSUME Bad # {} PROVE FALSE
    OBVIOUS
  <2>1. Bad \subseteq Nat
    BY <1>1
  <2>2. PICK n \in Bad : \A m \in Bad : n <= m
    <3>. HIDE DEF Bad
    <3>. QED  BY <2>1, LeastNumber
  <2>3. n \in 0..Len(rows) /\ ~Fits(n)
    BY <2>2
  <2>. HIDE DEF Fits
  <2>4. n \in 1..Len(rows) /\ n - 1 \in 0..Len(rows) /\ ~(n <= n - 1)
    BY <1>1, <1>4, <2>3
  <2>. QED  BY <1>5, <2>2, <2>3, <2>4
<1>7. Fits(Len(rows))
  <2>. HIDE DEF Fits
  <2>. QED  BY <1>1, <1>6
<1>8. First(Len(rows)) = ToSet(rows)
  BY <1>1 DEF ToSet
<1>. QED  BY <1>3, <1>7, <1>8

\* A page is the beginning of the result (LIMIT 20 of pending_deliveries).
LEMMA PageOfRows ==
  ASSUME DeliveryAssumption, NEW rows \in Seq(Deliveries)
  PROVE  FirstPage(rows) \in Seq(Deliveries)
<1>. DEFINE n == IF Len(rows) < Page THEN Len(rows) ELSE Page
<1>1. Len(rows) \in Nat /\ Page \in Nat
  BY DEF DeliveryAssumption
<1>2. n \in Int /\ 1 \in Int /\ \A i \in 1..n : rows[i] \in Deliveries
  BY <1>1
<1>3. SubSeq(rows, 1, n) \in Seq(Deliveries)
  <2>. HIDE DEF n
  <2>. QED  BY <1>2, SubSeqProperties
<1>. QED  BY <1>3 DEF FirstPage

----------------------------------------------------------------------------
(* The types *)

LedgerFits ==
  /\ ledger \in Seq(Deliveries) /\ Len(ledger) <= Capacity /\ IsInjective(ledger)
  /\ ToSet(ledger) = {d \in Deliveries : row[d].state # "none"}

\* A sender that has claimed a row, or wants to, has it at the head of its page.
LocalsFit ==
  /\ snd \in [Senders -> Locals]
  /\ \A s \in Senders : snd[s].pc \in {"send", "finish_sent", "finish_uncertain"} => snd[s].todo # <<>>

CountsFit ==
  /\ session \in [Sessions -> {"active", "deleting", "deleted"}]
  /\ eventKeys \subseteq Keyed /\ attempted \subseteq Deliveries
  /\ purges \in [Deliveries -> 0..MaxPurges] /\ crashes \in 0..MaxCrashes

TypeInv == OnceInv /\ LedgerFits /\ LocalsFit /\ CountsFit

\* A new row is the last one, and the key had none (queue_delivery).
LEMMA InsertFits ==
  ASSUME DeliveryAssumption, OnceInv, LedgerFits, NEW d \in Deliveries, InsertRow(d)
  PROVE  LedgerFits'
<1>1. /\ row[d].state = "none" /\ Len(ledger) < Capacity /\ ledger' = Append(ledger, d)
      /\ row' = [row EXCEPT ![d] = [state |-> "pending", lease |-> "null", expired |-> FALSE]]
  BY DEF InsertRow, KnownKey
<1>2. /\ ledger \in Seq(Deliveries) /\ IsInjective(ledger) /\ d \notin ToSet(ledger)
      /\ ToSet(ledger) = {e \in Deliveries : row[e].state # "none"}
  BY <1>1 DEF LedgerFits
<1>3. /\ ledger' \in Seq(Deliveries) /\ Len(ledger') = Len(ledger) + 1
      /\ ToSet(ledger') = ToSet(ledger) \cup {d} /\ IsInjective(ledger')
  BY <1>1, <1>2, RowAppended
<1>4. Len(ledger') <= Capacity
  <2>1. Len(ledger) \in Nat /\ Capacity \in Nat
    BY <1>2 DEF DeliveryAssumption
  <2>. QED  BY <1>1, <1>3, <2>1
<1>5. \A e \in Deliveries : row'[e].state # "none" <=> row[e].state # "none" \/ e = d
  BY <1>1 DEF OnceInv, RowsOK
<1>6. ToSet(ledger') = {e \in Deliveries : row'[e].state # "none"}
  BY <1>2, <1>3, <1>5
<1>. QED  BY <1>3, <1>4, <1>6 DEF LedgerFits

\* What is removed is gone from the ledger (cleanup_expired).
LEMMA CleanupFits ==
  ASSUME DeliveryAssumption, OnceInv, LedgerFits, NEW s \in Senders, CleanupExpired(s)
  PROVE  LedgerFits'
<1>. DEFINE keep == Deliveries \ {d \in Deliveries : Purgeable(d)}
<1>1. ledger' = Selected(ledger, keep)
  BY DEF CleanupExpired
<1>2. /\ ledger \in Seq(Deliveries) /\ IsInjective(ledger) /\ Len(ledger) <= Capacity
      /\ ToSet(ledger) = {d \in Deliveries : row[d].state # "none"}
  BY DEF LedgerFits
<1>3. /\ ledger' \in Seq(Deliveries) /\ Len(ledger') <= Len(ledger) /\ IsInjective(ledger')
      /\ ToSet(ledger') = ToSet(ledger) \cap keep
  <2>. HIDE DEF keep
  <2>. QED  BY <1>1, <1>2, SelectedRows
<1>4. Len(ledger') <= Capacity
  <2>1. Len(ledger) \in Nat /\ Len(ledger') \in Nat /\ Capacity \in Nat
    BY <1>2, <1>3 DEF DeliveryAssumption
  <2>. QED  BY <1>2, <1>3, <2>1
<1>5. ASSUME NEW d \in Deliveries
      PROVE  row'[d].state # "none" <=> row[d].state # "none" /\ d \in keep
  <2>1. row'[d] = IF Purgeable(d) THEN NoRow
                  ELSE IF Lapsed(d) THEN [row[d] EXCEPT !.state = CleanedState] ELSE row[d]
    BY DEF CleanupExpired
  <2>2. CASE Purgeable(d)
    BY <2>1, <2>2 DEF NoRow
  <2>3. CASE ~Purgeable(d) /\ Lapsed(d)
    <3>1. row'[d] = [row[d] EXCEPT !.state = "uncertain"] /\ row[d] \in Rows
      BY <2>1, <2>3 DEF CleanedState, OnceInv, RowsOK
    <3>2. row'[d].state = "uncertain"
      BY <3>1 DEF Rows
    <3>. QED  BY <2>3, <3>2 DEF Lapsed
  <2>4. CASE ~Purgeable(d) /\ ~Lapsed(d)
    BY <2>1, <2>4
  <2>. QED  BY <2>2, <2>3, <2>4
<1>6. ToSet(ledger') = {d \in Deliveries : row'[d].state # "none"}
  <2>. HIDE DEF keep
  <2>. QED  BY <1>2, <1>3, <1>5
<1>. QED  BY <1>3, <1>4, <1>6 DEF LedgerFits

\* No other step makes or removes a row (claim_delivery, finish_delivery, erase_session).
LEMMA LedgerSame ==
  ASSUME LedgerFits, ledger' = ledger,
         \A d \in Deliveries : row'[d].state # "none" <=> row[d].state # "none"
  PROVE  LedgerFits'
<1>1. ToSet(ledger)' = {d \in Deliveries : row'[d].state # "none"}
  BY DEF LedgerFits
<1>. QED  BY <1>1 DEF LedgerFits

LEMMA LedgerStep ==
  ASSUME DeliveryAssumption, OnceInv, LedgerFits, [Next]_vars
  PROVE  LedgerFits'
<1>1. ASSUME UNCHANGED <<row, ledger>> PROVE LedgerFits'
  BY <1>1, LedgerSame
<1>2. ASSUME NEW s \in Senders, Deliver(s) PROVE LedgerFits'
  <2>1. CASE \/ StartLoop(s) \/ PendingDeliveries(s) \/ ClaimLost(s) \/ DeliveryDone(s)
             \/ SendMessage(s) \/ NoAdapter(s) \/ FinishRaised(s)
    BY <1>1, <2>1 DEF StartLoop, PendingDeliveries, ClaimLost, DeliveryDone, SendMessage,
                      NoAdapter, FinishRaised
  <2>2. CASE ClaimDelivery(s)
    <3>1. PICK d : d = Head(snd[s].todo)
      OBVIOUS
    <3>2. /\ row[d].state = "pending" /\ ledger' = ledger
          /\ row' = [row EXCEPT ![d].state = "sending", ![d].lease = "live"]
      BY <2>2, <3>1 DEF ClaimDelivery, Claimable
    <3>3. /\ d \in Deliveries => row'[d].state = "sending"
          /\ \A e \in Deliveries \ {d} : row'[e] = row[e]
      BY <3>2, RowWritten DEF RowStates
    <3>. QED  BY <3>2, <3>3, LedgerSame
  <2>3. CASE FinishSent(s) \/ FinishUncertain(s)
    <3>1. PICK d : d = Head(snd[s].todo)
      OBVIOUS
    <3>2. PICK x \in {"sent", "uncertain"} : FinishDelivery(s, x)
      BY <2>3 DEF FinishSent, FinishUncertain
    <3>3. CASE UNCHANGED row
      BY <1>1, <3>2, <3>3 DEF FinishDelivery
    <3>4. CASE ~UNCHANGED row
      <4>1. /\ row[d].state = "sending" /\ ledger' = ledger
            /\ row' = [row EXCEPT ![d].state = x, ![d].lease = "null"]
        BY <3>1, <3>2, <3>4 DEF FinishDelivery, MayFinish
      <4>2. /\ d \in Deliveries => row'[d].state = x
            /\ \A e \in Deliveries \ {d} : row'[e] = row[e]
        BY <4>1, RowWritten DEF RowStates
      <4>. QED  BY <4>1, <4>2, LedgerSame
    <3>. QED  BY <3>3, <3>4
  <2>. QED  BY <1>2, <2>1, <2>2, <2>3, CleanupFits DEF Deliver
<1>3. ASSUME NEW s \in Senders, Queue(s) PROVE LedgerFits'
  <2>1. CASE QueueDelivery(s)
    <3>1. snd[s].key \in Deliveries
      BY <2>1 DEF QueueDelivery, OnceInv, SendersOK, Shaped
    <3>. QED  BY <2>1, <3>1, InsertFits DEF QueueDelivery
  <2>. QED  BY <1>1, <1>3, <2>1 DEF Queue, QueueKnown, QueueRefused
<1>4. ASSUME NEW s \in Senders, Crash(s) \/ \E d \in Deliveries : SendReply(s, d) PROVE LedgerFits'
  BY <1>1, <1>4 DEF Crash, SendReply
<1>5. ASSUME NEW d \in Deliveries, Publish(d) PROVE LedgerFits'
  BY <1>5, InsertFits DEF Publish
<1>6. ASSUME NEW d \in Deliveries, LapseLease(d) \/ ExpireRow(d) PROVE LedgerFits'
  <2>1. row[d] \in Rows /\ row = [e \in Deliveries |-> row[e]] /\ ledger' = ledger
    BY <1>6 DEF OnceInv, RowsOK, LapseLease, ExpireRow
  <2>2. \/ row' = [row EXCEPT ![d] = [row[d] EXCEPT !.lease = "lapsed"]]
        \/ row' = [row EXCEPT ![d] = [row[d] EXCEPT !.expired = TRUE]]
    BY <1>6 DEF LapseLease, ExpireRow
  <2>3. /\ [row[d] EXCEPT !.lease = "lapsed"].state = row[d].state
        /\ [row[d] EXCEPT !.expired = TRUE].state = row[d].state
    BY <2>1 DEF Rows
  <2>4. \A e \in Deliveries : row'[e].state = row[e].state
    BY <2>1, <2>2, <2>3
  <2>. QED  BY <2>1, <2>4, LedgerSame
<1>7. ASSUME NEW x \in Sessions, BeginDeletion(x) PROVE LedgerFits'
  BY <1>1, <1>7 DEF BeginDeletion
<1>8. ASSUME NEW x \in Sessions, EraseSession(x) PROVE LedgerFits'
  <2>1. ASSUME NEW d \in Deliveries PROVE row'[d].state # "none" <=> row[d].state # "none"
    <3>1. row[d] \in Rows
      BY DEF OnceInv, RowsOK
    <3>2. row'[d] = IF SessionOf[d] = x /\ d \notin Receipts /\ row[d].state # "none"
                      THEN [row[d] EXCEPT !.state = "deleted", !.lease = "null"] ELSE row[d]
      BY <1>8 DEF EraseSession
    <3>3. [row[d] EXCEPT !.state = "deleted", !.lease = "null"].state = "deleted"
      BY <3>1 DEF Rows
    <3>. QED  BY <3>2, <3>3
  <2>. QED  BY <1>8, <2>1, LedgerSame DEF EraseSession
<1>9. CASE UNCHANGED vars
  BY <1>1, <1>9 DEF vars
<1>. QED  BY <1>2, <1>3, <1>4, <1>5, <1>6, <1>7, <1>8, <1>9 DEF Next

\* A sender whose variables are written keeps their types.
LEMMA LocalFits ==
  ASSUME LocalsFit, NEW s \in Senders, NEW p \in Pcs, NEW key \in Deliveries \cup {NoDelivery},
         NEW todo \in Seq(Deliveries), p \in {"send", "finish_sent", "finish_uncertain"} => todo # <<>>,
         snd' = [snd EXCEPT ![s] = [pc |-> p, key |-> key, todo |-> todo]]
  PROVE  LocalsFit'
<1>. DEFINE new == [pc |-> p, key |-> key, todo |-> todo]
<1>1. new \in Locals /\ new.pc = p /\ new.todo = todo
  BY DEF Locals
<1>2. /\ snd' \in [Senders -> Locals] /\ snd'[s] = new
      /\ \A t \in Senders \ {s} : snd'[t] = snd[t]
  BY <1>1 DEF LocalsFit
<1>. HIDE DEF new
<1>. QED  BY <1>1, <1>2 DEF LocalsFit

\* What a step writes of a sender, where it names the fields.
LEMMA LocalWritten ==
  ASSUME OnceInv, NEW s \in Senders
  PROVE  /\ \A p : [snd EXCEPT ![s].pc = p] =
                     [snd EXCEPT ![s] = [pc |-> p, key |-> snd[s].key, todo |-> snd[s].todo]]
         /\ \A page : [snd EXCEPT ![s].todo = page] =
                     [snd EXCEPT ![s] = [pc |-> snd[s].pc, key |-> snd[s].key, todo |-> page]]
         /\ \A p, page : [snd EXCEPT ![s].pc = p, ![s].todo = page] =
                     [snd EXCEPT ![s] = [pc |-> p, key |-> snd[s].key, todo |-> page]]
<1>1. snd[s] = [pc |-> snd[s].pc, key |-> snd[s].key, todo |-> snd[s].todo]
  BY DEF OnceInv, SendersOK, Shaped
<1>2. ASSUME NEW p PROVE [snd EXCEPT ![s].pc = p] =
                     [snd EXCEPT ![s] = [pc |-> p, key |-> snd[s].key, todo |-> snd[s].todo]]
  <2>1. [snd[s] EXCEPT !.pc = p] = [pc |-> p, key |-> snd[s].key, todo |-> snd[s].todo]
    BY <1>1
  <2>. QED  BY <2>1
<1>3. ASSUME NEW page PROVE [snd EXCEPT ![s].todo = page] =
                     [snd EXCEPT ![s] = [pc |-> snd[s].pc, key |-> snd[s].key, todo |-> page]]
  <2>1. [snd[s] EXCEPT !.todo = page] = [pc |-> snd[s].pc, key |-> snd[s].key, todo |-> page]
    BY <1>1
  <2>. QED  BY <2>1
<1>4. ASSUME NEW p, NEW page
      PROVE  [snd EXCEPT ![s].pc = p, ![s].todo = page] =
                     [snd EXCEPT ![s] = [pc |-> p, key |-> snd[s].key, todo |-> page]]
  <2>. DEFINE old == snd[s]  new == [old EXCEPT !.pc = p, !.todo = page]
  <2>0. old = [pc |-> old.pc, key |-> old.key, todo |-> old.todo]
    BY <1>1
  <2>1. new = [pc |-> p, key |-> old.key, todo |-> page]
    <3>0. new = [old EXCEPT !.pc = p, !.todo = page]
      OBVIOUS
    <3>1. /\ new.pc = p /\ new.key = old.key /\ new.todo = page
          /\ new = [pc |-> new.pc, key |-> new.key, todo |-> new.todo]
      <4>. HIDE DEF old, new
      <4>. QED  BY <2>0, <3>0, LocalsWritten, Zenon
    <3>. HIDE DEF new
    <3>. QED  BY <3>1
  <2>2. [snd EXCEPT ![s].pc = p, ![s].todo = page] = [snd EXCEPT ![s] = [snd[s] EXCEPT !.pc = p, !.todo = page]]
    BY DEF OnceInv, SendersOK
  <2>. QED  BY <2>1, <2>2
<1>. QED  BY <1>2, <1>3, <1>4

\* Every step leaves the senders with a place, a delivery and a page they may have.
LEMMA LocalsStep ==
  ASSUME DeliveryAssumption, OnceInv, LedgerFits, LocalsFit, [Next]_vars
  PROVE  LocalsFit'
<1>1. ASSUME UNCHANGED snd PROVE LocalsFit'
  BY <1>1 DEF LocalsFit
<1>2. ASSUME NEW s \in Senders, Deliver(s) \/ Queue(s) \/ Crash(s) \/ \E d \in Deliveries : SendReply(s, d)
      PROVE  LocalsFit'
  <2>1. /\ snd[s].pc \in Pcs /\ snd[s].key \in Deliveries \cup {NoDelivery} /\ snd[s].todo \in Seq(Deliveries)
        /\ snd[s].pc \in {"send", "finish_sent", "finish_uncertain"} => snd[s].todo # <<>>
    BY DEF LocalsFit, Locals
  <2>2. ASSUME NEW p \in Pcs, NEW key \in Deliveries \cup {NoDelivery}, NEW todo \in Seq(Deliveries),
               p \in {"send", "finish_sent", "finish_uncertain"} => todo # <<>>,
               snd' = [snd EXCEPT ![s] = [pc |-> p, key |-> key, todo |-> todo]]
        PROVE  LocalsFit'
    BY <2>2, LocalFits
  <2>3. ASSUME NEW d \in Deliveries, SendReply(s, d) PROVE LocalsFit'
    <3>1. snd' = [snd EXCEPT ![s] = [pc |-> "queue", key |-> d, todo |-> <<>>]]
      BY <2>3 DEF SendReply
    <3>2. <<>> \in Seq(Deliveries) /\ "queue" \in Pcs /\ "queue" \notin {"send", "finish_sent", "finish_uncertain"}
      BY DEF Pcs
    <3>. QED  BY <2>2, <3>1, <3>2, Zenon
  <2>4. ASSUME snd' = [snd EXCEPT ![s] = Idle] PROVE LocalsFit'
    <3>1. snd' = [snd EXCEPT ![s] = [pc |-> "idle", key |-> NoDelivery, todo |-> <<>>]]
      BY <2>4 DEF Idle
    <3>2. <<>> \in Seq(Deliveries) /\ "idle" \in Pcs /\ "idle" \notin {"send", "finish_sent", "finish_uncertain"}
      BY DEF Pcs
    <3>. QED  BY <2>2, <3>1, <3>2, Zenon
  <2>5. ASSUME NEW p \in Pcs, snd' = [snd EXCEPT ![s].pc = p],
               p \in {"send", "finish_sent", "finish_uncertain"} => snd[s].todo # <<>>
        PROVE  LocalsFit'
    <3>1. snd' = [snd EXCEPT ![s] = [pc |-> p, key |-> snd[s].key, todo |-> snd[s].todo]]
      BY <2>5, LocalWritten
    <3>. QED  BY <2>1, <2>2, <2>5, <3>1
  <2>6. CASE QueueDelivery(s) \/ QueueKnown(s) \/ StartLoop(s)
    BY <2>5, <2>6 DEF QueueDelivery, QueueKnown, StartLoop, Pcs
  <2>7. CASE QueueRefused(s) \/ DeliveryDone(s) \/ Crash(s)
    BY <2>4, <2>7 DEF QueueRefused, DeliveryDone, Crash
  <2>8. CASE CleanupExpired(s)
    BY <2>5, <2>8 DEF CleanupExpired, Pcs
  <2>9. CASE PendingDeliveries(s)
    <3>1. PendingPage(snd[s].key) \in Seq(Deliveries)
      BY SelectedRows, PageOfRows DEF PendingPage, LedgerFits
    <3>2. snd' = [snd EXCEPT ![s].pc = "claim", ![s].todo = PendingPage(snd[s].key)]
      BY <2>9 DEF PendingDeliveries
    <3>3. snd' = [snd EXCEPT ![s] = [pc |-> "claim", key |-> snd[s].key, todo |-> PendingPage(snd[s].key)]]
      BY <3>2, LocalWritten
    <3>. QED  BY <2>1, <2>2, <3>1, <3>3 DEF Pcs
  <2>10. CASE ClaimDelivery(s)
    BY <2>5, <2>10 DEF ClaimDelivery, Pcs
  <2>11. ASSUME snd[s].todo # <<>> PROVE Tail(snd[s].todo) \in Seq(Deliveries)
    BY <2>1, <2>11
  <2>12. CASE ClaimLost(s)
    <3>1. snd[s].pc = "claim" /\ snd[s].todo # <<>> /\ snd' = [snd EXCEPT ![s].todo = Tail(snd[s].todo)]
      BY <2>12 DEF ClaimLost
    <3>2. snd' = [snd EXCEPT ![s] = [pc |-> "claim", key |-> snd[s].key, todo |-> Tail(snd[s].todo)]]
      BY <3>1, LocalWritten
    <3>. QED  BY <2>1, <2>2, <2>11, <3>1, <3>2 DEF Pcs
  <2>13. CASE SendMessage(s)
    <3>1. PICK next \in {"finish_sent", AfterError} : snd' = [snd EXCEPT ![s].pc = next]
      BY <2>13 DEF SendMessage
    <3>2. snd[s].todo # <<>> /\ next \in Pcs
      BY <2>1, <2>13 DEF SendMessage, AfterError, Pcs
    <3>. QED  BY <2>5, <3>1, <3>2
  <2>14. CASE NoAdapter(s) \/ FinishRaised(s)
    BY <2>1, <2>5, <2>14 DEF NoAdapter, FinishRaised, Pcs
  <2>15. CASE FinishSent(s) \/ FinishUncertain(s)
    <3>1. /\ snd[s].pc \in {"finish_sent", "finish_uncertain"}
          /\ snd' = [snd EXCEPT ![s].pc = "claim", ![s].todo = Tail(snd[s].todo)]
      BY <2>15 DEF FinishSent, FinishUncertain, FinishDelivery
    <3>2. snd' = [snd EXCEPT ![s] = [pc |-> "claim", key |-> snd[s].key, todo |-> Tail(snd[s].todo)]]
      BY <3>1, LocalWritten
    <3>. QED  BY <2>1, <2>2, <2>11, <3>1, <3>2 DEF Pcs
  <2>16. CASE Deliver(s)
    BY <2>6, <2>7, <2>8, <2>9, <2>10, <2>12, <2>13, <2>14, <2>15, <2>16 DEF Deliver
  <2>17. CASE Queue(s)
    BY <2>6, <2>7, <2>17 DEF Queue
  <2>. QED  BY <1>2, <2>3, <2>7, <2>16, <2>17
<1>3. ASSUME NEW d \in Deliveries, Publish(d) \/ LapseLease(d) \/ ExpireRow(d) PROVE LocalsFit'
  BY <1>1, <1>3 DEF Publish, LapseLease, ExpireRow
<1>4. ASSUME NEW x \in Sessions, BeginDeletion(x) \/ EraseSession(x) PROVE LocalsFit'
  BY <1>1, <1>4 DEF BeginDeletion, EraseSession
<1>5. CASE UNCHANGED vars
  BY <1>1, <1>5 DEF vars
<1>. QED  BY <1>2, <1>3, <1>4, <1>5 DEF Next

\* Session states, event keys, attempts, purges and deaths.
LEMMA CountsStep ==
  ASSUME DeliveryAssumption, OnceInv, CountsFit, [Next]_vars
  PROVE  CountsFit'
<1>1. ASSUME UNCHANGED <<session, eventKeys, attempted, purges, crashes>> PROVE CountsFit'
  BY <1>1 DEF CountsFit
<1>2. MaxPurges \in Nat /\ MaxCrashes \in Nat
  BY DEF DeliveryAssumption
<1>3. ASSUME NEW d \in Deliveries, InsertRow(d), UNCHANGED <<session, attempted, purges, crashes>>
      PROVE  CountsFit'
  BY <1>3 DEF InsertRow, EventKey, CountsFit
<1>4. ASSUME NEW s \in Senders, Deliver(s) PROVE CountsFit'
  <2>1. CASE \/ StartLoop(s) \/ PendingDeliveries(s) \/ ClaimLost(s) \/ DeliveryDone(s)
             \/ ClaimDelivery(s) \/ NoAdapter(s) \/ FinishRaised(s)
    BY <1>1, <2>1 DEF StartLoop, PendingDeliveries, ClaimLost, DeliveryDone, ClaimDelivery,
                      NoAdapter, FinishRaised
  <2>2. CASE FinishSent(s) \/ FinishUncertain(s)
    BY <1>1, <2>2 DEF FinishSent, FinishUncertain, FinishDelivery
  <2>3. CASE SendMessage(s)
    <3>1. Head(snd[s].todo) \in Deliveries
      BY <2>3 DEF SendMessage, DeliveryAssumption, Senders
    <3>2. /\ attempted' = attempted \cup {Head(snd[s].todo)}
          /\ UNCHANGED <<session, eventKeys, purges, crashes>>
      BY <2>3 DEF SendMessage
    <3>. QED  BY <3>1, <3>2 DEF CountsFit
  <2>4. CASE CleanupExpired(s)
    <3>1. /\ purges' = [d \in Deliveries |-> IF Purgeable(d) THEN purges[d] + 1 ELSE purges[d]]
          /\ \A d \in Deliveries : Purgeable(d) => purges[d] < MaxPurges
          /\ UNCHANGED <<session, eventKeys, attempted, crashes>>
      BY <2>4 DEF CleanupExpired
    <3>2. \A d \in Deliveries : purges[d] \in 0..MaxPurges
      BY DEF CountsFit
    <3>3. \A d \in Deliveries : purges'[d] \in 0..MaxPurges
      BY <1>2, <3>1, <3>2
    <3>4. purges' \in [Deliveries -> 0..MaxPurges]
      BY <3>1, <3>3
    <3>. QED  BY <3>1, <3>4 DEF CountsFit
  <2>. QED  BY <1>4, <2>1, <2>2, <2>3, <2>4 DEF Deliver
<1>5. ASSUME NEW s \in Senders, Queue(s) PROVE CountsFit'
  <2>1. CASE QueueDelivery(s)
    <3>1. snd[s].key \in Deliveries
      BY <2>1 DEF QueueDelivery, OnceInv, SendersOK, Shaped
    <3>. QED  BY <1>3, <2>1, <3>1 DEF QueueDelivery
  <2>. QED  BY <1>1, <1>5, <2>1 DEF Queue, QueueKnown, QueueRefused
<1>6. ASSUME NEW s \in Senders, Crash(s) PROVE CountsFit'
  <2>1. crashes < MaxCrashes /\ crashes' = crashes + 1 /\ UNCHANGED <<session, eventKeys, attempted, purges>>
    BY <1>6 DEF Crash
  <2>. QED  BY <1>2, <2>1 DEF CountsFit
<1>7. ASSUME NEW s \in Senders, NEW d \in Deliveries, SendReply(s, d) PROVE CountsFit'
  BY <1>1, <1>7 DEF SendReply
<1>8. ASSUME NEW d \in Deliveries, Publish(d) PROVE CountsFit'
  BY <1>3, <1>8 DEF Publish
<1>9. ASSUME NEW d \in Deliveries, LapseLease(d) \/ ExpireRow(d) PROVE CountsFit'
  BY <1>1, <1>9 DEF LapseLease, ExpireRow
<1>10. ASSUME NEW x \in Sessions, BeginDeletion(x) \/ EraseSession(x) PROVE CountsFit'
  <2>1. PICK y \in {"deleting", "deleted"} : session' = [session EXCEPT ![x] = y]
    BY <1>10 DEF BeginDeletion, EraseSession
  <2>2. UNCHANGED <<eventKeys, attempted, purges, crashes>>
    BY <1>10 DEF BeginDeletion, EraseSession
  <2>. QED  BY <2>1, <2>2 DEF CountsFit
<1>11. CASE UNCHANGED vars
  BY <1>1, <1>11 DEF vars
<1>. QED  BY <1>4, <1>5, <1>6, <1>7, <1>8, <1>9, <1>10, <1>11 DEF Next

\* Every variable keeps its domain, and the ledger is the list of the rows there are, each once
\* and within COMM_DELIVERY_LIMIT, for any number of deliveries, senders, purges and erasures
\* (queue_delivery, cleanup_expired, pending_deliveries, erase_session).
THEOREM DeliveriesTyped == Spec => []TypeOK
<1>1. Init => TypeInv
  <2>. SUFFICES ASSUME Init PROVE LedgerFits /\ LocalsFit /\ CountsFit
    BY OnceInit DEF TypeInv
  <2>1. LedgerFits
    <3>1. ledger = <<>> /\ \A d \in Deliveries : row[d].state = "none"
      BY DEF Init, NoRow
    <3>2. ledger \in Seq(Deliveries) /\ Len(ledger) = 0 /\ DOMAIN ledger = {}
      BY <3>1
    <3>3. Len(ledger) <= Capacity
      BY <3>2, DeliveryAssumption
    <3>. QED  BY <3>1, <3>2, <3>3 DEF LedgerFits, IsInjective, ToSet
  <2>2. LocalsFit
    BY DEF Init, Idle, LocalsFit, Locals, Pcs
  <2>3. CountsFit
    BY DeliveryAssumption DEF Init, CountsFit
  <2>. QED  BY <2>1, <2>2, <2>3
<1>2. TypeInv /\ [Next]_vars => TypeInv'
  BY DeliveryAssumption, OnceStep, LedgerStep, LocalsStep, CountsStep DEF TypeInv
<1>3. TypeInv => TypeOK
  BY DEF TypeInv, OnceInv, RowsOK, LedgerFits, LocalsFit, CountsFit, TypeOK
<1>. QED  BY <1>1, <1>2, <1>3, PTL DEF Spec
=============================================================================
