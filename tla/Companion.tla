----------------------------- MODULE Companion -----------------------------
(****************************************************************************)
(* One conversation of a companion device (websocket_server.py): the        *)
(* durable history of reliable events and the record of inputs             *)
(* (delivery.EventStore), the Session in the server's memory, the thread of *)
(* each chat, its desktop requests and human approvals (approvals.py), and  *)
(* the connection with its handshake, replay, pump, ACKs and overflow.      *)
(*                                                                          *)
(* The client is not in the repository: as the protocol asks, it takes      *)
(* events strictly in order, drops what it has, acts on a desktop call of   *)
(* its own connection only, reports its cursor when it reconnects, and may  *)
(* send an input again, in the week its record is kept.  A chat does one    *)
(* thing before it ends, and is not a Temporal task (Publication has that). *)
(****************************************************************************)
EXTENDS SequencesExt, FiniteSetsExt, Naturals

CONSTANTS
  Inputs,        \* the IDs of the inputs the client sends
  NoInput,       \* none of them
  CompanionOutbox,  \* COMPANION_OUTBOX_LIMIT
  MaxConns,      \* bound: connections
  MaxSends,      \* bound: how often the client sends an input
  MaxMishaps     \* bound: crashes, expiries, interrupts and dropped Sessions

ASSUME CompanionAssumption ==
  IsFiniteSet(Inputs) /\ NoInput \notin Inputs /\ {CompanionOutbox, MaxConns, MaxSends, MaxMishaps} \subseteq Nat

VARIABLES
  hist,     \* every event ever appended: its seq is its place
  kept,     \* ws_events: the seqs still stored
  low,      \* ws_sessions.floor
  inp,      \* ws_inputs.status
  thr,      \* the thread of each input's chat
  stop,     \* the inputs whose cancel_chat is set
  apr,      \* the approval each thread asked for
  chatRan,      \* how often an input was executed, and the operation it asked approval for
  srv,      \* the Session object
  wire,     \* what the current connection carries to the client
  cli,      \* the client: its cursor and its connection
  missed,   \* history: the seqs dropped before the client had them, which it was not told
  erased,   \* the conversation was deleted
  count     \* the bounds used up

compVars == <<hist, kept, low, inp, thr, stop, apr, chatRan, srv, wire, cli, missed, erased, count>>

NoSession == [ws |-> 0, ready |-> TRUE, sent |-> 0, from |-> 0, chat |-> NoInput, cancel |-> NoInput,
              desk |-> [i \in Inputs |-> 0]]
Newest == Len(hist)
ThreadPcs == {"run", "desk", "wait", "granted", "after"}

CompInit ==
  /\ hist = <<>> /\ kept = {} /\ low = 0
  /\ inp = [i \in Inputs |-> "new"] /\ thr = [i \in Inputs |-> "none"] /\ stop = {}
  /\ apr = [i \in Inputs |-> "none"] /\ chatRan = [i \in Inputs |-> [input |-> 0, effect |-> 0]]
  /\ srv = NoSession /\ wire = <<>> /\ cli = [at |-> 0, conn |-> 0] /\ missed = {} /\ erased = FALSE
  /\ count = [conns |-> 0, sends |-> 0, mishaps |-> 0]

\* EventStore.append.  The pump sends the event later.
HasRoom == Cardinality(kept) < CompanionOutbox
Stored(k, i) == /\ hist' = Append(hist, [k |-> k, i |-> i, cut |-> k = "end" /\ i \in stop])
                /\ kept' = kept \cup {Newest + 1}

\* Session.send without room: the chat is cancelled and the connection closed.
Overflow(s) == [s EXCEPT !.ws = 0]
ChatStopped(s) == stop \cup ({s.cancel} \cap Inputs)
Noted == \/ HasRoom /\ Stored("note", NoInput) /\ UNCHANGED <<stop, srv>>
         \/ ~HasRoom /\ stop' = ChatStopped(srv) /\ srv' = Overflow(srv) /\ UNCHANGED <<hist, kept>>

ChatAt(i, pc) == thr[i] = pc
Goes(i, pc) == thr' = [thr EXCEPT ![i] = pc]
Mishap == count.mishaps < MaxMishaps /\ count' = [count EXCEPT !.mishaps = @ + 1]
Connected == srv.ws # 0 /\ srv.ready /\ cli.conn = srv.ws

\* Mutant of Known: an input whose chat did not come to its end is taken again.
KnownFinished(i) == inp[i] \notin {"new", "uncertain"}

Known(i) == inp[i] # "new"

\* chat.send: refused while a chat runs, answered from the record when it was seen before,
\* else recorded as uncertain and executed.
ChatSend(i) ==
  /\ Connected /\ count.sends < MaxSends /\ ~erased
  /\ count' = [count EXCEPT !.sends = @ + 1]
  /\ \/ /\ srv.chat # NoInput \/ Known(i)
        /\ Noted
        /\ UNCHANGED <<inp, thr, chatRan>>
     \/ /\ srv.chat = NoInput /\ ~Known(i)
        /\ inp' = [inp EXCEPT ![i] = "uncertain"] /\ Goes(i, "run")
        /\ chatRan' = [chatRan EXCEPT ![i].input = @ + 1]
        /\ srv' = [srv EXCEPT !.chat = i, !.cancel = i]
        /\ stop' = stop \ {i} /\ UNCHANGED <<hist, kept>>
  /\ UNCHANGED <<low, apr, wire, cli, missed, erased>>

\* handle_chat appends what the thread emits, while the chat has its reader.  A cancelled
\* thread emits its end only.  Without room the reader is gone and the thread goes on.
Emit(i, k, pc) ==
  IF srv.chat # i \/ (i \in stop /\ k \notin {"end", "gone"})
    THEN Goes(i, pc) /\ UNCHANGED <<hist, kept, stop, srv>>
    ELSE \/ HasRoom /\ Stored(k, i) /\ Goes(i, pc) /\ UNCHANGED <<stop, srv>>
         \/ /\ ~HasRoom /\ Goes(i, IF k = "end" THEN "over" ELSE pc)
            /\ stop' = ChatStopped(srv) /\ srv' = [Overflow(srv) EXCEPT !.chat = NoInput]
            /\ UNCHANGED <<hist, kept>>

ToolEvent(i) ==
  /\ ChatAt(i, "run") /\ Emit(i, "event", "after")
  /\ UNCHANGED <<low, inp, apr, chatRan, wire, cli, missed, erased, count>>

\* request_desktop_tool: the waiter is bound to the connection, the call is stored and sent
\* directly; the pump will send it once more.
DesktopCall(i) ==
  /\ ChatAt(i, "run")
  /\ IF srv.ws = 0 \/ ~HasRoom
       THEN Goes(i, "after") /\ UNCHANGED <<hist, kept, srv, wire>>
       ELSE /\ Stored("call", i) /\ Goes(i, "desk")
            /\ srv' = [srv EXCEPT !.desk[i] = srv.ws]
            /\ wire' = IF cli.conn = srv.ws THEN Append(wire, Newest + 1) ELSE wire
  /\ UNCHANGED <<low, inp, stop, apr, chatRan, cli, missed, erased, count>>

\* tool.result resolves the waiter of its own connection; or sixty seconds pass, or the chat
\* is cancelled, or the connection was replaced or lost.
DesktopAnswered(i) ==
  /\ ChatAt(i, "desk")
  /\ \/ srv.desk[i] = 0
     \/ i \in stop
     \/ Connected /\ srv.desk[i] = srv.ws /\ \E s \in 1..cli.at : hist[s].k = "call" /\ hist[s].i = i
  /\ Goes(i, "after") /\ srv' = [srv EXCEPT !.desk[i] = 0]
  /\ UNCHANGED <<hist, kept, low, inp, stop, apr, chatRan, wire, cli, missed, erased, count>>
DesktopExpires(i) ==
  /\ ChatAt(i, "desk") /\ Goes(i, "after") /\ srv' = [srv EXCEPT !.desk[i] = 0]
  /\ UNCHANGED <<hist, kept, low, inp, stop, apr, chatRan, wire, cli, missed, erased, count>>

\* execute_tool without a grant: ApprovalStore.request, then wait_approval.
AskApproval(i) ==
  /\ ChatAt(i, "run") /\ Emit(i, "ask", "wait") /\ apr' = [apr EXCEPT ![i] = "pending"]
  /\ UNCHANGED <<low, inp, chatRan, wire, cli, missed, erased, count>>

\* approval.decide, while the row is pending, and the result sent back; and the row's expiry.
DecideChat(i) ==
  /\ Connected /\ ChatAt(i, "wait") /\ apr[i] = "pending"
  /\ \E d \in {"approved", "denied"} : apr' = [apr EXCEPT ![i] = d]
  /\ Noted
  /\ UNCHANGED <<low, inp, thr, chatRan, wire, cli, missed, erased, count>>
ApprovalEnds(i) ==
  /\ thr[i] \in {"wait", "granted"} /\ apr[i] \in {"pending", "approved"} /\ apr' = [apr EXCEPT ![i] = "expired"]
  /\ UNCHANGED <<hist, kept, low, inp, thr, stop, chatRan, srv, wire, cli, missed, erased, count>>

\* One round of wait_approval: a cancellation comes before the decision.
WaitCancelled(i) ==
  /\ ChatAt(i, "wait") /\ (i \in stop \/ apr[i] = "expired")
  /\ apr' = [apr EXCEPT ![i] = IF @ \in {"pending", "approved"} THEN "cancelled" ELSE @]
  /\ Emit(i, "gone", "after")
  /\ UNCHANGED <<low, inp, chatRan, wire, cli, missed, erased, count>>
WaitDecided(i) ==
  /\ ChatAt(i, "wait") /\ i \notin stop
  /\ \/ apr[i] = "approved" /\ Goes(i, "granted")
     \/ apr[i] = "denied" /\ Goes(i, "after")
  /\ UNCHANGED <<hist, kept, low, inp, stop, apr, chatRan, srv, wire, cli, missed, erased, count>>

\* Mutant of Usable: the row is read, not taken.
UsableLate(i) == apr[i] # "denied"

Usable(i) == apr[i] = "approved"

\* execute_tool goes on: the cancellation is checked again and the grant used up.
UseGrant(i) ==
  /\ ChatAt(i, "granted") /\ Goes(i, "after")
  /\ IF i \notin stop /\ Usable(i)
       THEN apr' = [apr EXCEPT ![i] = "consumed"] /\ chatRan' = [chatRan EXCEPT ![i].effect = @ + 1]
       ELSE UNCHANGED <<apr, chatRan>>
  /\ UNCHANGED <<hist, kept, low, inp, stop, srv, wire, cli, missed, erased, count>>

\* The thread's last event, and the reader's record of how the input ended.
ChatEnd(i) ==
  /\ thr[i] \in {"run", "after"} /\ Emit(i, "end", IF srv.chat = i THEN "told" ELSE "over")
  /\ UNCHANGED <<low, inp, apr, chatRan, wire, cli, missed, erased, count>>
FinishInput(i) ==
  /\ ChatAt(i, "told") /\ Goes(i, "over")
  /\ inp' = [inp EXCEPT ![i] = IF i \in stop THEN "interrupted" ELSE "completed"]
  /\ srv' = [srv EXCEPT !.chat = NoInput]
  /\ UNCHANGED <<hist, kept, low, stop, apr, chatRan, wire, cli, missed, erased, count>>

\* chat.interrupt
Interrupt ==
  /\ Mishap /\ Connected /\ srv.chat # NoInput /\ stop' = ChatStopped(srv) /\ stop' # stop
  /\ UNCHANGED <<hist, kept, low, inp, thr, apr, chatRan, srv, wire, cli, missed, erased>>

\* Mutant of Resumable: the floor is not compared.
ResumableAny(seq) == seq <= Newest

\* Only a cursor inside what is still stored can be resumed.
Resumable(seq) == low <= seq /\ seq <= Newest

\* Mutant of AckedUpTo: the floor stays where it was.
AckedNoFloor(seq) == kept' = {s \in kept : s > seq} /\ UNCHANGED low

\* EventStore.ack
AckedUpTo(seq) == kept' = {s \in kept : s > seq} /\ low' = Max({low, seq})

\* hello: the old connection is closed, its desktop waiters fail, the cursor is compared and
\* acknowledged.  A client that cannot resume takes the server's seq as its cursor.
Hello ==
  /\ cli.conn = 0 /\ count.conns < MaxConns
  /\ LET c == count.conns + 1 IN
     /\ count' = [count EXCEPT !.conns = c]
     /\ srv' = [srv EXCEPT !.ws = c, !.ready = FALSE, !.desk = [i \in Inputs |-> 0],
                           !.from = IF Resumable(cli.at) THEN cli.at ELSE Newest]
     /\ cli' = [at |-> IF Resumable(cli.at) THEN cli.at ELSE Newest, conn |-> c]
  /\ IF Resumable(cli.at) THEN AckedUpTo(cli.at) /\ UNCHANGED missed
     ELSE missed' = {} /\ UNCHANGED <<kept, low>>
  /\ wire' = <<>>
  /\ UNCHANGED <<hist, inp, thr, stop, apr, chatRan, erased>>

\* The rows of EventStore.events come by their seq.
BySeq(seqs) == CHOOSE q \in [1..Cardinality(seqs) -> seqs] : \A m, n \in DOMAIN q : m < n => q[m] < q[n]

\* After the welcome, what the client has not seen; then the pump takes over.
Replay ==
  /\ srv.ws # 0 /\ ~srv.ready
  /\ LET due == {s \in kept : s > srv.from} IN
     /\ wire' = IF cli.conn = srv.ws THEN wire \o BySeq(due) ELSE wire
     /\ srv' = [srv EXCEPT !.ready = TRUE, !.sent = Max(due \cup {srv.from})]
  /\ UNCHANGED <<hist, kept, low, inp, thr, stop, apr, chatRan, cli, missed, erased, count>>

\* Mutant of NotSent: everything up to the newest counts as sent.
NotSentNewest == {s \in kept : s > srv.sent /\ s = Newest}

NotSent == {s \in kept : s > srv.sent}

\* One message of Session.flush.
Flush ==
  /\ srv.ws # 0 /\ srv.ready /\ NotSent # {}
  /\ srv' = [srv EXCEPT !.sent = Min(NotSent)]
  /\ wire' = IF cli.conn = srv.ws THEN Append(wire, Min(NotSent)) ELSE wire
  /\ UNCHANGED <<hist, kept, low, inp, thr, stop, apr, chatRan, cli, missed, erased, count>>

\* The client takes the next message in order; what it has, and what is ahead, it drops.
Receive ==
  /\ wire # <<>> /\ wire' = Tail(wire)
  /\ cli' = [cli EXCEPT !.at = IF Head(wire) = @ + 1 THEN @ + 1 ELSE @]
  /\ UNCHANGED <<hist, kept, low, inp, thr, stop, apr, chatRan, srv, missed, erased, count>>

\* ack
AckHistory ==
  /\ Connected /\ kept \cap 1..cli.at # {} /\ AckedUpTo(cli.at)
  /\ UNCHANGED <<hist, inp, thr, stop, apr, chatRan, srv, wire, cli, missed, erased, count>>

\* The connection breaks: the client knows at once, the server when it sends or waits; the
\* desktop waiters end with the latter, and stay until they expire with the former.
ClientLeaves ==
  /\ cli.conn # 0 /\ cli' = [cli EXCEPT !.conn = 0] /\ wire' = <<>>
  /\ UNCHANGED <<hist, kept, low, inp, thr, stop, apr, chatRan, srv, missed, erased, count>>
ServerNotices ==
  /\ srv.ws # 0 /\ cli.conn # srv.ws
  /\ \E desk \in {srv.desk, [i \in Inputs |-> 0]} : srv' = [srv EXCEPT !.ws = 0, !.desk = desk]
  /\ stop' = ChatStopped(srv)
  /\ UNCHANGED <<hist, kept, low, inp, thr, apr, chatRan, wire, cli, missed, erased, count>>
\* A connection the server closed for overflow.
ClientNotices ==
  /\ cli.conn # 0 /\ cli.conn # srv.ws /\ cli' = [cli EXCEPT !.conn = 0] /\ wire' = <<>>
  /\ UNCHANGED <<hist, kept, low, inp, thr, stop, apr, chatRan, srv, missed, erased, count>>

\* Hub.get drops an idle Session for another conversation's.
Evict ==
  /\ Mishap /\ srv.ws = 0 /\ srv.chat = NoInput /\ srv # NoSession /\ srv' = NoSession
  /\ UNCHANGED <<hist, kept, low, inp, thr, stop, apr, chatRan, wire, cli, missed, erased>>

\* EventStore.cleanup: the day of the oldest events is over.
Forget ==
  /\ Mishap /\ srv.ws = 0 /\ cli.conn = 0
  /\ \E s \in kept : /\ kept' = {t \in kept : t > s} /\ low' = Max({low, s})
                     /\ missed' = missed \cup {t \in kept : t <= s /\ t > cli.at}
  /\ UNCHANGED <<hist, inp, thr, stop, apr, chatRan, srv, wire, cli, erased>>

\* finalize calls erase_owner once no task of the conversation runs.
Erase ==
  /\ ~erased /\ srv.chat = NoInput /\ \A i \in Inputs : thr[i] \in {"none", "over", "dead"}
  /\ erased' = TRUE /\ kept' = {} /\ low' = Newest
  /\ inp' = [i \in Inputs |-> IF Known(i) THEN "deleted" ELSE inp[i]]
  /\ missed' = missed \cup {s \in kept : s > cli.at}
  /\ UNCHANGED <<hist, thr, stop, apr, chatRan, srv, wire, cli, count>>

ServerCrash ==
  /\ Mishap
  /\ srv' = NoSession /\ wire' = <<>> /\ stop' = {} /\ cli' = [cli EXCEPT !.conn = 0]
  /\ thr' = [i \in Inputs |-> IF thr[i] = "none" THEN "none" ELSE "dead"]
  /\ UNCHANGED <<hist, kept, low, inp, apr, chatRan, missed, erased>>

ChatStep(i) ==
  \/ ToolEvent(i) \/ DesktopCall(i) \/ AskApproval(i) \/ WaitCancelled(i) \/ WaitDecided(i) \/ UseGrant(i)
  \/ DesktopAnswered(i) \/ DesktopExpires(i) \/ ChatEnd(i) \/ FinishInput(i)
Delivery == Replay \/ Flush \/ Receive
Leaves == ClientLeaves \/ Forget \/ Erase \/ ServerCrash \/ Evict \/ Interrupt

CompNext ==
  \/ \E i \in Inputs : ChatSend(i) \/ ChatStep(i) \/ DecideChat(i) \/ ApprovalEnds(i)
  \/ Delivery \/ AckHistory \/ Hello \/ ServerNotices \/ ClientNotices \/ Leaves

CompSpec == CompInit /\ [][CompNext]_compVars

\* Every session row, thread and event has a form the code knows.
CompTypeOK ==
  /\ kept \subseteq 1..Newest /\ low \in 0..Newest /\ cli.at \in 0..Newest /\ cli.conn \in 0..MaxConns
  /\ inp \in [Inputs -> {"new", "uncertain", "completed", "interrupted", "deleted"}]
  /\ thr \in [Inputs -> ThreadPcs \cup {"none", "told", "over", "dead"}]
  /\ apr \in [Inputs -> {"none", "pending", "approved", "denied", "expired", "cancelled", "consumed"}]
  /\ srv.ws \in 0..MaxConns /\ srv.sent \in 0..Newest /\ srv.chat \in Inputs \cup {NoInput}

\* An input is executed once, however often it is sent and whatever connection, Session or
\* server carries it; the operation it asked approval for is executed once, with a grant
\* that was given and not withdrawn.
InputOnce == \A i \in Inputs : /\ chatRan[i].input <= 1 /\ chatRan[i].effect <= 1
                               /\ chatRan[i].effect = 1 => apr[i] = "consumed"

\* No event is skipped in silence: a connected client that was told its history is whole
\* still finds every event it has not taken in the store.
NothingMissed == cli.conn # 0 /\ ~erased => missed = {} /\ (cli.at + 1)..Newest \subseteq kept

\* A chat comes to its end and the Session is free for the next one, whether or not the
\* client stays, answers or decides.
Chatting == \E i \in Inputs : thr[i] \in ThreadPcs \cup {"told"}
=============================================================================
