--------------------------- MODULE MCCommDelivery ---------------------------
(* Small instances of the delivery ledger. *)
EXTENDS CommDelivery

CONSTANTS x1, x2, keyed, plain, receipt

\* Where there is a second session, the content-keyed reply belongs to it.
MCSessionOf == [d \in Deliveries |-> IF d = plain /\ x2 \in Sessions THEN x2 ELSE x1]

\* The loop of the Telegram polling worker has no adapter for the platform of plain, or of
\* the receipt; the threads have all.
LoopWithout(d) == [s \in Loops \cup Threads |-> IF s \in Loops THEN Deliveries \ {d} ELSE Deliveries]
PollingAdapters == LoopWithout(plain)
ReceiptAdapters == LoopWithout(receipt)
=============================================================================
