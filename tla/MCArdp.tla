------------------------------- MODULE MCArdp -------------------------------
(* Small instances of Ardp: A sends to B, its sequence numbers wrap early.  *)
EXTENDS Ardp

MCIss == [n \in Node |-> IF n = "A" THEN SeqSpace - 2 ELSE 5]

MsgOf(fcnt, ttl) == [fcnt |-> fcnt, ttl |-> ttl]
SentByA(msgs) == [n \in Node |-> IF n = "A" THEN msgs ELSE <<>>]
DataTT == SentByA(<<MsgOf(2, "ttl"), MsgOf(1, "inf")>>)
OneMsg == SentByA(<<MsgOf(1, "inf")>>)
SixFragments == SentByA(<<MsgOf(6, "inf")>>)

Net13 == [n \in Node |-> IF n = "A" THEN 1 ELSE 3]
Net11 == [n \in Node |-> 1]

Lossy == [n \in Node |-> {"sent", "lost"}]
\* Data and acknowledgements may be lost, and the socket of A may block.
LossyBlocking == [n \in Node |-> {"sent", "lost"} \cup (IF n = "A" THEN {"block"} ELSE {})]
=============================================================================
