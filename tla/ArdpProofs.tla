----------------------------- MODULE ArdpProofs -----------------------------
(***************************************************************************)
(* The rest of the proof that ArdpInv is an invariant of Ardp, and what    *)
(* follows from it: types, the agreement of the two ends, the buffers      *)
(* behind what the application holds, the EACK mask, the silence after a   *)
(* disconnect, and that each direction of a connection is a MessageStream. *)
(*                                                                         *)
(* The theorems about Spec assume Setting: the two ends number their data  *)
(* so that no number is used twice (Fits), messages have no time to live   *)
(* (Reliable), the socket does not fail (NoSocketErrors) and a node makes  *)
(* one connection record (MaxRecords = 1).  Losses, duplicates, reordered  *)
(* segments, timeouts and either side closing at any time are all allowed. *)
(***************************************************************************)
EXTENDS ArdpSendProofs

USE SeqSpaceAssumption, SegMaxAssumption, WordBitsAssumption

\* Nothing but what ConnectCb told the upper layer differs.
ToldTo(n, s, t) ==
  StepT(n, t) /\ t.c = s.c /\ SameApp(s.a, t.a) /\ t.out = s.out /\ t.o = s.o /\ t.ok = s.ok

\* ConnectCb is recorded.
LEMMA ConnectCbIs ==
  ASSUME NEW n \in Node, NEW s, StepT(n, s), NEW status \in Statuses
  PROVE  ToldTo(n, s, ConnectCb(s, status))
<1>1. Shape(s) /\ AppT(n, s.a)
  BY DEF StepT
<1>2. PICK cbs \in Seq(Statuses) : cbs = Append(s.a.connectCb, status)
  <2>1. s.a.connectCb \in Seq(Statuses)
    BY <1>1 DEF AppT
  <2> QED
    BY <2>1, AppendProperties
<1>3. PICK t : t = ConnectCb(s, status)
  OBVIOUS
<1>4. t = [s EXCEPT !.a.connectCb = cbs]
  BY <1>2, <1>3 DEF ConnectCb
<1>5. /\ Shape(t) /\ t.c = s.c /\ t.a = [s.a EXCEPT !.connectCb = cbs] /\ t.jam = s.jam /\ t.out = s.out
      /\ t.o = s.o /\ t.ok = s.ok /\ t.broken = s.broken
  BY <1>4, <1>1 DEF Shape
<1>6. AppT(n, t.a) /\ SameApp(s.a, t.a)
  BY <1>1, <1>2, <1>5 DEF AppT, SameApp
<1>7. StepT(n, t)
  BY <1>1, <1>5, <1>6 DEF StepT
<1> QED
  BY <1>3, <1>5, <1>6, <1>7 DEF ToldTo

\* ConnectCb disturbs nothing.
LEMMA ConnectCbStep ==
  ASSUME Fits, NEW n \in Node, NEW s, NEW r, NEW b, Good(n, s, r, b), NEW status \in Statuses
  PROVE  Stepped(n, s, ConnectCb(s, status), r, b)
<1>1. PICK t : t = ConnectCb(s, status)
  OBVIOUS
<1>2. ToldTo(n, s, t)
  BY <1>1, ConnectCbIs DEF Good
<1>3. Core(s.c, t.c)
  BY <1>2 DEF Core, ToldTo
<1>4. Stepped(n, s, t, r, b)
  BY <1>2, <1>3, QuietStep DEF ToldTo
<1> QED
  BY <1>1, <1>4

\* The connection d that c becomes when it does not open.
GaveUp(c, d) ==
  /\ d.state = "CLOSED" /\ d.conTimer = "off"
  /\ d.passive = c.passive /\ d.local = c.local /\ d.foreign = c.foreign
  /\ d.NXT = c.NXT /\ d.UNA = c.UNA /\ d.LCS = c.LCS /\ d.pending = c.pending
  /\ d.sbuf = c.sbuf
  /\ d.CUR = c.CUR /\ d.rLCS = c.rLCS /\ d.rbuf = c.rbuf /\ d.eack = c.eack
  /\ d.reason = c.reason

\* A connection that does not open.
LEMMA GaveUpStep ==
  ASSUME Fits, NEW n \in Node, NEW s, NEW t, NEW r, NEW b, Good(n, s, r, b), HalfOpen(s.c),
         StepT(n, t), GaveUp(s.c, t.c), SameApp(s.a, t.a),
         \A g \in t.out : g \in s.out \/ IsRst(g)
  PROVE  Stepped(n, s, t, r, b)
<1>1. /\ s.a.submitted = 0 /\ s.a.rcvd = <<>> /\ s.a.consumed = 0 /\ s.a.held = <<>>
      /\ s.c.LCS = Iss[n] /\ s.c.NXT = SeqAt(n, 1) /\ ~Est(n, s.c) /\ s.c.eack = NoEack
      /\ s.c.reason = "none" /\ SndAt(n, s.c, s.a, b.consumed, 1)
  BY HalfOpenIs
<1>2. /\ Ctl(n, s.c, s.a) /\ s.c \in Conn /\ t.c \in Conn /\ AppT(n, s.a) /\ AppT(n, t.a)
      /\ AppOK(n, s.a, b) /\ PeerT(n, r, b) /\ RcvOK(n, s.c, s.a, b.submitted)
      /\ (Knows(Peer(n), r) => Pos(n, s.c.UNA) <= Pos(n, r.CUR) + 1)
  BY DEF Good, ConnOK, StepT
<1>3. ~Est(n, t.c)
  BY <1>1 DEF Est, GaveUp
<1>4. Ctl(n, t.c, s.a)
  <2>1. t.c.state = "CLOSED" /\ t.c.conTimer = "off" /\ t.c.passive = s.c.passive /\ t.c.local = s.c.local
        /\ t.c.foreign = s.c.foreign /\ t.c.CUR = s.c.CUR /\ t.c.rLCS = s.c.rLCS /\ t.c.reason = "none"
    BY <1>1 DEF GaveUp
  <2>2. s.a.disconnectCb = <<>> /\ s.c.local = 1 /\ s.c.passive = (n = "B")
        /\ (n = "A" => s.c.foreign = 0) /\ (n = "B" => s.c.foreign = 1 /\ s.c.CUR = Iss["A"] /\ s.c.rLCS = Iss["A"])
    BY <1>1, <1>2 DEF Ctl
  <2> QED
    BY <2>1, <2>2, <1>1, <1>3 DEF Ctl, Closed
<1>5. SndOK(n, t.c, s.a, b.consumed)
  <2>2. t.c.sbuf = s.c.sbuf /\ t.c.pending = s.c.pending /\ t.c.NXT = s.c.NXT /\ t.c.LCS = s.c.LCS
        /\ t.c.UNA = s.c.UNA /\ t.c.state # "OPEN"
    BY DEF GaveUp
  <2>3. RingHolds(n, t.c, First(n, 1) .. EndOf(n, s.a) - 1)
    BY <2>2, <1>1, RingSame DEF SndAt
  <2>5. SndNumbers(n, t.c, s.a, b.consumed, 1, EndOf(n, s.a))
    BY <2>2, <1>1 DEF SndAt, SndNumbers
  <2>6. SndAt(n, t.c, s.a, b.consumed, 1)
    BY <2>3, <2>5, <1>1 DEF SndAt
  <2>7. 1 \in 1 .. s.a.submitted + 1
    BY <1>1
  <2> QED
    BY <2>6, <2>7 DEF SndOK
<1>6. RcvOK(n, t.c, s.a, b.submitted)
  <2>1. t.c.rbuf = s.c.rbuf /\ t.c.CUR = s.c.CUR /\ t.c.rLCS = s.c.rLCS /\ t.c.state # "OPEN" /\ t.c.UNA = s.c.UNA
    BY DEF GaveUp
  <2> QED
    BY <2>1, <1>2 DEF RcvOK, RcvHeld, Est
<1>7. ConnOK(n, t.c, s.a, r, b)
  <2>1. t.c.UNA = s.c.UNA
    BY DEF GaveUp
  <2> QED
    BY <2>1, <1>2, <1>4, <1>5, <1>6 DEF ConnOK
<1>8. AppOK(n, t.a, b) /\ ConnOK(n, t.c, t.a, r, b)
  BY <1>2, <1>7, SameAppOK
<1>9. ASSUME NEW g \in t.out PROVE SegOK(n, g, t.c, t.a, r, b)
  <2>1. CASE IsRst(g)
    BY <2>1 DEF SegOK
  <2>2. CASE g \in s.out
    <3>1. SegOK(n, g, s.c, s.a, r, b)
      BY <2>2 DEF Good
    <3>2. t.c.CUR = s.c.CUR /\ t.a.submitted = s.a.submitted /\ t.a.consumed = s.a.consumed
      BY DEF GaveUp, SameApp
    <3> QED
      BY <3>1, <3>2, <1>2, SegSame
  <2> QED
    BY <2>1, <2>2, <1>9
<1>10. Good(n, t, r, b)
  BY <1>2, <1>8, <1>9 DEF Good
<1>11. Moves(n, s.c, s.a, t.c, t.a, b.consumed)
  <2>1. t.a.rcvd = <<>> /\ t.a.submitted = s.a.submitted /\ t.a.consumed = s.a.consumed /\ t.a.sendCb = s.a.sendCb
        /\ t.a.disconnectCb = s.a.disconnectCb
    BY <1>1 DEF SameApp
  <2>2. Len(s.a.rcvd) <= Len(t.a.rcvd)
    BY <2>1, <1>1
  <2>3. Pos(Peer(n), s.c.CUR) <= Pos(Peer(n), t.c.CUR)
    <3>1. t.c.CUR = s.c.CUR /\ s.c.CUR \in Seqs
      BY <1>2 DEF GaveUp, Conn
    <3>2. PICK p \in Node : p = Peer(n)
      BY PeerNode
    <3>3. PICK x \in Nat : x = Pos(p, s.c.CUR)
      BY <3>1, PosOf
    <3> QED
      BY <3>1, <3>2, <3>3
  <2>4. CbMoves(n, s.a, t.a, b.consumed)
    BY <2>1 DEF CbMoves
  <2> QED
    BY <2>1, <2>2, <2>3, <2>4, <1>1 DEF Moves
<1> QED
  BY <1>10, <1>11 DEF Stepped

\* The connection record that Open leaves.
OpenConn(c, una, cur, ring) ==
  [c EXCEPT !.state = "OPEN", !.UNA = una, !.rLCS = cur, !.rbuf = ring,
            !.conTimer = "off", !.retry = 0, !.ackTimer = FALSE,
            !.persist = 0, !.probe = KeepaliveRetries]

OpenFields(c, d, una, cur, ring) ==
  /\ d.state = "OPEN" /\ d.passive = c.passive /\ d.local = c.local /\ d.foreign = c.foreign
  /\ d.NXT = c.NXT /\ d.UNA = una /\ d.LCS = c.LCS /\ d.pending = c.pending
  /\ d.sbuf = c.sbuf /\ d.eack = c.eack /\ d.conTimer = "off" /\ d.reason = c.reason
  /\ d.CUR = c.CUR /\ d.rLCS = cur /\ d.rbuf = ring

\* It is a connection record.
LEMMA OpenRecord ==
  ASSUME NEW c \in Conn, NEW una \in Seqs, NEW cur \in Seqs,
         NEW ring \in [Ring -> RcvBuf], NEW d, d = OpenConn(c, una, cur, ring)
  PROVE  d \in Conn /\ OpenFields(c, d, una, cur, ring)
<1>1. 0 \in 0 .. ConnectRetries + 1 /\ 0 \in 0 .. PersistRetries /\ KeepaliveRetries \in 0 .. KeepaliveRetries
      /\ "OPEN" \in States
  BY ConfigAssumption DEF States
<1>2. d \in Conn
  BY <1>1 DEF Conn, OpenConn
<1>3. OpenFields(c, d, una, cur, ring)
  BY DEF Conn, OpenConn, OpenFields
<1> QED
  BY <1>2, <1>3

\* The ring that PostInitRcv leaves.
LEMMA FreeRing ==
  ASSUME NEW cur \in Seqs
  PROVE  /\ [i \in Ring |-> FreeRcvBuf(cur)] \in [Ring -> RcvBuf]
         /\ FreeRcvBuf(cur).inUse = FALSE /\ FreeRcvBuf(cur).delivered = FALSE /\ FreeRcvBuf(cur).ttl = "inf"
<1>1. FreeRcvBuf(cur) \in RcvBuf
  BY DEF FreeRcvBuf, RcvBuf, Seqs, Ttl, Data
<1>2. FreeRcvBuf(cur).inUse = FALSE /\ FreeRcvBuf(cur).delivered = FALSE /\ FreeRcvBuf(cur).ttl = "inf"
  BY DEF FreeRcvBuf
<1> QED
  BY <1>1, <1>2

\* The connection of s knows the number and the port of its peer.
Introduced(n, s) == s.c.foreign = 1 /\ s.c.CUR = Iss[Peer(n)]

\* Nothing but what a SYN says, and whether the connection is open, differs.
OpensTo(n, s, t) ==
  StepT(n, t) /\ Opened(n, s.c, t.c) /\ t.a = s.a /\ t.out = s.out /\ t.o = s.o /\ t.ok = s.ok

\* Open, of a connection of which the peer's initial number is known.
LEMMA OpenIs ==
  ASSUME NEW n \in Node, NEW s, StepT(n, s), Introduced(n, s)
  PROVE  OpensTo(n, s, Open(s))
<1>1. Shape(s) /\ s.c \in Conn
  BY DEF StepT
<1>2. PICK una \in Seqs : una = Plus(s.c.LCS, 1)
  <2>1. s.c.LCS \in Seqs
    BY <1>1 DEF Conn
  <2> QED
    BY <2>1 DEF Plus, Seqs
<1>3. PICK cur \in Seqs : cur = s.c.CUR
  BY <1>1 DEF Conn
<1>r. PICK ring \in [Ring -> RcvBuf] : ring = [i \in Ring |-> FreeRcvBuf(cur)]
  BY FreeRing
<1>c. PICK c \in Conn : c = s.c
  BY <1>1
<1>4. PICK d : d = OpenConn(c, una, cur, ring)
  OBVIOUS
<1>d. d \in Conn /\ OpenFields(c, d, una, cur, ring)
  BY <1>4, OpenRecord
<1>t. PICK t : t = Open(s)
  OBVIOUS
<1>6. /\ Shape(t) /\ t.c = d /\ t.a = s.a /\ t.jam = s.jam /\ t.out = s.out
      /\ t.o = s.o /\ t.ok = s.ok /\ t.broken = s.broken
  <2>1. t = [s EXCEPT !.c.state = "OPEN", !.c.UNA = una, !.c.rLCS = cur, !.c.rbuf = ring,
              !.c.conTimer = "off", !.c.retry = 0, !.c.ackTimer = FALSE,
              !.c.persist = 0, !.c.probe = KeepaliveRetries]
    BY <1>t, <1>2, <1>3, <1>r, Zenon DEF Open
  <2>2. d = [s.c EXCEPT !.state = "OPEN", !.UNA = una, !.rLCS = cur, !.rbuf = ring,
              !.conTimer = "off", !.retry = 0, !.ackTimer = FALSE,
              !.persist = 0, !.probe = KeepaliveRetries]
    BY <1>4, <1>c, Zenon DEF OpenConn
  <2> QED
    BY <2>1, <2>2, <1>1 DEF Shape
<1>7. StepT(n, t)
  BY <1>d, <1>6 DEF StepT
<1>8. Opened(n, s.c, t.c)
  <2>1. OpenFields(s.c, t.c, una, cur, ring)
    BY <1>d, <1>c, <1>6
  <2>2. FreeRcvBuf(cur).inUse = FALSE /\ FreeRcvBuf(cur).delivered = FALSE /\ FreeRcvBuf(cur).ttl = "inf"
    BY FreeRing
  <2>3. \A i \in Ring : t.c.rbuf[i] = FreeRcvBuf(cur)
    BY <2>1, <1>r DEF OpenFields
  <2>4. \A i \in Ring : ~t.c.rbuf[i].inUse /\ ~t.c.rbuf[i].delivered /\ t.c.rbuf[i].ttl = "inf"
    BY <2>2, <2>3
  <2> QED
    BY <2>1, <2>4, <1>2, <1>3 DEF Opened, OpenFields, Introduced
<1> QED
  BY <1>6, <1>7, <1>8, <1>t DEF OpensTo

\* Nothing but the peer's port, its number and the window differs.
Learned(n, s, t) ==
  /\ StepT(n, t) /\ Introduced(n, t) /\ t.c.rLCS = t.c.CUR
  /\ t.a = s.a /\ t.out = s.out /\ t.o = s.o /\ t.ok = s.ok
  /\ t.c.state = s.c.state /\ t.c.passive = s.c.passive /\ t.c.local = s.c.local
  /\ t.c.NXT = s.c.NXT /\ t.c.UNA = s.c.UNA /\ t.c.LCS = s.c.LCS /\ t.c.pending = s.c.pending
  /\ t.c.sbuf = s.c.sbuf /\ t.c.rbuf = s.c.rbuf /\ t.c.eack = s.c.eack
  /\ t.c.conTimer = s.c.conTimer /\ t.c.reason = s.c.reason

\* UnmarshalSynSegment takes the peer's number and port from its SYN.
LEMMA UnmarshalSynIs ==
  ASSUME Fits, NEW n \in Node, NEW s, StepT(n, s), NEW seg \in Segs, seg.src = 1, seg.seq = Iss[Peer(n)]
  PROVE  Learned(n, s, UnmarshalSyn(s, seg))
<1>1. Shape(s) /\ s.c \in Conn
  BY DEF StepT
<1>2. PICK src \in Nat, seq \in Seqs : src = seg.src /\ seq = seg.seq
  BY DEF Segs
<1>3. SegMax \in Seqs
  BY <1>1, NumbersIn
<1>t. PICK t : t = UnmarshalSyn(s, seg)
  OBVIOUS
<1>4. t = [s EXCEPT !.c.foreign = src, !.c.CUR = seq, !.c.rLCS = seq, !.c.window = SegMax]
  BY <1>t, <1>2, Zenon DEF UnmarshalSyn
<1>5. PICK d : d = [s.c EXCEPT !.foreign = src, !.CUR = seq, !.rLCS = seq, !.window = SegMax]
  OBVIOUS
<1>6. d \in Conn
  BY <1>1, <1>3, <1>5 DEF Conn
<1>7. /\ Shape(t) /\ t.c = d /\ t.a = s.a /\ t.jam = s.jam /\ t.out = s.out
      /\ t.o = s.o /\ t.ok = s.ok /\ t.broken = s.broken
  BY <1>4, <1>5, <1>1 DEF Shape
<1>8. StepT(n, t)
  BY <1>6, <1>7 DEF StepT
<1>9. /\ d.foreign = src /\ d.CUR = seq /\ d.rLCS = seq
      /\ d.state = s.c.state /\ d.passive = s.c.passive /\ d.local = s.c.local
      /\ d.NXT = s.c.NXT /\ d.UNA = s.c.UNA /\ d.LCS = s.c.LCS /\ d.pending = s.c.pending
      /\ d.sbuf = s.c.sbuf /\ d.rbuf = s.c.rbuf /\ d.eack = s.c.eack
      /\ d.conTimer = s.c.conTimer /\ d.reason = s.c.reason
  BY <1>1, <1>5 DEF Conn
<1>10. Introduced(n, t)
  BY <1>2, <1>7, <1>9 DEF Introduced
<1> QED
  BY <1>7, <1>8, <1>9, <1>10, <1>t DEF Learned, Introduced

\* The connection opens, is acknowledged if ack, and the upper layer is told.
Announce(t, ack) == ConnectCb(IF ack THEN SendAck(t) ELSE t, "ok")

\* An open connection is announced.
LEMMA AnnounceStep ==
  ASSUME Fits, NEW n \in Node, NEW s, NEW r, NEW b, Good(n, s, r, b), s.c.state = "OPEN", NEW ack
  PROVE  Stepped(n, s, Announce(s, ack), r, b)
<1>1. PICK t : t = IF ack THEN SendAck(s) ELSE s
  OBVIOUS
<1>2. Est(n, s.c)
  BY OpenKnows
<1>3. Stepped(n, s, SendAck(s), r, b) /\ Stepped(n, s, s, r, b)
  BY <1>2, SendAckStep, SteppedSame
<1>4. Stepped(n, s, t, r, b)
  BY <1>1, <1>3
<1>5. Good(n, t, r, b)
  BY <1>4 DEF Stepped
<1>6. PICK status \in Statuses : status = "ok"
  BY DEF Statuses, Reasons
<1>7. Stepped(n, t, ConnectCb(t, status), r, b)
  BY <1>5, ConnectCbStep
<1>8. Stepped(n, s, ConnectCb(t, status), r, b)
  BY <1>4, <1>7, SteppedTrans
<1>9. Announce(s, ack) = ConnectCb(t, status)
  BY <1>1, <1>6 DEF Announce
<1> QED
  BY <1>8, <1>9

\* A half open connection opens, and is announced.
LEMMA OpenAnnounced ==
  ASSUME Fits, NEW n \in Node, NEW s, NEW r, NEW b, Good(n, s, r, b), HalfOpen(s.c), s.out = {},
         NEW t, OpensTo(n, s, t), NEW ack
  PROVE  Stepped(n, s, Announce(t, ack), r, b) /\ Est(n, Announce(t, ack).c)
<1>1. Stepped(n, s, t, r, b)
  BY OpenedStep DEF OpensTo
<1>2. Good(n, t, r, b) /\ t.c.state = "OPEN"
  BY <1>1 DEF Stepped, OpensTo, Opened
<1>3. Stepped(n, t, Announce(t, ack), r, b)
  BY <1>2, AnnounceStep
<1>4. Est(n, t.c)
  BY <1>2, OpenKnows
<1>5. Est(n, Announce(t, ack).c)
  BY <1>3, <1>4 DEF Stepped, Moves
<1>6. Stepped(n, s, Announce(t, ack), r, b)
  BY <1>1, <1>3, SteppedTrans
<1> QED
  BY <1>5, <1>6

\* A connection in SYN_SENT is that of A.
LEMMA StateIs ==
  ASSUME NEW n \in Node, NEW s, NEW r, NEW b, Good(n, s, r, b)
  PROVE  /\ s.c.state = "SYN_SENT" => n = "A"
         /\ s.c.state = "SYN_RCVD" => n = "B"
         /\ s.c.state \in {"SYN_SENT", "SYN_RCVD", "OPEN"} \/ Closed(s.c)
         /\ s.c.state = "SYN_RCVD" => s.c.foreign = 1 /\ s.c.CUR = Iss["A"] /\ s.c.rLCS = Iss["A"]
<1>1. Ctl(n, s.c, s.a)
  BY DEF Good, ConnOK
<1> QED
  BY <1>1 DEF Ctl, Node, Closed

\* A step that sends nothing and does not open the connection.
Unsent(n, s, t, r, b) == Stepped(n, s, t, r, b) /\ t.out = s.out /\ t.c.UNA = s.c.UNA

\* What the machine of a half open connection does with seg: an RST is not
\* answered, and the right answer to its SYN opens the connection of A.
Replied(n, s, t, seg) ==
  /\ "RST" \in seg.flg => t.out = s.out /\ t.c.UNA = s.c.UNA
  /\ n = "A" /\ "RST" \notin seg.flg /\ {"SYN", "ACK"} \subseteq seg.flg => Est(n, t.c)

\* The connection that a SYN_SENT machine gives up.
LEMMA FailStep ==
  ASSUME Fits, NEW n \in Node, NEW s, NEW r, NEW b, Good(n, s, r, b), HalfOpen(s.c), NEW status \in Statuses,
         NEW t, t = [s EXCEPT !.c.state = "CLOSED", !.c.conTimer = "off", !.c.retry = 0]
  PROVE  Unsent(n, s, ConnectCb(t, status), r, b)
<1>1. Shape(s) /\ s.c \in Conn /\ StepT(n, s)
  BY DEF Good, StepT
<1>2. PICK d : d = [s.c EXCEPT !.state = "CLOSED", !.conTimer = "off", !.retry = 0]
  OBVIOUS
<1>3. d \in Conn
  <2>1. "CLOSED" \in States /\ 0 \in 0 .. ConnectRetries + 1
    BY ConfigAssumption DEF States
  <2> QED
    BY <2>1, <1>1, <1>2 DEF Conn
<1>4. GaveUp(s.c, d)
  BY <1>1, <1>2 DEF GaveUp, Conn
<1>5. /\ Shape(t) /\ t.c = d /\ t.a = s.a /\ t.jam = s.jam /\ t.out = s.out
      /\ t.o = s.o /\ t.ok = s.ok /\ t.broken = s.broken
  BY <1>2, <1>1 DEF Shape
<1>6. StepT(n, t)
  BY <1>1, <1>3, <1>5 DEF StepT
<1>7. SameApp(s.a, t.a)
  BY <1>5 DEF SameApp
<1>8. \A g \in t.out : g \in s.out \/ IsRst(g)
  BY <1>5
<1>9. GaveUp(s.c, t.c)
  BY <1>4, <1>5
<1>10. Stepped(n, s, t, r, b)
  BY <1>6, <1>7, <1>8, <1>9, GaveUpStep
<1>11. Good(n, t, r, b)
  BY <1>10 DEF Stepped
<1>12. Stepped(n, t, ConnectCb(t, status), r, b)
  BY <1>11, ConnectCbStep
<1>13. Stepped(n, s, ConnectCb(t, status), r, b)
  BY <1>10, <1>12, SteppedTrans
<1>14. ConnectCb(t, status).out = s.out /\ ConnectCb(t, status).c.UNA = s.c.UNA
  <2>1. ToldTo(n, t, ConnectCb(t, status))
    BY <1>6, ConnectCbIs
  <2> QED
    BY <2>1, <1>5, <1>9 DEF ToldTo, GaveUp
<1> QED
  BY <1>13, <1>14 DEF Unsent

\* A segment for a connection that has sent its SYN.
LEMMA MachineSynSentStep ==
  ASSUME Fits, NEW n \in Node, NEW s, NEW r, NEW b, Good(n, s, r, b), s.c.state = "SYN_SENT", s.out = {},
         NEW seg \in Segs, SegOK(Peer(n), seg, r, b, s.c, s.a)
  PROVE  Stepped(n, s, MachineSynSent(s, seg), r, b) /\ Replied(n, s, MachineSynSent(s, seg), seg)
<1>1. StepT(n, s) /\ HalfOpen(s.c) /\ n = "A" /\ Peer(n) = "B" /\ "B" \in Node
  BY StateIs DEF Good, HalfOpen, Peer, Node
<1>2. PICK t : t = MachineSynSent(s, seg)
  OBVIOUS
<1>3. CASE "RST" \in seg.flg
  <2>1. PICK failed : failed = [s EXCEPT !.c.state = "CLOSED", !.c.conTimer = "off", !.c.retry = 0]
    OBVIOUS
  <2>2. PICK status \in Statuses : status = "reset"
    BY DEF Statuses, Reasons
  <2>3. Unsent(n, s, ConnectCb(failed, status), r, b)
    BY <2>1, <1>1, FailStep
  <2>a. seg.flg = {"RST"}
    BY <1>1, <1>3 DEF SegOK, IsRst, IsSyn, IsNormal, Normal
  <2>b. ~({"SYN", "ACK"} \subseteq seg.flg)
    BY <2>a
  <2>4. t = ConnectCb(failed, status)
    BY <2>1, <2>2, <2>b, <1>2, <1>3, Zenon DEF MachineSynSent
  <2> QED
    BY <2>3, <2>4, <1>2, <1>3 DEF Unsent, Replied
<1>4. CASE "RST" \notin seg.flg /\ {"SYN", "ACK"} \subseteq seg.flg
  <2>1. IsSyn("B", seg)
    BY <1>1, <1>4 DEF SegOK, IsRst, IsNormal, Normal
  <2>2. seg.src = 1 /\ seg.seq = Iss[Peer(n)] /\ seg.ack = Iss["A"]
    BY <2>1, <1>1 DEF IsSyn
  <2>3. s.c.LCS = Iss["A"]
    BY <1>1, HalfOpenIs
  <2>4. PICK u : u = UnmarshalSyn(s, seg)
    OBVIOUS
  <2>5. Learned(n, s, u)
    BY <2>2, <2>4, <1>1, UnmarshalSynIs
  <2>6. StepT(n, u) /\ Introduced(n, u)
    BY <2>5 DEF Learned
  <2>7. PICK v : v = Open(u)
    OBVIOUS
  <2>8. OpensTo(n, u, v)
    BY <2>6, <2>7, OpenIs
  <2>9. OpensTo(n, s, v)
    BY <2>5, <2>8 DEF OpensTo, Opened, Learned
  <2>10. PICK ack \in BOOLEAN : ack = TRUE
    OBVIOUS
  <2>11. Stepped(n, s, Announce(v, ack), r, b) /\ Est(n, Announce(v, ack).c)
    BY <2>9, <1>1, OpenAnnounced
  <2>12. s.o # "error"
    BY <1>1 DEF StepT
  <2>13. t = ConnectCb(SendAck(v), "ok")
    BY <2>2, <2>3, <2>4, <2>7, <2>12, <1>2, <1>4, Zenon DEF MachineSynSent
  <2>14. t = Announce(v, ack)
    BY <2>10, <2>13 DEF Announce
  <2> QED
    BY <2>11, <2>14, <1>2, <1>4 DEF Replied
<1>5. CASE "RST" \notin seg.flg /\ ~({"SYN", "ACK"} \subseteq seg.flg)
  <2>1. t = s
    BY <1>2, <1>5 DEF MachineSynSent
  <2> QED
    BY <2>1, <1>2, <1>5, SteppedSame DEF Replied
<1> QED
  BY <1>3, <1>4, <1>5

\* A half open connection ends without a segment when the peer has ended it.
LEMMA ResetStep ==
  ASSUME Fits, NEW n \in Node, NEW s, NEW r, NEW b, Good(n, s, r, b), s.c.state = "SYN_RCVD",
         NEW reason \in Statuses, reason = "reset"
  PROVE  Disconnect(s, reason).out = s.out /\ Disconnect(s, reason).c.UNA = s.c.UNA
<1>1. Shape(s) /\ s.c \in Conn /\ StepT(n, s)
  BY DEF Good, StepT
<1>2. PICK rst : rst = [[s EXCEPT !.c.state = "CLOSE_WAIT"] EXCEPT !.ok = TRUE]
  OBVIOUS
<1>3. s.c.pending = 0
  <2>1. HalfOpen(s.c)
    BY DEF HalfOpen
  <2>2. SndAt(n, s.c, s.a, b.consumed, 1) /\ s.a.submitted = 0
    BY <2>1, HalfOpenIs
  <2>3. First(n, 1) .. EndOf(n, s.a) - 1 = {}
    BY <2>2, IssAt DEF EndOf
  <2>4. RingHolds(n, s.c, {})
    BY <2>2, <2>3 DEF SndAt
  <2>5. InUse(s.c) = {}
    BY <2>4 DEF RingHolds, InUse
  <2> QED
    BY <2>4, <2>5, PendingIs DEF RingHolds
<1>4. ~FlushesNow(s.c, "reset")
  BY <1>3 DEF FlushesNow
<1>5. PICK t : t = Disconnect(s, "reset")
  OBVIOUS
<1>6. t = [rst EXCEPT !.a.disconnectCb = Append(@, "reset"), !.c.conTimer = "disconnect", !.c.reason = "reset"]
  BY <1>2, <1>4, <1>5 DEF Disconnect
<1>7. /\ Shape(rst) /\ rst.c = [s.c EXCEPT !.state = "CLOSE_WAIT"] /\ rst.out = s.out
  BY <1>1, <1>2 DEF Shape
<1>8. t.out = rst.out /\ t.c = [rst.c EXCEPT !.conTimer = "disconnect", !.reason = "reset"]
  BY <1>6, <1>7 DEF Shape
<1>9. rst.c \in Conn /\ rst.c.UNA = s.c.UNA
  BY <1>1, <1>7 DEF Conn, States
<1>10. t.c.UNA = rst.c.UNA
  BY <1>8, <1>9 DEF Conn
<1> QED
  BY <1>5, <1>7, <1>8, <1>9, <1>10

\* A segment for a connection that has answered a SYN.
LEMMA MachineSynRcvdStep ==
  ASSUME Fits, NEW n \in Node, NEW s, NEW r, NEW b, Good(n, s, r, b), s.c.state = "SYN_RCVD", s.out = {},
         NEW seg
  PROVE  Stepped(n, s, MachineSynRcvd(s, seg), r, b) /\ Replied(n, s, MachineSynRcvd(s, seg), seg)
<1>1. StepT(n, s) /\ HalfOpen(s.c) /\ n = "B" /\ Peer(n) = "A" /\ Introduced(n, s)
  BY StateIs DEF Good, HalfOpen, Peer, Introduced
<1>2. PICK t : t = MachineSynRcvd(s, seg)
  OBVIOUS
<1>3. PICK r1 \in Statuses, r2 \in Statuses : r1 = "reset" /\ r2 = "invalid"
  BY DEF Statuses, Reasons
<1>4. Stepped(n, s, Disconnect(s, r1), r, b) /\ Stepped(n, s, Disconnect(s, r2), r, b)
  BY DisconnectGood DEF Stepped
<1>5. Stepped(n, s, SendAck(s), r, b)
  BY <1>1, SendAckStep
<1>6. PICK u : u = Open(s)
  OBVIOUS
<1>7. OpensTo(n, s, u)
  BY <1>1, <1>6, OpenIs
<1>8. \A ack \in BOOLEAN : Stepped(n, s, Announce(u, ack), r, b)
  BY <1>1, <1>7, OpenAnnounced
<1>9. PICK ack \in BOOLEAN : ack <=> "NUL" \in seg.flg
  OBVIOUS
<1>10. \/ t = Disconnect(s, "reset") \/ t = Disconnect(s, "invalid") \/ t = SendAck(s)
       \/ t = ConnectCb(IF "NUL" \in seg.flg THEN SendAck(u) ELSE u, "ok")
  BY <1>2, <1>6, Zenon DEF MachineSynRcvd
<1>11. Announce(u, ack) = ConnectCb(IF "NUL" \in seg.flg THEN SendAck(u) ELSE u, "ok")
  BY <1>9 DEF Announce
<1>12. Stepped(n, s, t, r, b)
  BY <1>2, <1>3, <1>4, <1>5, <1>8, <1>10, <1>11
<1>13. Replied(n, s, t, seg)
  <2>1. CASE "RST" \in seg.flg
    <3>1. t = Disconnect(s, r1)
      BY <2>1, <1>2, <1>3, Zenon DEF MachineSynRcvd
    <3>2. Disconnect(s, r1).out = s.out /\ Disconnect(s, r1).c.UNA = s.c.UNA
      BY <1>3, ResetStep
    <3> QED
      BY <3>1, <3>2, <1>1, <2>1 DEF Replied
  <2>2. CASE "RST" \notin seg.flg
    BY <2>2, <1>1 DEF Replied
  <2> QED
    BY <2>1, <2>2
<1> QED
  BY <1>2, <1>12, <1>13

\* t is s with another retry or probe count.
Recount(s, t, x, y, z) ==
  \/ t = [s EXCEPT !.c.probe = x]
  \/ t = [s EXCEPT !.c.persist = y]
  \/ t = [s EXCEPT !.c.retry = z]

Counted(n, s, t, r, b) ==
  /\ Stepped(n, s, t, r, b)
  /\ t.o = s.o /\ t.ok = s.ok /\ t.out = s.out /\ t.a = s.a /\ t.c.UNA = s.c.UNA
  /\ t.c.state = s.c.state /\ t.c.CUR = s.c.CUR /\ t.c.conTimer = s.c.conTimer

\* A retry or probe count changes.
LEMMA CountStep ==
  ASSUME Fits, NEW n \in Node, NEW s, NEW r, NEW b, Good(n, s, r, b),
         NEW x \in 0 .. KeepaliveRetries, NEW y \in 0 .. PersistRetries, NEW z \in 0 .. ConnectRetries + 1, NEW t,
         Recount(s, t, x, y, z)
  PROVE  Counted(n, s, t, r, b)
<1>1. Shape(s) /\ s.c \in Conn /\ StepT(n, s)
  BY DEF Good, StepT
<1>2. PICK d : \/ d = [s.c EXCEPT !.probe = x] /\ t = [s EXCEPT !.c.probe = x]
               \/ d = [s.c EXCEPT !.persist = y] /\ t = [s EXCEPT !.c.persist = y]
               \/ d = [s.c EXCEPT !.retry = z] /\ t = [s EXCEPT !.c.retry = z]
  BY DEF Recount
<1>3. d \in Conn /\ Core(s.c, d)
  <2>1. CASE d = [s.c EXCEPT !.probe = x]
    BY <2>1, <1>1 DEF Conn, Core
  <2>2. CASE d = [s.c EXCEPT !.persist = y]
    BY <2>2, <1>1 DEF Conn, Core
  <2>3. CASE d = [s.c EXCEPT !.retry = z]
    BY <2>3, <1>1 DEF Conn, Core
  <2> QED
    BY <2>1, <2>2, <2>3, <1>2
<1>4. /\ Shape(t) /\ t.c = d /\ t.a = s.a /\ t.jam = s.jam /\ t.out = s.out
      /\ t.o = s.o /\ t.ok = s.ok /\ t.broken = s.broken
  <2>1. CASE d = [s.c EXCEPT !.probe = x] /\ t = [s EXCEPT !.c.probe = x]
    BY <2>1, <1>1 DEF Shape
  <2>2. CASE d = [s.c EXCEPT !.persist = y] /\ t = [s EXCEPT !.c.persist = y]
    BY <2>2, <1>1 DEF Shape
  <2>3. CASE d = [s.c EXCEPT !.retry = z] /\ t = [s EXCEPT !.c.retry = z]
    BY <2>3, <1>1 DEF Shape
  <2> QED
    BY <2>1, <2>2, <2>3, <1>2
<1>5. StepT(n, t) /\ SameApp(s.a, t.a)
  BY <1>1, <1>3, <1>4 DEF StepT, SameApp
<1>6. Stepped(n, s, t, r, b)
  BY <1>3, <1>4, <1>5, QuietStep
<1> QED
  BY <1>3, <1>4, <1>6 DEF Counted, Core

\* ARDP_Run takes a segment for a connection that is not going away.
LEMMA MachineStep ==
  ASSUME Fits, NEW n \in Node, NEW s, NEW r, NEW b, Good(n, s, r, b), ~Closed(s.c), s.ok, s.out = {},
         NEW seg \in Segs, SegOK(Peer(n), seg, r, b, s.c, s.a), NEW late, NEW ackNow
  PROVE  /\ Stepped(n, s, Machine(s, seg, late, ackNow), r, b)
         /\ HalfOpen(s.c) /\ ~Normal(seg) => Replied(n, s, Machine(s, seg, late, ackNow), seg)
<1>1. PICK x \in 0 .. KeepaliveRetries : x = KeepaliveRetries
  BY ConfigAssumption
<1>2. PICK seen : seen = [s EXCEPT !.c.probe = x]
  OBVIOUS
<1>3. Stepped(n, s, seen, r, b) /\ seen.c.state = s.c.state /\ seen.o = s.o /\ seen.ok = s.ok
      /\ seen.out = s.out /\ seen.c.CUR = s.c.CUR /\ seen.a = s.a /\ seen.c.UNA = s.c.UNA
  <2>1. 0 \in 0 .. PersistRetries /\ 0 \in 0 .. ConnectRetries + 1
    BY ConfigAssumption
  <2>2. PICK y \in 0 .. PersistRetries : y = 0
    BY <2>1
  <2>3. PICK z \in 0 .. ConnectRetries + 1 : z = 0
    BY <2>1
  <2>4. Recount(s, seen, x, y, z)
    BY <1>2 DEF Recount
  <2>5. Counted(n, s, seen, r, b)
    BY <2>4, CountStep
  <2> QED
    BY <2>5 DEF Counted
<1>4. Good(n, seen, r, b)
  BY <1>3 DEF Stepped
<1>5. SegOK(Peer(n), seg, r, b, seen.c, seen.a)
  <2>1. s.c \in Conn /\ seen.c \in Conn
    BY <1>4 DEF Good, StepT
  <2>2. s.c.UNA = seen.c.UNA /\ s.c # NoConn /\ seen.c # NoConn
    <3>1. s.c # NoConn /\ seen.c # NoConn
      BY <2>1 DEF Conn, NoConn
    <3>2. Shape(s)
      BY DEF Good, StepT
    <3>3. seen.c = [s.c EXCEPT !.probe = x]
      BY <3>2, <1>2 DEF Shape
    <3>4. s.c.UNA = seen.c.UNA
      BY <3>3, <2>1 DEF Conn
    <3> QED
      BY <3>1, <3>4
  <2> QED
    BY <2>2, <1>3 DEF SegOK, IsNormal, Knows, Est
<1>6. PICK t : t = Machine(s, seg, late, ackNow)
  OBVIOUS
<1>7. PICK reason \in Statuses : reason = "invalid"
  BY DEF Statuses, Reasons
<1>8. Stepped(n, seen, Disconnect(seen, reason), r, b)
  BY <1>4, DisconnectGood DEF Stepped
<1>9. s.c.state \in {"SYN_SENT", "SYN_RCVD", "OPEN"}
  BY StateIs
<1>10. CASE {"RST", "SYN"} \cap seg.flg = {} /\ ~Valid(s.c, seg)
  <2>1. t = Disconnect(seen, reason)
    BY <1>1, <1>2, <1>6, <1>7, <1>10, Zenon DEF Machine
  <2>2. Normal(seg)
    BY <1>10 DEF Normal
  <2> QED
    BY <2>1, <2>2, <1>3, <1>4, <1>6, <1>8, SteppedTrans
<1>11. CASE ~({"RST", "SYN"} \cap seg.flg = {} /\ ~Valid(s.c, seg)) /\ s.c.state = "SYN_SENT"
  <2>1. s.c.state # "SYN_RCVD" /\ s.c.state # "OPEN"
    BY <1>11
  <2>2. t = MachineSynSent(seen, seg)
    BY <2>1, <1>1, <1>2, <1>6, <1>11, Zenon DEF Machine
  <2>3. Stepped(n, seen, MachineSynSent(seen, seg), r, b) /\ Replied(n, seen, MachineSynSent(seen, seg), seg)
    BY <1>3, <1>4, <1>5, <1>11, MachineSynSentStep
  <2>4. Replied(n, s, t, seg)
    BY <2>2, <2>3, <1>3 DEF Replied
  <2>5. Stepped(n, s, t, r, b)
    BY <2>2, <2>3, <1>3, <1>4, SteppedTrans
  <2> QED
    BY <2>4, <2>5, <1>6
<1>12. CASE ~({"RST", "SYN"} \cap seg.flg = {} /\ ~Valid(s.c, seg)) /\ s.c.state = "SYN_RCVD"
  <2>1. s.c.state # "SYN_SENT" /\ s.c.state # "OPEN"
    BY <1>12
  <2>2. t = MachineSynRcvd(seen, seg)
    BY <2>1, <1>1, <1>2, <1>6, <1>12, Zenon DEF Machine
  <2>3. Stepped(n, seen, MachineSynRcvd(seen, seg), r, b) /\ Replied(n, seen, MachineSynRcvd(seen, seg), seg)
    BY <1>3, <1>4, <1>12, MachineSynRcvdStep
  <2>4. Replied(n, s, t, seg)
    BY <2>2, <2>3, <1>3 DEF Replied
  <2>5. Stepped(n, s, t, r, b)
    BY <2>2, <2>3, <1>3, <1>4, SteppedTrans
  <2> QED
    BY <2>4, <2>5, <1>6
<1>13. CASE ~({"RST", "SYN"} \cap seg.flg = {} /\ ~Valid(s.c, seg)) /\ s.c.state = "OPEN"
  <2>1. s.c.state # "SYN_SENT" /\ s.c.state # "SYN_RCVD"
    BY <1>13
  <2>2. t = MachineOpen(seen, seg, late, ackNow)
    BY <2>1, <1>1, <1>2, <1>6, <1>13, Zenon DEF Machine
  <2>3. seen.c.state = "OPEN" /\ seen.ok
    BY <1>3, <1>13
  <2>4. Stepped(n, seen, MachineOpen(seen, seg, late, ackNow), r, b)
    BY <2>3, <1>4, <1>5, MachineOpenStep
  <2>5. Stepped(n, s, t, r, b)
    BY <2>2, <2>4, <1>3, <1>4, SteppedTrans
  <2>6. ~HalfOpen(s.c)
    BY <1>13 DEF HalfOpen
  <2> QED
    BY <2>5, <2>6, <1>6
<1> QED
  BY <1>9, <1>10, <1>11, <1>12, <1>13

-----------------------------------------------------------------------------
\* The SYN of a node.

\* The connection of node n that sends a SYN.
Caller(n, c) ==
  c.local = 1 /\ c.passive = (n = "B") /\ (n = "A" => c.foreign = 0) /\ (n = "B" => c.CUR = Iss["A"])

SynSent(n, s, t) ==
  /\ StepT(n, t) /\ t.c = s.c /\ t.a = s.a /\ t.o = s.o
  /\ \A g \in t.out : g \in s.out \/ IsSyn(n, g)

\* DoSendSyn sends the node's SYN.
LEMMA DoSendSynStep ==
  ASSUME NEW n \in Node, NEW s, StepT(n, s), Caller(n, s.c)
  PROVE  SynSent(n, s, DoSendSyn(s, n))
<1>1. s.c \in Conn
  BY DEF StepT
<1>2. PICK flg \in SUBSET Flags : flg = {"SYN"} \cup (IF s.c.passive THEN {"ACK"} ELSE {})
  <2>1. {"SYN"} \cup (IF s.c.passive THEN {"ACK"} ELSE {}) \in SUBSET Flags
    BY DEF Flags
  <2> QED
    BY <2>1
<1>3. PICK ack \in Seqs : ack = IF s.c.passive THEN s.c.CUR ELSE 0
  BY <1>1 DEF Conn, Seqs
<1>4. PICK g : g = [Segment(s.c, flg, Iss[n], ack) EXCEPT !.lcs = 0, !.acknxt = 0]
  OBVIOUS
<1>5. Iss[n] \in Seqs /\ 0 \in Seqs
  BY IssAssumption DEF Seqs
<1>6. PICK iss \in Seqs : iss = Iss[n]
  BY <1>5
<1>7. NoEack.mask \in [WordIds -> SUBSET Bits]
  BY <1>1, WireMaskType
<1>8. g = [src |-> s.c.local, dst |-> s.c.foreign, flg |-> flg, seq |-> iss, ack |-> ack,
           lcs |-> 0, acknxt |-> 0, eack |-> NoEack.mask,
           data |-> NoData, som |-> 0, fcnt |-> 0, ttl |-> "inf"]
  BY <1>4, <1>6 DEF Segment
<1>9. s.c.local \in Nat /\ s.c.foreign \in Nat /\ 0 \in 0 .. SegMax /\ "inf" \in Ttl /\ NoData \in Data
  BY <1>1 DEF Conn, Ttl, Data
<1>10. g \in Segs
  BY <1>5, <1>7, <1>8, <1>9 DEF Segs
<1>11. g.flg = flg /\ g.src = s.c.local /\ g.seq = iss /\ g.data = NoData /\ g.dst = s.c.foreign /\ g.ack = ack
  BY <1>8
<1>12. IsSyn(n, g)
  <2>1. CASE n = "A"
    BY <2>1, <1>2, <1>6, <1>11 DEF IsSyn, Caller
  <2>2. CASE n = "B"
    BY <2>2, <1>2, <1>3, <1>6, <1>11 DEF IsSyn, Caller
  <2> QED
    BY <2>1, <2>2 DEF Node
<1>13. PICK t : t = Emit(s, g)
  OBVIOUS
<1>14. /\ StepT(n, t)
       /\ t.c = s.c /\ t.a = s.a /\ t.o = s.o /\ t.broken = s.broken
       /\ t.out \subseteq s.out \cup {g}
  BY <1>10, <1>13, EmitStep
<1>15. t = DoSendSyn(s, n)
  BY <1>2, <1>3, <1>4, <1>13, Zenon DEF DoSendSyn
<1> QED
  BY <1>12, <1>14, <1>15 DEF SynSent

-----------------------------------------------------------------------------
(* A new connection.                                                       *)

\* The connection record of node n of which no more than a SYN is known.
Fresh(n, c) ==
  /\ c \in Conn /\ c.local = 1 /\ c.passive = (n = "B")
  /\ c.state = (IF n = "A" THEN "SYN_SENT" ELSE "SYN_RCVD")
  /\ c.foreign = (IF n = "A" THEN 0 ELSE 1)
  /\ c.NXT = Plus(Iss[n], 1) /\ c.UNA = Iss[n] /\ c.LCS = Iss[n] /\ c.pending = 0
  /\ \A i \in Ring : ~c.sbuf[i].inUse /\ ~c.sbuf[i].timer
  /\ n = "B" => c.CUR = Iss["A"] /\ c.rLCS = Iss["A"]
  /\ c.eack = NoEack /\ c.conTimer \in {"off", "connect"} /\ c.reason = "none"

\* Nothing was sent, received or reported on a connection.
Untouched(n, a, b) ==
  /\ AppT(n, a) /\ AppOK(n, a, b) /\ a.submitted = 0 /\ a.rcvd = <<>> /\ a.disconnectCb = <<>>
  /\ b.consumed = 0

\* A new connection satisfies the invariant.
LEMMA FreshOK ==
  ASSUME Fits, NEW n \in Node, NEW c, NEW a, NEW r, NEW b, Fresh(n, c), Untouched(n, a, b), PeerT(n, r, b)
  PROVE  ConnOK(n, c, a, r, b)
<1>1. PICK p \in Node : p = Peer(n) /\ (n = "B" => p = "A")
  BY DEF Peer, Node
<1>2. c \in Conn /\ ~Est(n, c)
  BY DEF Fresh, Est
<1>3. Ctl(n, c, a)
  <2>1. c.state = IF n = "A" THEN "SYN_SENT" ELSE "SYN_RCVD"
    BY DEF Fresh
  <2>2. c.state \notin {"OPEN", "CLOSE_WAIT", "CLOSED"} /\ c.state \in {"SYN_SENT", "SYN_RCVD"}
        /\ c.state \in IF n = "A" THEN {"SYN_SENT"} ELSE {"SYN_RCVD"}
    BY <2>1
  <2>3. ~Closed(c) /\ c.conTimer # "disconnect"
    BY <2>2 DEF Closed, Fresh
  <2>4. n = "B" => c.foreign = 1
    BY DEF Fresh
  <2> QED
    BY <2>2, <2>3, <2>4, <1>2 DEF Ctl, Fresh, Untouched
<1>4. First(n, 1) = 1 /\ Iss[n] \in Seqs /\ Pos(n, Iss[n]) = 0 /\ SeqAt(n, 1) = Plus(Iss[n], 1)
  BY IssAt
<1>5. SndAt(n, c, a, b.consumed, 1)
  <2>1. EndOf(n, a) = 1
    BY <1>4 DEF EndOf, Untouched
  <2>2. InUse(c) = {}
    BY DEF InUse, Fresh
  <2>3. RingHolds(n, c, 1 .. 0)
    <3>1. Cardinality(InUse(c)) = 0
      BY <2>2, FS_EmptySet
    <3> QED
      BY <3>1 DEF RingHolds, Fresh
  <2>4. SndNumbers(n, c, a, b.consumed, 1, 1)
    <3>1. c.NXT = SeqAt(n, 1) /\ Pos(n, c.UNA) = 0 /\ Pos(n, c.LCS) = 0 /\ c.state # "OPEN"
      BY <1>4 DEF Fresh
    <3>2. a.submitted = 0 /\ b.consumed = 0
      BY DEF Untouched
    <3> QED
      BY <3>1, <3>2, <1>4 DEF SndNumbers
  <2>5. CbAt(n, a, 1)
    <3>1. PICK f \in 1 .. a.submitted + 1 : CbAt(n, a, f)
      BY DEF Untouched, AppOK
    <3>2. f = 1
      BY <3>1 DEF Untouched
    <3> QED
      BY <3>1, <3>2
  <2>6. First(n, 1) .. EndOf(n, a) - 1 = 1 .. 0
    BY <2>1, <1>4
  <2> QED
    BY <2>1, <2>3, <2>4, <2>5, <2>6 DEF SndAt
<1>6. SndOK(n, c, a, b.consumed)
  <2>1. 1 \in 1 .. a.submitted + 1
    BY DEF Untouched
  <2> QED
    BY <2>1, <1>5 DEF SndOK
<1>7. RcvOK(n, c, a, b.submitted)
  <2>1. First(p, 1) = 1 /\ Iss[p] \in Seqs /\ Pos(p, Iss[p]) = 0
    BY IssAt
  <2>2. Len(a.rcvd) = 0 /\ a.consumed = 0
    <3>1. a.consumed \in Nat /\ RcvApp(p, a, b.submitted) /\ Len(a.rcvd) = 0
      BY <1>1 DEF Untouched, AppT, AppOK
    <3> QED
      BY <3>1 DEF RcvApp
  <2>3. RcvHeld(p, c, a)
    BY <2>1, <2>2 DEF RcvHeld
  <2>4. 0 < First(p, b.submitted + 1)
    <3>1. b.submitted \in 0 .. Count(p)
      BY <1>1 DEF PeerT, AppT, Count
    <3>2. PICK N \in Nat : N = Count(p)
      BY FirstIs
    <3>3. PICK j \in Nat : j = b.submitted + 1 /\ j \in 1 .. N + 1
      BY <3>1, <3>2
    <3>4. 1 \in 1 .. N + 1 /\ 1 <= j
      BY <3>2, <3>3
    <3>5. 1 \in 1 .. Count(p) + 1 /\ j \in 1 .. Count(p) + 1
      BY <3>2, <3>3, <3>4
    <3>6. PICK x \in Nat : x = First(p, j)
      BY <3>4, <3>5, FirstMono
    <3>7. First(p, j) >= 1
      BY <3>4, <3>5, FirstMono
    <3> QED
      BY <3>3, <3>6, <3>7
  <2>5. n = "B" => Pos(p, c.rLCS) = 0 /\ Pos(p, c.CUR) = 0
    BY <2>1, <1>1 DEF Fresh
  <2>6. c.state # "OPEN"
    BY DEF Fresh
  <2> QED
    BY <2>1, <2>2, <2>3, <2>4, <2>5, <2>6, <1>1, <1>2 DEF RcvOK
<1>8. Knows(Peer(n), r) => Pos(n, c.UNA) <= Pos(n, r.CUR) + 1
  <2> SUFFICES ASSUME Knows(Peer(n), r) PROVE Pos(n, c.UNA) <= Pos(n, r.CUR) + 1
    OBVIOUS
  <2>1. r.CUR \in Seqs
    BY DEF PeerT, Knows, Conn
  <2>2. PICK x \in Nat : x = Pos(n, r.CUR)
    BY <2>1, PosOf
  <2>3. Pos(n, c.UNA) = 0
    BY <1>4 DEF Fresh
  <2> QED
    BY <2>2, <2>3
<1> QED
  BY <1>3, <1>6, <1>7, <1>8 DEF ConnOK

\* The connection that sends its first SYN.
Calls(n, s, t) ==
  /\ StepT(n, t) /\ t.a = s.a /\ Fresh(n, t.c)
  /\ \A g \in t.out : g \in s.out \/ IsSyn(n, g)

\* SendSyn sends the SYN of a new connection and sets the connect timer.
LEMMA SendSynStep ==
  ASSUME NEW n \in Node, NEW s, StepT(n, s), Fresh(n, s.c)
  PROVE  Calls(n, s, SendSyn(s, n))
<1>1. Caller(n, s.c)
  BY DEF Fresh, Caller, Node
<1>2. PICK sent : sent = DoSendSyn(s, n)
  OBVIOUS
<1>3. SynSent(n, s, sent)
  BY <1>1, <1>2, DoSendSynStep
<1>4. PICK t : t = SendSyn(s, n)
  OBVIOUS
<1>5. CASE ~sent.ok
  <2>1. t = sent
    BY <1>2, <1>4, <1>5, Zenon DEF SendSyn
  <2> QED
    BY <2>1, <1>3, <1>4 DEF SynSent, Calls
<1>6. CASE sent.ok
  <2>1. PICK z \in 0 .. ConnectRetries + 1 : z = ConnectRetries + 1
    BY ConfigAssumption
  <2>2. t = [sent EXCEPT !.c.conTimer = "connect", !.c.retry = z]
    BY <2>1, <1>2, <1>4, <1>6, Zenon DEF SendSyn
  <2>3. Shape(sent) /\ sent.c \in Conn /\ sent.c = s.c
    BY <1>3 DEF SynSent, StepT
  <2>4. PICK d : d = [s.c EXCEPT !.conTimer = "connect", !.retry = z]
    OBVIOUS
  <2>5. d \in Conn
    <3>1. s.c \in Conn
      BY DEF StepT
    <3> QED
      BY <3>1, <2>4 DEF Conn
  <2>6. /\ Shape(t) /\ t.c = d /\ t.a = sent.a /\ t.jam = sent.jam /\ t.out = sent.out
        /\ t.o = sent.o /\ t.ok = sent.ok /\ t.broken = sent.broken
    BY <2>2, <2>3, <2>4 DEF Shape
  <2>7. StepT(n, t)
    BY <2>5, <2>6, <1>3 DEF StepT, SynSent
  <2>8. /\ d.local = s.c.local /\ d.passive = s.c.passive /\ d.state = s.c.state /\ d.foreign = s.c.foreign
        /\ d.NXT = s.c.NXT /\ d.UNA = s.c.UNA /\ d.LCS = s.c.LCS /\ d.pending = s.c.pending /\ d.sbuf = s.c.sbuf
        /\ d.CUR = s.c.CUR /\ d.rLCS = s.c.rLCS /\ d.eack = s.c.eack /\ d.conTimer = "connect" /\ d.reason = s.c.reason
    BY <2>3, <2>4 DEF Conn
  <2>9. Fresh(n, d)
    BY <2>5, <2>8 DEF Fresh
  <2> QED
    BY <2>6, <2>7, <2>9, <1>3, <1>4 DEF SynSent, Calls
<1> QED
  BY <1>5, <1>6

-----------------------------------------------------------------------------
(* The timers of an open connection.                                       *)

\* t is s after a NUL; its probe and persist counts are those of s.
NulSent(n, s, t, r, b) ==
  Stepped(n, s, t, r, b) /\ t.c.probe = s.c.probe /\ t.c.persist = s.c.persist /\ t.c.state = s.c.state

\* SendNul of a node that knows its peer.
LEMMA SendNulStep ==
  ASSUME Fits, NEW n \in Node, NEW s, NEW r, NEW b, Good(n, s, r, b), n = "B" \/ Est(n, s.c)
  PROVE  NulSent(n, s, SendNul(s), r, b)
<1>1. PICK flg : flg = {"ACK", "NUL"}
  OBVIOUS
<1>2. PICK t : t = Send(s, flg, s.c.NXT, s.c.CUR)
  OBVIOUS
<1>3. Good(n, t, r, b) /\ Moves(n, s.c, s.a, t.c, t.a, b.consumed) /\ Core(s.c, t.c)
  BY <1>1, <1>2, SendOK
<1>4. t = SendNul(s)
  BY <1>1, <1>2 DEF SendNul
<1>5. t.c.probe = s.c.probe /\ t.c.persist = s.c.persist
  <2>1. PICK g : g = WithEack(s.c, Segment(s.c, flg, s.c.NXT, s.c.CUR))
    OBVIOUS
  <2>2. t = SendMsgHeader(s, g)
    BY <1>2, <2>1 DEF Send
  <2>3. PICK e : e = Emit(s, g)
    OBVIOUS
  <2>4. Shape(s) /\ s.c \in Conn
    BY DEF Good, StepT
  <2>5. Shape(e) /\ e.c = s.c
    BY <2>3, <2>4 DEF Emit, Shape
  <2>6. t = [e EXCEPT !.jam = TRUE] \/ t = [e EXCEPT !.c.ackTimer = FALSE]
    BY <2>2, <2>3 DEF SendMsgHeader
  <2>7. CASE t = [e EXCEPT !.jam = TRUE]
    BY <2>7, <2>5 DEF Shape
  <2>8. CASE t = [e EXCEPT !.c.ackTimer = FALSE]
    <3>1. t.c = [s.c EXCEPT !.ackTimer = FALSE]
      BY <2>8, <2>5 DEF Shape
    <3> QED
      BY <3>1, <2>4 DEF Conn
  <2> QED
    BY <2>6, <2>7, <2>8
<1> QED
  BY <1>3, <1>4, <1>5 DEF Stepped, Core, NulSent

\* The probe timer.
LEMMA SendProbeStep ==
  ASSUME Fits, NEW n \in Node, NEW s, NEW r, NEW b, Good(n, s, r, b), s.c.state = "OPEN"
  PROVE  Stepped(n, s, SendProbe(s), r, b)
<1>1. PICK nul : nul = SendNul(s)
  OBVIOUS
<1>2. NulSent(n, s, nul, r, b)
  BY <1>1, OpenKnows, SendNulStep
<1>3. Good(n, nul, r, b)
  BY <1>2 DEF NulSent, Stepped
<1>4. PICK t : t = SendProbe(s)
  OBVIOUS
<1>5. s.o # "error" /\ s.c.probe \in Nat /\ s.c.probe \in 0 .. KeepaliveRetries
  BY ConfigAssumption DEF Good, StepT, Conn
<1>6. CASE s.c.probe = 0
  <2>1. PICK reason \in Statuses : reason = "timeout"
    BY DEF Statuses, Reasons
  <2>2. t = Disconnect(s, reason)
    BY <2>1, <1>4, <1>6, Zenon DEF SendProbe
  <2> QED
    BY <2>2, <1>4, DisconnectGood DEF Stepped
<1>7. CASE s.c.probe # 0 /\ nul.ok
  <2>1. PICK z \in 0 .. KeepaliveRetries : z = s.c.probe - 1
    BY <1>5, <1>7, ConfigAssumption
  <2>2. ~(s.c.probe # 0 /\ s.o = "error") /\ ~(s.c.probe = 0)
    BY <1>5, <1>7
  <2>3. t = [nul EXCEPT !.c.probe = @ - 1]
    BY <2>2, <1>1, <1>4, <1>7, Zenon DEF SendProbe
  <2>4. nul.c.probe - 1 = z
    BY <1>2, <2>1 DEF NulSent
  <2>5. Shape(nul)
    BY <1>3 DEF Good, StepT
  <2>6. t = [nul EXCEPT !.c.probe = z]
    BY <2>3, <2>4, <2>5, Zenon
  <2>7. PICK y \in 0 .. PersistRetries, x \in 0 .. ConnectRetries + 1 : TRUE
    <3>1. 0 \in 0 .. PersistRetries /\ 0 \in 0 .. ConnectRetries + 1
      BY ConfigAssumption
    <3> QED
      BY <3>1
  <2>8. Recount(nul, t, z, y, x)
    BY <2>6 DEF Recount
  <2>9. Counted(n, nul, t, r, b)
    BY <2>8, <1>3, CountStep
  <2>10. Stepped(n, nul, t, r, b) /\ Stepped(n, s, nul, r, b)
    BY <2>9, <1>2 DEF Counted, NulSent
  <2> QED
    BY <2>10, <1>4, SteppedTrans
<1>8. CASE s.c.probe # 0 /\ ~nul.ok
  <2>1. ~(s.c.probe = 0) /\ ~(s.c.probe # 0 /\ nul.ok) /\ ~(s.c.probe # 0 /\ s.o = "error")
    BY <1>8, <1>5
  <2>2. t = nul
    BY <2>1, <1>1, <1>4, Zenon DEF SendProbe
  <2> QED
    BY <2>2, <1>2, <1>4 DEF NulSent
<1> QED
  BY <1>6, <1>7, <1>8

\* The persist timer's part when it has retries left.
Persisting(s, nul) == IF nul.ok THEN [nul EXCEPT !.c.persist = @ - 1] ELSE nul

\* The persist timer sends a NUL.
LEMMA PersistingStep ==
  ASSUME Fits, NEW n \in Node, NEW s, NEW r, NEW b, Good(n, s, r, b), s.c.state = "OPEN", s.c.persist # 0
  PROVE  Stepped(n, s, Persisting(s, SendNul(s)), r, b)
<1>1. PICK nul : nul = SendNul(s)
  OBVIOUS
<1>2. NulSent(n, s, nul, r, b)
  BY <1>1, OpenKnows, SendNulStep
<1>3. Good(n, nul, r, b)
  BY <1>2 DEF NulSent, Stepped
<1>4. PICK t : t = Persisting(s, nul)
  OBVIOUS
<1>5. s.c.persist \in 0 .. PersistRetries
  BY DEF Good, StepT, Conn
<1>7. CASE nul.ok
  <2>1. PICK z \in 0 .. PersistRetries : z = s.c.persist - 1
    BY <1>5, <1>7, ConfigAssumption
  <2>3. t = [nul EXCEPT !.c.persist = @ - 1]
    BY <1>4, <1>7, Zenon DEF Persisting
  <2>4. nul.c.persist - 1 = z
    BY <1>2, <2>1 DEF NulSent
  <2>5. Shape(nul)
    BY <1>3 DEF Good, StepT
  <2>6. t = [nul EXCEPT !.c.persist = z]
    BY <2>3, <2>4, <2>5, Zenon
  <2>7. PICK y \in 0 .. KeepaliveRetries, x \in 0 .. ConnectRetries + 1 : TRUE
    <3>1. 0 \in 0 .. KeepaliveRetries /\ 0 \in 0 .. ConnectRetries + 1
      BY ConfigAssumption
    <3> QED
      BY <3>1
  <2>8. Recount(nul, t, y, z, x)
    BY <2>6 DEF Recount
  <2>9. Counted(n, nul, t, r, b)
    BY <2>8, <1>3, CountStep
  <2>10. Stepped(n, nul, t, r, b) /\ Stepped(n, s, nul, r, b)
    BY <2>9, <1>2 DEF Counted, NulSent
  <2> QED
    BY <2>10, <1>1, <1>4, SteppedTrans
<1>8. CASE ~nul.ok
  BY <1>1, <1>2, <1>8 DEF NulSent, Persisting
<1> QED
  BY <1>7, <1>8

-----------------------------------------------------------------------------
(* The data timers.                                                        *)

\* A buffer in use holds a fragment of a submitted message.
InBuffer(n, c, a, i, x, m) ==
  /\ m \in 1 .. Count(n) /\ x \in First(n, m) .. First(n, m + 1) - 1 /\ x \in 1 .. EndOf(n, a) - 1
  /\ c.sbuf[i].seq = SeqAt(n, x) /\ c.sbuf[i].som = SeqAt(n, First(n, m)) /\ c.sbuf[i].msg = m
  /\ c.sbuf[i].fcnt = Msgs[n][m].fcnt /\ c.sbuf[i].ttl = "inf" /\ Est(n, c)

\* Which one it is.
LEMMA BufferIs ==
  ASSUME Fits, NEW n \in Node, NEW s, NEW r, NEW b, Good(n, s, r, b), NEW i \in Ring, s.c.sbuf[i].timer
  PROVE  s.c.sbuf[i].inUse /\ \E m : \E x : InBuffer(n, s.c, s.a, i, x, m)
<1>1. SndOK(n, s.c, s.a, b.consumed) /\ Ctl(n, s.c, s.a) /\ AppT(n, s.a)
  BY DEF Good, ConnOK, StepT
<1>2. PICK f \in 1 .. s.a.submitted + 1 : SndAt(n, s.c, s.a, b.consumed, f)
  BY <1>1 DEF SndOK
<1>3. RingHolds(n, s.c, First(n, f) .. EndOf(n, s.a) - 1)
  BY <1>2 DEF SndAt
<1>4. s.c.sbuf[i].inUse
  BY <1>3 DEF RingHolds
<1>5. PICK x \in First(n, f) .. EndOf(n, s.a) - 1 : i = Slot(n, x)
  BY <1>3, <1>4 DEF RingHolds
<1>6. SndBufAt(n, s.c.sbuf[i], x)
  BY <1>3, <1>5 DEF RingHolds
<1>7. PICK m \in 1 .. Count(n) : m = s.c.sbuf[i].msg
  BY <1>6 DEF SndBufAt, Count
<1>8. PICK N \in Nat, S \in Nat : N = Count(n) /\ S = s.a.submitted /\ S <= N
  BY <1>1, SubmittedIs
<1>9. f \in 1 .. N + 1 /\ S + 1 \in 1 .. N + 1 /\ f <= S + 1
  BY <1>2, <1>8
<1>10. First(n, f) \in Nat /\ First(n, f) >= 1 /\ First(n, S + 1) \in Nat
  BY <1>8, <1>9, FirstMono
<1>11. PICK F \in Nat, E \in Nat : F = First(n, f) /\ E = EndOf(n, s.a) /\ F >= 1
  BY <1>8, <1>10 DEF EndOf
<1>12. x \in F .. E - 1
  BY <1>5, <1>11
<1>13. x \in 1 .. EndOf(n, s.a) - 1
  BY <1>11, <1>12
<1>14. x \in First(n, m) .. First(n, m + 1) - 1
  <2>1. PICK X \in Nat, Z \in Nat : X = First(n, m) /\ Z = Final(n, m) /\ First(n, m + 1) = Z + 1
    BY MessageSpan
  <2>2. X <= x /\ x < Z + 1 /\ x \in Nat
    BY <1>6, <1>7, <1>12, <2>1 DEF SndBufAt
  <2> QED
    BY <2>1, <2>2
<1>15. Est(n, s.c)
  <2>1. SUFFICES ASSUME ~Est(n, s.c) PROVE FALSE
    OBVIOUS
  <2>2. s.a.submitted = 0
    BY <1>1, <2>1 DEF Ctl
  <2>3. EndOf(n, s.a) = 1
    BY <2>2, IssAt DEF EndOf
  <2> QED
    BY <2>3, <1>13
<1>16. InBuffer(n, s.c, s.a, i, x, m)
  BY <1>6, <1>7, <1>13, <1>14, <1>15 DEF InBuffer, SndBufAt, Count
<1> QED
  BY <1>4, <1>16

\* A segment that carries it is one that the peer can expect.
LEMMA DataSegOK ==
  ASSUME Fits, NEW n \in Node, NEW s, NEW r, NEW b, Good(n, s, r, b), NEW i \in Ring, NEW x, NEW m,
         InBuffer(n, s.c, s.a, i, x, m), NEW g, DataSeg(g, s.c, s.c.sbuf[i])
  PROVE  SegOK(n, g, s.c, s.a, r, b)
<1>1. m \in 1 .. Count(n) /\ x \in First(n, m) .. First(n, m + 1) - 1
  BY DEF InBuffer
<1>2. PICK X \in Nat, Z \in Nat : X = First(n, m) /\ First(n, m + 1) = Z + 1 /\ X <= Z /\ Z < Half
  <2>1. PICK X \in Nat, Z \in Nat, T \in Nat : X = First(n, m) /\ Z = Final(n, m) /\ T = Total(n) /\ X <= Z /\ Z < T /\ T + SegMax < Half /\ First(n, m + 1) = Z + 1
    BY <1>1, MessageSpan
  <2>2. Half \in Nat
    BY FirstIs
  <2> QED
    BY <2>1, <2>2
<1>3. x \in Nat /\ X <= x /\ x < Z + 1
  BY <1>1, <1>2
<1>4. SeqAt(n, x) \in Seqs /\ Pos(n, SeqAt(n, x)) = x
  BY <1>1, PosnIs
<1>5. SeqAt(n, X) \in Seqs /\ Pos(n, SeqAt(n, X)) = X
  <2>1. X \in First(n, m) .. First(n, m + 1) - 1
    BY <1>2
  <2> QED
    BY <2>1, <1>1, PosnIs
<1>6. Minus(SeqAt(n, x), SeqAt(n, X)) = x - X
  BY <1>3, <1>4, <1>5, PosMinus
<1>7. /\ g.seq = SeqAt(n, x) /\ g.data = <<m, x - X>> /\ g.som = SeqAt(n, X)
      /\ g.fcnt = Msgs[n][m].fcnt /\ g.ttl = "inf"
  BY <1>2, <1>6 DEF InBuffer, DataSeg
<1>8. PICK E \in Nat : E = EndOf(n, s.a) /\ x \in 1 .. E - 1
  <2>1. AppT(n, s.a) /\ PeerT(n, r, b) /\ AppOK(n, s.a, b)
    BY DEF Good, StepT
  <2>2. EndOf(n, s.a) \in 1 .. Total(n) /\ Total(n) \in Nat
    BY <2>1, Places DEF PeerT
  <2>3. x \in 1 .. EndOf(n, s.a) - 1
    BY DEF InBuffer
  <2> QED
    BY <2>2, <2>3
<1>9. DataOK(n, g, EndOf(n, s.a))
  BY <1>1, <1>2, <1>3, <1>4, <1>7, <1>8 DEF DataOK, Count
<1>10. Pos(n, g.seq) \in 1 .. EndOf(n, s.a)
  BY <1>4, <1>7, <1>8
<1>11. /\ s.c \in Conn /\ AppT(n, s.a) /\ PeerT(n, r, b) /\ AppOK(n, s.a, b) /\ ConnOK(n, s.c, s.a, r, b)
       /\ s.c.CUR \in Seqs
  BY DEF Good, StepT, Conn
<1>12. /\ g \in Segs /\ g.src = s.c.local /\ g.dst = s.c.foreign /\ {"RST", "SYN"} \cap g.flg = {}
       /\ g.lcs = s.c.rLCS /\ g.acknxt = s.c.UNA /\ g.ack = s.c.CUR
  BY DEF DataSeg
<1>13. Est(n, s.c)
  BY DEF InBuffer
<1> QED
  BY <1>9, <1>10, <1>11, <1>12, <1>13, NormalSeg

\* A segment is sent again.
LEMMA RetransmitAgainStep ==
  ASSUME Fits, NEW n \in Node, NEW s, NEW r, NEW b, Good(n, s, r, b), NEW i \in Ring, s.c.sbuf[i].timer
  PROVE  Stepped(n, s, RetransmitAgain(s, i), r, b)
<1>1. PICK t : t = SendMsgData(s, i)
  OBVIOUS
<1>2. StepT(n, s) /\ s.o # "error"
  BY DEF Good, StepT
<1>3. StepT(n, t) /\ Core(s.c, t.c) /\ t.a = s.a /\ \A g \in t.out : g \in s.out \/ DataSeg(g, s.c, s.c.sbuf[i])
  BY <1>1, <1>2, SendMsgDataStep
<1>4. PICK m : \E x : InBuffer(n, s.c, s.a, i, x, m)
  BY BufferIs
<1>5. PICK x : InBuffer(n, s.c, s.a, i, x, m)
  BY <1>4
<1>6. \A g \in t.out : g \in s.out \/ SegOK(n, g, s.c, s.a, r, b)
  BY <1>3, <1>5, DataSegOK
<1>7. SameApp(s.a, t.a)
  BY <1>3 DEF SameApp
<1>8. Stepped(n, s, t, r, b)
  BY <1>3, <1>6, <1>7, Quiet DEF Stepped
<1>9. t = RetransmitAgain(s, i)
  BY <1>1, <1>2 DEF RetransmitAgain
<1> QED
  BY <1>8, <1>9

\* A segment was tried for too long.
LEMMA RetransmitTimedOutStep ==
  ASSUME Fits, NEW n \in Node, NEW s, NEW r, NEW b, Good(n, s, r, b), NEW i \in Ring
  PROVE  Stepped(n, s, RetransmitTimedOut(s, i), r, b)
<1>1. PICK reason \in Statuses : reason = "timeout"
  BY DEF Statuses, Reasons
<1>2. PICK I : I = {i}
  OBVIOUS
<1>3. PICK u : u = [s EXCEPT !.c.sbuf = Cancelled(s.c, I)]
  OBVIOUS
<1>4. Good(n, u, r, b) /\ Moves(n, s.c, s.a, u.c, u.a, b.consumed)
  BY <1>3, CancelTimers
<1>5. [s EXCEPT !.c.sbuf[i].timer = FALSE] = u
  <2>1. Shape(s) /\ s.c \in Conn
    BY DEF Good, StepT
  <2>2. PICK ring : ring = [s.c.sbuf EXCEPT ![i].timer = FALSE]
    OBVIOUS
  <2>3. s.c.sbuf \in [Ring -> SndBuf]
    BY <2>1 DEF Conn
  <2>4. ring = Cancelled(s.c, I)
    BY <2>2, <2>3, <1>2 DEF Cancelled, SndBuf
  <2>5. [s EXCEPT !.c.sbuf[i].timer = FALSE] = [s EXCEPT !.c.sbuf = ring]
    BY <2>1, <2>2 DEF Shape
  <2> QED
    BY <2>4, <2>5, <1>3
<1>6. PICK t : t = Disconnect(u, reason)
  OBVIOUS
<1>7. Stepped(n, u, t, r, b) /\ Stepped(n, s, u, r, b)
  BY <1>4, <1>6, DisconnectGood DEF Stepped
<1>8. t = RetransmitTimedOut(s, i)
  BY <1>1, <1>5, <1>6 DEF RetransmitTimedOut
<1> QED
  BY <1>7, <1>8, SteppedTrans

-----------------------------------------------------------------------------
(* The connect timer.                                                      *)

\* The new segments of a step are SYNs and RSTs.
Quietly(n, s, t, r, b) ==
  Stepped(n, s, t, r, b) /\ (\A g \in t.out : g \in s.out \/ ~Normal(g)) /\ t.c.UNA = s.c.UNA

\* A connection that waits for its SYN to be answered.
LEMMA CallerIs ==
  ASSUME NEW n \in Node, NEW s, NEW r, NEW b, Good(n, s, r, b), s.c.conTimer = "connect"
  PROVE  HalfOpen(s.c) /\ Caller(n, s.c)
<1>1. Ctl(n, s.c, s.a)
  BY DEF Good, ConnOK
<1>2. HalfOpen(s.c)
  BY <1>1 DEF Ctl, HalfOpen
<1>3. ~Est(n, s.c)
  BY <1>1, <1>2 DEF Ctl, HalfOpen
<1> QED
  BY <1>1, <1>2, <1>3 DEF Ctl, Caller, Node

\* SYN and RST segments are not normal ones.
LEMMA NotNormal ==
  ASSUME NEW n \in Node, NEW g, IsSyn(n, g) \/ IsRst(g)
  PROVE  ~Normal(g)
BY DEF IsSyn, IsRst, Normal

\* DoSendSyn, and one more retry is used up.
Again(s, n) == [DoSendSyn(s, n) EXCEPT !.c.retry = @ - 1]

\* The SYN is repeated.
LEMMA ConnectAgainStep ==
  ASSUME Fits, NEW n \in Node, NEW s, NEW r, NEW b, Good(n, s, r, b), s.c.conTimer = "connect", s.c.retry > 1
  PROVE  Quietly(n, s, Again(s, n), r, b)
<1>1. PICK u : u = DoSendSyn(s, n)
  OBVIOUS
<1>2. StepT(n, s) /\ s.c \in Conn
  BY DEF Good, StepT
<1>3. SynSent(n, s, u)
  BY <1>1, <1>2, CallerIs, DoSendSynStep
<1>4. Core(s.c, u.c) /\ SameApp(s.a, u.a) /\ StepT(n, u)
  BY <1>3 DEF SynSent, Core, SameApp
<1>5. \A g \in u.out : g \in s.out \/ SegOK(n, g, s.c, s.a, r, b)
  BY <1>3 DEF SynSent, SegOK
<1>6. Stepped(n, s, u, r, b)
  BY <1>4, <1>5, Quiet DEF Stepped
<1>7. Good(n, u, r, b)
  BY <1>6 DEF Stepped
<1>8. PICK t : t = Again(s, n)
  OBVIOUS
<1>9. PICK z \in 0 .. ConnectRetries + 1 : z = s.c.retry - 1
  <2>1. s.c.retry \in 0 .. ConnectRetries + 1
    BY <1>2 DEF Conn
  <2> QED
    BY <2>1, ConfigAssumption
<1>10. t = [u EXCEPT !.c.retry = z]
  <2>1. u.c.retry - 1 = z
    BY <1>3, <1>9 DEF SynSent
  <2>2. t = [u EXCEPT !.c.retry = @ - 1]
    BY <1>1, <1>8, Zenon DEF Again
  <2> QED
    BY <2>1, <2>2, Zenon
<1>11. PICK x \in 0 .. KeepaliveRetries, y \in 0 .. PersistRetries : TRUE
  <2>1. 0 \in 0 .. KeepaliveRetries /\ 0 \in 0 .. PersistRetries
    BY ConfigAssumption
  <2> QED
    BY <2>1
<1>12. Recount(u, t, x, y, z)
  BY <1>10 DEF Recount
<1>13. Counted(n, u, t, r, b)
  BY <1>7, <1>12, CountStep
<1>14. Stepped(n, s, t, r, b)
  BY <1>6, <1>13, SteppedTrans DEF Counted
<1>15. \A g \in t.out : g \in s.out \/ ~Normal(g)
  <2>1. t.out = u.out
    BY <1>13 DEF Counted
  <2> QED
    BY <2>1, <1>3, NotNormal DEF SynSent
<1> QED
  BY <1>3, <1>8, <1>13, <1>14, <1>15 DEF Quietly, Counted, SynSent

\* The connection is given up and its peer told.
Fails(s) ==
  [SendRst(ConnectCb([s EXCEPT !.c.state = "CLOSED"], "timeout")) EXCEPT !.c.conTimer = "off", !.c.retry = 0]

\* The last SYN was not answered.
LEMMA ConnectFailsStep ==
  ASSUME Fits, NEW n \in Node, NEW s, NEW r, NEW b, Good(n, s, r, b), s.c.conTimer = "connect"
  PROVE  Quietly(n, s, Fails(s), r, b)
<1>1. HalfOpen(s.c)
  BY CallerIs
<1>2. StepT(n, s) /\ s.c \in Conn /\ Shape(s)
  BY DEF Good, StepT
<1>3. PICK cl : cl = [s EXCEPT !.c.state = "CLOSED"]
  OBVIOUS
<1>4. /\ Shape(cl) /\ cl.c = [s.c EXCEPT !.state = "CLOSED"] /\ cl.a = s.a /\ cl.jam = s.jam
      /\ cl.out = s.out /\ cl.o = s.o /\ cl.ok = s.ok /\ cl.broken = s.broken
  BY <1>3, <1>2 DEF Shape
<1>5. cl.c \in Conn
  BY <1>4, <1>2 DEF Conn, States
<1>6. StepT(n, cl)
  BY <1>4, <1>5, <1>2 DEF StepT
<1>7. PICK status \in Statuses : status = "timeout"
  BY DEF Statuses, Reasons
<1>8. PICK told : told = ConnectCb(cl, status)
  OBVIOUS
<1>9. ToldTo(n, cl, told)
  BY <1>6, <1>8, ConnectCbIs
<1>10. PICK u : u = SendRst(told)
  OBVIOUS
<1>11. /\ StepT(n, u) /\ Core(u.c, told.c) /\ u.a = told.a
       /\ \A seg \in u.out : seg \in told.out \/ IsRst(seg)
  <2>1. StepT(n, told)
    BY <1>9 DEF ToldTo
  <2> QED
    BY <2>1, <1>10, SendRstStep
<1>12. PICK t : t = Fails(s)
  OBVIOUS
<1>13. t = [u EXCEPT !.c.conTimer = "off", !.c.retry = 0]
  BY <1>3, <1>7, <1>8, <1>10, <1>12, Zenon DEF Fails
<1>14. u.c \in Conn /\ Shape(u)
  BY <1>11 DEF StepT
<1>15. /\ Shape(t) /\ t.c = [u.c EXCEPT !.conTimer = "off", !.retry = 0] /\ t.a = u.a /\ t.jam = u.jam
       /\ t.out = u.out /\ t.o = u.o /\ t.ok = u.ok /\ t.broken = u.broken
  BY <1>13, <1>14 DEF Shape
<1>16. t.c \in Conn
  <2>1. 0 \in 0 .. ConnectRetries + 1
    BY ConfigAssumption
  <2> QED
    BY <2>1, <1>14, <1>15 DEF Conn
<1>17. StepT(n, t)
  BY <1>11, <1>15, <1>16 DEF StepT
<1>18. GaveUp(s.c, t.c)
  <2>1. /\ cl.c.state = "CLOSED" /\ cl.c.passive = s.c.passive /\ cl.c.local = s.c.local /\ cl.c.foreign = s.c.foreign
        /\ cl.c.NXT = s.c.NXT /\ cl.c.UNA = s.c.UNA /\ cl.c.LCS = s.c.LCS /\ cl.c.pending = s.c.pending
        /\ cl.c.sbuf = s.c.sbuf /\ cl.c.CUR = s.c.CUR /\ cl.c.rLCS = s.c.rLCS /\ cl.c.rbuf = s.c.rbuf
        /\ cl.c.eack = s.c.eack /\ cl.c.reason = s.c.reason
    BY <1>2, <1>4 DEF Conn
  <2>2. Core(u.c, cl.c)
    BY <1>9, <1>11 DEF ToldTo
  <2>3. /\ t.c.conTimer = "off"
        /\ t.c.state = u.c.state /\ t.c.passive = u.c.passive /\ t.c.local = u.c.local /\ t.c.foreign = u.c.foreign
        /\ t.c.NXT = u.c.NXT /\ t.c.UNA = u.c.UNA /\ t.c.LCS = u.c.LCS /\ t.c.pending = u.c.pending
        /\ t.c.sbuf = u.c.sbuf /\ t.c.CUR = u.c.CUR /\ t.c.rLCS = u.c.rLCS /\ t.c.rbuf = u.c.rbuf
        /\ t.c.eack = u.c.eack /\ t.c.reason = u.c.reason
    BY <1>14, <1>15 DEF Conn
  <2> QED
    BY <2>1, <2>2, <2>3 DEF Core, GaveUp
<1>19. SameApp(s.a, t.a)
  BY <1>4, <1>9, <1>11, <1>15 DEF ToldTo
<1>20. \A g \in t.out : g \in s.out \/ IsRst(g)
  <2>1. told.out = s.out
    BY <1>4, <1>9 DEF ToldTo
  <2> QED
    BY <2>1, <1>11, <1>15
<1>21. Stepped(n, s, t, r, b)
  BY <1>1, <1>17, <1>18, <1>19, <1>20, GaveUpStep
<1> QED
  BY <1>12, <1>18, <1>20, <1>21, NotNormal DEF Quietly, GaveUp

-----------------------------------------------------------------------------
(* A segment for a connection that is going away.                          *)

\* A NUL is answered with an RST.
LEMMA AnswerRstStep ==
  ASSUME Fits, NEW n \in Node, NEW s, NEW r, NEW b, Good(n, s, r, b)
  PROVE  Quietly(n, s, Emit(s, RstSegment(s.c)), r, b)
<1>1. StepT(n, s) /\ s.c \in Conn
  BY DEF Good, StepT
<1>2. PICK g : g = RstSegment(s.c)
  OBVIOUS
<1>3. g \in Segs /\ IsRst(g)
  BY <1>1, <1>2, RstIs DEF IsRst
<1>4. PICK t : t = Emit(s, g)
  OBVIOUS
<1>5. StepT(n, t) /\ t.c = s.c /\ t.a = s.a /\ t.out \subseteq s.out \cup {g}
  BY <1>1, <1>3, <1>4, EmitStep
<1>6. Core(s.c, t.c) /\ SameApp(s.a, t.a)
  BY <1>5 DEF Core, SameApp
<1>7. \A x \in t.out : x \in s.out \/ SegOK(n, x, s.c, s.a, r, b)
  BY <1>3, <1>5 DEF SegOK
<1>8. Stepped(n, s, t, r, b)
  BY <1>5, <1>6, <1>7, Quiet DEF Stepped
<1>9. \A x \in t.out : x \in s.out \/ ~Normal(x)
  BY <1>3, <1>5, NotNormal
<1> QED
  BY <1>2, <1>4, <1>5, <1>8, <1>9 DEF Quietly

\* A step that does nothing.
LEMMA NothingStep ==
  ASSUME Fits, NEW n \in Node, NEW s, NEW r, NEW b, Good(n, s, r, b)
  PROVE  Quietly(n, s, s, r, b)
BY SteppedSame DEF Quietly

-----------------------------------------------------------------------------
(* The disconnect timer.                                                   *)

\* d is the connection c, going away, a state further or with another reason.
Going(c, d) ==
  /\ Closed(c) /\ Closed(d) /\ d.passive = c.passive /\ d.local = c.local /\ d.foreign = c.foreign
  /\ d.NXT = c.NXT /\ d.UNA = c.UNA /\ d.LCS = c.LCS
  /\ d.CUR = c.CUR /\ d.rLCS = c.rLCS /\ d.rbuf = c.rbuf /\ d.eack = c.eack
  /\ d.conTimer = c.conTimer

\* What does not concern the sender's ring stays true of it.
LEMMA GoingOK ==
  ASSUME Fits, NEW n \in Node, NEW s, NEW t, NEW r, NEW b, Good(n, s, r, b), Going(s.c, t.c), StepT(n, t),
         t.out = s.out, AppOK(n, t.a, b), SndOK(n, t.c, t.a, b.consumed),
         t.a.submitted = s.a.submitted, t.a.rcvd = s.a.rcvd, t.a.held = s.a.held, t.a.consumed = s.a.consumed,
         t.c.reason \in {"none", "ok"} => t.a.disconnectCb = <<>>,
         t.c.reason \notin {"none", "ok"} => t.c.pending = 0,
         CbMoves(n, s.a, t.a, b.consumed),
         s.a.disconnectCb # <<>> => t.a.sendCb = s.a.sendCb /\ t.a.disconnectCb = s.a.disconnectCb
  PROVE  Stepped(n, s, t, r, b)
<1>1. s.c \in Conn /\ t.c \in Conn /\ AppT(n, s.a) /\ PeerT(n, r, b) /\ Ctl(n, s.c, s.a)
      /\ RcvOK(n, s.c, s.a, b.submitted)
      /\ (Knows(Peer(n), r) => Pos(n, s.c.UNA) <= Pos(n, r.CUR) + 1)
  BY DEF Good, ConnOK, StepT
<1>2. Est(n, t.c) <=> Est(n, s.c)
  BY DEF Going, Est
<1>3. t.c.state \in {"CLOSE_WAIT", "CLOSED"} /\ s.c.state \in {"CLOSE_WAIT", "CLOSED"}
  BY DEF Going, Closed
<1>4. Ctl(n, t.c, t.a)
  <2>1. /\ t.c.local = 1 /\ t.c.passive = (n = "B")
        /\ t.c.state \in (IF n = "A" THEN {"SYN_SENT"} ELSE {"SYN_RCVD"}) \cup {"OPEN", "CLOSE_WAIT", "CLOSED"}
        /\ t.c.state \notin {"SYN_SENT", "SYN_RCVD"} /\ t.c.state # "OPEN"
    BY <1>1, <1>3 DEF Ctl, Going
  <2>2. /\ n = "A" /\ ~Est(n, t.c) => t.c.foreign = 0
        /\ n = "B" \/ Est(n, t.c) => t.c.foreign = 1
        /\ ~Est(n, t.c) => t.a.submitted = 0 /\ t.a.rcvd = <<>>
        /\ n = "B" /\ ~Est(n, t.c) => t.c.CUR = Iss["A"] /\ t.c.rLCS = Iss["A"]
    BY <1>1, <1>2 DEF Ctl, Going
  <2>3. /\ t.c.conTimer = "connect" => t.c.state \in {"SYN_SENT", "SYN_RCVD"}
        /\ Closed(t.c) /\ t.c.conTimer = "off" => ~Est(n, t.c)
    <3>1. s.c.conTimer # "connect"
      BY <1>1, <1>3 DEF Ctl
    <3> QED
      BY <3>1, <1>1, <1>2 DEF Ctl, Going
  <2> QED
    BY <2>1, <2>2, <2>3, <1>2 DEF Ctl, Going
<1>5. RcvOK(n, t.c, t.a, b.submitted)
  <2>1. t.c.rbuf = s.c.rbuf /\ t.c.CUR = s.c.CUR /\ t.c.rLCS = s.c.rLCS /\ t.c.state # "OPEN"
    BY <1>3 DEF Going
  <2> QED
    BY <2>1, <1>1, <1>2 DEF RcvOK, RcvHeld
<1>6. ConnOK(n, t.c, t.a, r, b)
  <2>1. t.c.UNA = s.c.UNA
    BY DEF Going
  <2> QED
    BY <2>1, <1>1, <1>4, <1>5 DEF ConnOK
<1>7. \A g \in t.out : SegOK(n, g, t.c, t.a, r, b)
  <2> TAKE g \in t.out
  <2>1. SegOK(n, g, s.c, s.a, r, b)
    BY DEF Good
  <2>2. t.c.CUR = s.c.CUR
    BY DEF Going
  <2> QED
    BY <2>1, <2>2, <1>1, SegSame
<1>8. Good(n, t, r, b)
  BY <1>1, <1>6, <1>7 DEF Good
<1>9. Moves(n, s.c, s.a, t.c, t.a, b.consumed)
  <2>1. Len(s.a.rcvd) \in Nat
    BY <1>1, LenProperties DEF AppT
  <2>2. Pos(Peer(n), s.c.CUR) \in Int /\ t.c.CUR = s.c.CUR
    <3>1. s.c.CUR \in Seqs /\ Peer(n) \in Node /\ t.c.CUR = s.c.CUR
      BY <1>1, PeerNode DEF Conn, Going
    <3> QED
      BY <3>1, PosOf
  <2> QED
    BY <2>1, <2>2, <1>2 DEF Moves
<1> QED
  BY <1>8, <1>9 DEF Stepped

\* The send side does not depend on how far the end has come.
LEMMA GoingSnd ==
  ASSUME Fits, NEW n \in Node, NEW c, NEW d, NEW a, NEW q, SndOK(n, c, a, q), Going(c, d),
         d.sbuf = c.sbuf, d.pending = c.pending
  PROVE  SndOK(n, d, a, q)
<1>1. PICK f \in 1 .. a.submitted + 1 : SndAt(n, c, a, q, f)
  BY DEF SndOK
<1>2. RingHolds(n, d, First(n, f) .. EndOf(n, a) - 1)
  BY <1>1, RingSame DEF SndAt
<1>3. d.state # "OPEN"
  BY DEF Going, Closed
<1>4. SndNumbers(n, d, a, q, f, EndOf(n, a))
  BY <1>1, <1>3 DEF SndAt, SndNumbers, Going
<1>5. SndAt(n, d, a, q, f)
  BY <1>1, <1>2, <1>4 DEF SndAt
<1> QED
  BY <1>5 DEF SndOK

\* The connection is closed.
IsClosed(s) == [s EXCEPT !.c.state = "CLOSED"]

\* s with its connection closed.
ClosedTo(n, s, u, r, b) == Stepped(n, s, u, r, b) /\ u.c.conTimer = s.c.conTimer /\ u.c.state = "CLOSED"
                           /\ u.out = s.out /\ u.c.UNA = s.c.UNA

\* CLOSE_WAIT becomes CLOSED.
LEMMA ClosedStep ==
  ASSUME Fits, NEW n \in Node, NEW s, NEW r, NEW b, Good(n, s, r, b), Closed(s.c)
  PROVE  ClosedTo(n, s, IsClosed(s), r, b)
<1>1. StepT(n, s) /\ s.c \in Conn /\ Shape(s) /\ AppOK(n, s.a, b) /\ SndOK(n, s.c, s.a, b.consumed)
      /\ Ctl(n, s.c, s.a)
  BY DEF Good, ConnOK, StepT
<1>2. PICK u : u = IsClosed(s)
  OBVIOUS
<1>3. /\ Shape(u) /\ u.c = [s.c EXCEPT !.state = "CLOSED"] /\ u.a = s.a /\ u.jam = s.jam
      /\ u.out = s.out /\ u.o = s.o /\ u.ok = s.ok /\ u.broken = s.broken
  BY <1>1, <1>2 DEF Shape, IsClosed
<1>4. u.c \in Conn
  BY <1>1, <1>3 DEF Conn, States
<1>5. StepT(n, u)
  BY <1>1, <1>3, <1>4 DEF StepT
<1>6. /\ u.c.state = "CLOSED" /\ u.c.passive = s.c.passive /\ u.c.local = s.c.local /\ u.c.foreign = s.c.foreign
      /\ u.c.NXT = s.c.NXT /\ u.c.UNA = s.c.UNA /\ u.c.LCS = s.c.LCS /\ u.c.pending = s.c.pending
      /\ u.c.sbuf = s.c.sbuf /\ u.c.CUR = s.c.CUR /\ u.c.rLCS = s.c.rLCS /\ u.c.rbuf = s.c.rbuf
      /\ u.c.eack = s.c.eack /\ u.c.reason = s.c.reason /\ u.c.conTimer = s.c.conTimer
  BY <1>1, <1>3 DEF Conn
<1>7. Going(s.c, u.c)
  BY <1>6 DEF Going, Closed
<1>8. SndOK(n, u.c, u.a, b.consumed)
  BY <1>1, <1>3, <1>6, <1>7, GoingSnd
<1>9. CbMoves(n, s.a, u.a, b.consumed)
  BY <1>3 DEF CbMoves
<1>10. /\ u.c.reason \in {"none", "ok"} => u.a.disconnectCb = <<>>
       /\ u.c.reason \notin {"none", "ok"} => u.c.pending = 0
  BY <1>1, <1>3, <1>6 DEF Ctl
<1>11. Stepped(n, s, u, r, b)
  BY <1>1, <1>3, <1>5, <1>7, <1>8, <1>9, <1>10, GoingOK
<1> QED
  BY <1>2, <1>3, <1>6, <1>11 DEF ClosedTo

\* What the disconnect timer tells the upper layer.
Flushed(s) == IF s.c.pending # 0 THEN FlushSendQueue(s) ELSE s
Told(s) ==
  IF s.c.reason # "ok" THEN s
  ELSE [Flushed(s) EXCEPT !.a.disconnectCb = Append(@, "ok"), !.c.reason = "done"]

\* Each message that is not settled yet is reported as cut off.
Settles(n, a, x, f) ==
  x = [m \in 1 .. Count(n) |->
         IF m \in f .. a.submitted THEN Append(a.sendCb[m], "disconnecting") ELSE a.sendCb[m]]

FlushedTo(n, s, t, f) ==
  /\ StepT(n, t) /\ Beside(s.c, t.c) /\ RingHolds(n, t.c, {}) /\ t.c.pending = 0 /\ t.out = s.out
  /\ \E x : Settles(n, s.a, x, f) /\ SettledApp(s.a, t.a, x)

\* The ring is empty afterwards.
LEMMA FlushedStep ==
  ASSUME Fits, NEW n \in Node, NEW s, NEW r, NEW b, Good(n, s, r, b), NEW f \in 1 .. s.a.submitted + 1,
         SndAt(n, s.c, s.a, b.consumed, f)
  PROVE  FlushedTo(n, s, Flushed(s), f)
<1>1. StepT(n, s) /\ AppT(n, s.a)
  BY DEF Good, StepT
<1>2. PICK N \in Nat, S \in Nat : N = Count(n) /\ S = s.a.submitted /\ S <= N
  BY <1>1, SubmittedIs
<1>3. f \in 1 .. Count(n) + 1 /\ S \in 0 .. Count(n) /\ f <= S + 1
  BY <1>2
<1>4. PICK R : R = f .. s.a.submitted
  OBVIOUS
<1>5. R \in SUBSET (1 .. Count(n))
  BY <1>2, <1>4
<1>6. RingHolds(n, s.c, Posns(n, R))
  <2>1. Posns(n, f .. S) = First(n, f) .. First(n, S + 1) - 1
    BY <1>3, PosnsInterval
  <2>2. RingHolds(n, s.c, First(n, f) .. EndOf(n, s.a) - 1)
    BY DEF SndAt
  <2> QED
    BY <2>1, <2>2, <1>2, <1>4 DEF EndOf
<1>7. PICK x : x = [m \in 1 .. Count(n) |->
                      IF m \in R THEN Append(s.a.sendCb[m], "disconnecting") ELSE s.a.sendCb[m]]
  OBVIOUS
<1>8. Settles(n, s.a, x, f)
  BY <1>4, <1>7 DEF Settles
<1>9. PICK t : t = Flushed(s)
  OBVIOUS
<1>10. /\ StepT(n, t) /\ Beside(s.c, t.c) /\ RingHolds(n, t.c, {}) /\ SettledApp(s.a, t.a, x) /\ t.out = s.out
  <2>1. CASE s.c.pending # 0
    <3>1. t = FlushSendQueue(s)
      BY <1>9, <2>1 DEF Flushed
    <3> QED
      BY <3>1, <1>1, <1>5, <1>6, <1>7, FlushSendQueueStep
  <2>2. CASE s.c.pending = 0
    <3>1. t = s
      BY <1>9, <2>2 DEF Flushed
    <3>2. R = {} /\ RingHolds(n, s.c, {})
      BY <2>2, <1>5, <1>6, RingEmpty
    <3>3. x = s.a.sendCb
      <4>1. s.a.sendCb = [m \in 1 .. Count(n) |-> s.a.sendCb[m]]
        BY <1>1, FirstIs DEF AppT
      <4>2. x = [m \in 1 .. Count(n) |-> s.a.sendCb[m]]
        BY <1>7, <3>2
      <4> QED
        BY <4>1, <4>2
    <3> QED
      BY <3>1, <3>2, <3>3, <1>1 DEF Beside, SettledApp
  <2> QED
    BY <2>1, <2>2
<1>11. t.c.pending = 0
  <2>1. InUse(t.c) = {}
    BY <1>10 DEF RingHolds, InUse
  <2> QED
    BY <2>1, <1>10, PendingIs DEF RingHolds
<1> QED
  BY <1>8, <1>9, <1>10, <1>11 DEF FlushedTo

\* The messages after it.
LEMMA SettlesAll ==
  ASSUME Fits, NEW n \in Node, NEW a, AppT(n, a), NEW f \in 1 .. a.submitted + 1, CbAt(n, a, f),
         NEW x, Settles(n, a, x, f), NEW e, e.sendCb = x, NEW q
  PROVE  CbAt(n, e, a.submitted + 1) /\ CbMoves(n, a, e, q)
<1>1. PICK N \in Nat, S \in Nat : N = Count(n) /\ S = a.submitted /\ S <= N
  BY SubmittedIs
<1>2. ASSUME NEW m \in 1 .. Count(n)
      PROVE  /\ m < S + 1 => e.sendCb[m] \in Reported
             /\ ~(m < S + 1) => e.sendCb[m] = <<>>
             /\ \/ e.sendCb[m] = a.sendCb[m]
                \/ a.sendCb[m] = <<>> /\ e.sendCb[m] = <<"disconnecting">>
  <2>1. e.sendCb[m] = IF m \in f .. S THEN Append(a.sendCb[m], "disconnecting") ELSE a.sendCb[m]
    BY <1>1 DEF Settles
  <2>2. IF m < f THEN a.sendCb[m] \in Reported ELSE a.sendCb[m] = <<>>
    BY DEF CbAt, Count
  <2>3. m \in 1 .. N /\ f \in 1 .. S + 1
    BY <1>1
  <2>4. CASE m < f
    BY <2>1, <2>2, <2>3, <2>4
  <2>5. CASE ~(m < f) /\ m < S + 1
    <3>1. m \in f .. S /\ a.sendCb[m] = <<>>
      BY <2>2, <2>3, <2>5
    <3>2. e.sendCb[m] = Append(<<>>, "disconnecting")
      BY <2>1, <3>1
    <3>3. e.sendCb[m] = <<"disconnecting">>
      BY <3>2
    <3> QED
      BY <3>1, <3>3, <2>5 DEF Reported
  <2>6. CASE ~(m < S + 1)
    <3>1. m \notin f .. S /\ ~(m < f)
      BY <2>3, <2>6
    <3> QED
      BY <3>1, <2>1, <2>2, <2>6
  <2> QED
    BY <2>4, <2>5, <2>6
<1>3. CbAt(n, e, a.submitted + 1)
  BY <1>1, <1>2 DEF CbAt, Count
<1>4. CbMoves(n, a, e, q)
  BY <1>2 DEF CbMoves, Count
<1> QED
  BY <1>3, <1>4

\* DisconnectCb, and before it SendCb for each message that is not settled.
LEMMA ToldStep ==
  ASSUME Fits, NEW n \in Node, NEW s, NEW r, NEW b, Good(n, s, r, b), Closed(s.c)
  PROVE  Stepped(n, s, Told(s), r, b) /\ Told(s).out = s.out /\ Told(s).c.UNA = s.c.UNA /\ Told(s).a.held = s.a.held
<1>1. /\ StepT(n, s) /\ s.c \in Conn /\ Shape(s) /\ AppOK(n, s.a, b) /\ SndOK(n, s.c, s.a, b.consumed)
      /\ Ctl(n, s.c, s.a) /\ AppT(n, s.a)
  BY DEF Good, ConnOK, StepT
<1>2. CASE s.c.reason # "ok"
  BY <1>2, SteppedSame DEF Told
<1>3. CASE s.c.reason = "ok"
  <2>1. PICK f \in 1 .. s.a.submitted + 1 : SndAt(n, s.c, s.a, b.consumed, f)
    BY <1>1 DEF SndOK
  <2>2. PICK fl : fl = Flushed(s)
    OBVIOUS
  <2>3. FlushedTo(n, s, fl, f)
    BY <2>1, <2>2, FlushedStep
  <2>4. PICK x : Settles(n, s.a, x, f) /\ SettledApp(s.a, fl.a, x)
    BY <2>3 DEF FlushedTo
  <2>5. StepT(n, fl) /\ fl.c \in Conn /\ Shape(fl) /\ AppT(n, fl.a)
    BY <2>3 DEF FlushedTo, StepT
  <2>6. PICK t : t = Told(s)
    OBVIOUS
  <2>7. PICK cbs \in Seq(Statuses) : cbs = Append(fl.a.disconnectCb, "ok") /\ cbs # <<>>
    <3>1. fl.a.disconnectCb \in Seq(Statuses) /\ "ok" \in Statuses
      BY <2>5 DEF AppT, Statuses, Reasons
    <3>2. Append(fl.a.disconnectCb, "ok") \in Seq(Statuses) /\ Append(fl.a.disconnectCb, "ok") # <<>>
      BY <3>1
    <3> QED
      BY <3>2
  <2>8. t = [fl EXCEPT !.a.disconnectCb = cbs, !.c.reason = "done"]
    <3>1. t = [fl EXCEPT !.a.disconnectCb = Append(@, "ok"), !.c.reason = "done"]
      BY <1>3, <2>2, <2>6 DEF Told
    <3> QED
      BY <3>1, <2>7
  <2>9. /\ Shape(t) /\ t.c = [fl.c EXCEPT !.reason = "done"] /\ t.a = [fl.a EXCEPT !.disconnectCb = cbs]
        /\ t.jam = fl.jam /\ t.out = fl.out /\ t.o = fl.o /\ t.ok = fl.ok /\ t.broken = fl.broken
    BY <2>8, <2>5 DEF Shape
  <2>10. t.c \in Conn /\ t.c.reason = "done"
    BY <2>5, <2>9 DEF Conn, Reasons
  <2>11. /\ t.a.submitted = s.a.submitted /\ t.a.sendCb = x /\ t.a.rcvd = s.a.rcvd /\ t.a.held = s.a.held
         /\ t.a.consumed = s.a.consumed /\ t.a.disconnectCb = cbs
    BY <2>4, <2>5, <2>9 DEF SettledApp, AppT
  <2>12. AppT(n, t.a)
    BY <2>5, <2>7, <2>9 DEF AppT
  <2>13. StepT(n, t)
    BY <2>5, <2>9, <2>10, <2>12, <2>3 DEF StepT, FlushedTo
  <2>14. Going(s.c, t.c) /\ t.c.sbuf = fl.c.sbuf /\ t.c.pending = fl.c.pending
    <3>1. /\ t.c.state = fl.c.state /\ t.c.passive = fl.c.passive /\ t.c.local = fl.c.local /\ t.c.foreign = fl.c.foreign
          /\ t.c.NXT = fl.c.NXT /\ t.c.UNA = fl.c.UNA /\ t.c.LCS = fl.c.LCS /\ t.c.pending = fl.c.pending
          /\ t.c.sbuf = fl.c.sbuf /\ t.c.CUR = fl.c.CUR /\ t.c.rLCS = fl.c.rLCS /\ t.c.rbuf = fl.c.rbuf
          /\ t.c.eack = fl.c.eack /\ t.c.conTimer = fl.c.conTimer
      BY <2>5, <2>9 DEF Conn
    <3>2. Beside(s.c, fl.c)
      BY <2>3 DEF FlushedTo
    <3> QED
      BY <3>1, <3>2 DEF Beside, Going, Closed
  <2>15. CbAt(n, s.a, f)
    BY <2>1 DEF SndAt
  <2>16. CbAt(n, t.a, s.a.submitted + 1) /\ CbMoves(n, s.a, t.a, b.consumed)
    BY <1>1, <2>4, <2>11, <2>15, SettlesAll
  <2>17. s.a.disconnectCb = <<>>
    BY <1>1, <1>3 DEF Ctl
  <2>18. PICK N \in Nat, S \in Nat : N = Count(n) /\ S = s.a.submitted /\ S <= N
    BY <1>1, SubmittedIs
  <2>19. AppOK(n, t.a, b)
    <3>1. RcvApp(Peer(n), t.a, b.submitted)
      BY <1>1, <2>11 DEF AppOK, RcvApp
    <3>2. S + 1 \in 1 .. t.a.submitted + 1 /\ CbAt(n, t.a, S + 1)
      BY <2>11, <2>16, <2>18
    <3>3. ASSUME NEW m \in 1 .. t.a.submitted PROVE t.a.sendCb[m] # <<>>
      <4>1. m \in 1 .. Len(Msgs[n]) /\ m < S + 1
        BY <2>11, <2>18 DEF Count
      <4>2. t.a.sendCb[m] \in Reported
        BY <4>1, <3>2 DEF CbAt
      <4> QED
        BY <4>2, ReportedIs
    <3>4. EndOf(n, t.a) <= First(n, b.consumed + 1) + SegMax
      BY <1>1, <2>11 DEF EndOf, AppOK
    <3> QED
      BY <3>1, <3>2, <3>3, <3>4 DEF AppOK
  <2>20. SndOK(n, t.c, t.a, b.consumed)
    <3>1. RingHolds(n, fl.c, {})
      BY <2>3 DEF FlushedTo
    <3>2. RingHolds(n, t.c, {})
      BY <3>1, <2>14, RingSame
    <3>3. SndNumbers(n, s.c, s.a, b.consumed, f, EndOf(n, s.a))
      BY <2>1 DEF SndAt
    <3>4. t.c.NXT = s.c.NXT /\ t.c.UNA = s.c.UNA /\ t.c.LCS = s.c.LCS /\ t.c.state # "OPEN"
      BY <2>14 DEF Going, Closed
    <3> QED
      BY <3>2, <3>3, <3>4, <2>11, <2>16, <1>1, AllSettled
  <2>21. t.c.pending = 0
    BY <2>3, <2>14 DEF FlushedTo
  <2>22. t.out = s.out
    BY <2>3, <2>9 DEF FlushedTo
  <2>23. t.c.reason \notin {"none", "ok"}
    BY <2>10
  <2>24. Stepped(n, s, t, r, b)
    BY <2>11, <2>13, <2>14, <2>16, <2>17, <2>19, <2>20, <2>21, <2>22, <2>23, GoingOK
  <2> QED
    BY <2>6, <2>11, <2>14, <2>22, <2>24 DEF Going
<1> QED
  BY <1>2, <1>3

-----------------------------------------------------------------------------
(* What a step of one node means to the other.                             *)

Rising(n, i, j) == First(n, i) \in Nat /\ First(n, j) \in Nat /\ First(n, i) <= First(n, j)

\* A later message begins no earlier.
LEMMA FirstRises ==
  ASSUME Fits, NEW n \in Node, NEW i \in Nat, NEW j \in Nat, i <= j, j <= Count(n)
  PROVE  Rising(n, i + 1, j + 1)
<1>1. PICK N \in Nat : N = Count(n)
  BY FirstIs
<1>2. i + 1 \in 1 .. N + 1 /\ j + 1 \in 1 .. N + 1 /\ i + 1 <= j + 1
  BY <1>1
<1>3. First(n, i + 1) \in Nat /\ First(n, j + 1) \in Nat
      /\ First(n, i + 1) + ((j + 1) - (i + 1)) <= First(n, j + 1)
  BY <1>1, <1>2, FirstMono
<1>4. PICK x \in Nat : x = First(n, i + 1)
  BY <1>3
<1>5. PICK y \in Nat : y = First(n, j + 1)
  BY <1>3
<1>6. x <= y
  <2>1. x + ((j + 1) - (i + 1)) <= y
    BY <1>3, <1>4, <1>5
  <2> QED
    BY <2>1
<1> QED
  BY <1>4, <1>5, <1>6 DEF Rising

\* The sender, when its peer has consumed more.
LEMMA ConsumedSnd ==
  ASSUME Fits, NEW n \in Node, NEW c \in Conn, NEW a, AppT(n, a), NEW q \in Nat, NEW z \in Nat,
         q <= z, z <= a.submitted, SndOK(n, c, a, q)
  PROVE  SndOK(n, c, a, z)
<1>1. PICK f \in 1 .. a.submitted + 1 : SndAt(n, c, a, q, f)
  BY DEF SndOK
<1>2. a.submitted \in 0 .. Count(n)
  BY DEF AppT, Count
<1>3. Rising(n, q + 1, z + 1)
  <2>1. PICK N \in Nat : N = Count(n)
    BY FirstIs
  <2>2. z <= N
    BY <2>1, <1>2
  <2> QED
    BY <2>1, <2>2, FirstRises
<1>4. PICK x \in Nat : x = First(n, q + 1)
  BY <1>3 DEF Rising
<1>5. PICK y \in Nat : y = First(n, z + 1)
  BY <1>3 DEF Rising
<1>6. PICK l \in Nat : l = Pos(n, c.LCS)
  BY PosOf DEF Conn
<1>7. SndNumbers(n, c, a, q, f, EndOf(n, a))
  BY <1>1 DEF SndAt
<1>8. l < y
  <2>1. l < x
    BY <1>4, <1>6, <1>7 DEF SndNumbers
  <2>2. x <= y
    BY <1>3, <1>4, <1>5 DEF Rising
  <2> QED
    BY <2>1, <2>2
<1>9. f <= q + 1 => f <= z + 1
  BY <1>2
<1>10. SndNumbers(n, c, a, z, f, EndOf(n, a))
  BY <1>7, <1>5, <1>6, <1>8, <1>9 DEF SndNumbers
<1> QED
  BY <1>1, <1>10 DEF SndAt, SndOK

\* The receiver, when its peer has submitted more.
LEMMA SubmittedRcv ==
  ASSUME Fits, NEW n \in Node, NEW c \in Conn, NEW a, AppT(n, a), NEW sub \in Nat, NEW z \in Nat,
         sub <= z, z <= Count(Peer(n)), RcvApp(Peer(n), a, sub), RcvOK(n, c, a, sub)
  PROVE  RcvOK(n, c, a, z)
<1>p. PICK p \in Node : p = Peer(n)
  BY PeerNode
<1>1. RcvHeld(p, c, a)
  BY <1>p DEF RcvOK
<1>N. PICK N \in Nat : N = Count(p)
  BY FirstIs
<1>2. Rising(p, sub + 1, z + 1)
  BY <1>N, <1>p, FirstRises
<1>3. PICK x \in Nat : x = First(p, sub + 1)
  BY <1>2 DEF Rising
<1>4. PICK y \in Nat : y = First(p, z + 1)
  BY <1>2 DEF Rising
<1>5. x <= y
  BY <1>2, <1>3, <1>4 DEF Rising
<1>6. PICK C \in Nat : C = Pos(p, c.CUR)
  BY <1>p, PosOf DEF Conn
<1>7. n = "B" \/ Est(n, c) =>
            /\ Pos(p, c.rLCS) <= Pos(p, c.CUR)
            /\ Pos(p, c.CUR) < First(p, z + 1)
            /\ Pos(p, c.rLCS) < First(p, a.consumed + 1)
  <2> SUFFICES ASSUME n = "B" \/ Est(n, c)
               PROVE /\ Pos(p, c.rLCS) <= Pos(p, c.CUR)
                     /\ Pos(p, c.CUR) < First(p, z + 1)
                     /\ Pos(p, c.rLCS) < First(p, a.consumed + 1)
    OBVIOUS
  <2>1. /\ Pos(p, c.rLCS) <= Pos(p, c.CUR)
        /\ Pos(p, c.CUR) < First(p, sub + 1)
        /\ Pos(p, c.rLCS) < First(p, a.consumed + 1)
    BY <1>p DEF RcvOK
  <2>2. C < x
    BY <2>1, <1>6, <1>3
  <2>3. C < y
    BY <2>2, <1>5
  <2> QED
    BY <2>1, <2>3, <1>6, <1>4
<1>8. c.state = "OPEN" => RcvAt(p, c, a, z, Pos(p, c.CUR))
  <2> SUFFICES ASSUME c.state = "OPEN" PROVE RcvAt(p, c, a, z, C)
    BY <1>6
  <2>1. PICK r \in Nat, W \in Nat, D \in Nat : Reach(p, a, sub, r, W, D)
    <3>1. a.rcvd \in Seq(Seq(Nat \X Nat)) /\ a.consumed \in Nat /\ sub \in 0 .. Count(p)
      BY <1>N, <1>p DEF AppT
    <3> QED
      BY <3>1, <1>p, ReachIs
  <2>2. RcvAt(p, c, a, sub, C)
    BY <1>p, <1>6 DEF RcvOK
  <2>3. RcvParts(p, c, sub, r, W, D, C)
    BY <2>1, <2>2, RcvAtIs
  <2>4. Reach(p, a, z, r, W, D)
    <3>1. First(p, z + 1) <= Total(p)
      <4>1. Rising(p, z + 1, N + 1)
        BY <1>N, <1>p, FirstRises
      <4> QED
        BY <4>1, <1>N DEF Rising, Total
    <3>2. D \in Nat /\ r <= z /\ z <= Count(p) /\ D <= y
      <4>1. r <= sub /\ D <= x
        BY <2>1, <1>3 DEF Reach
      <4> QED
        BY <4>1, <1>5, <1>p
    <3> QED
      BY <2>1, <3>1, <3>2, <1>4 DEF Reach
  <2>5. RcvFront(p, z, r, W, D, C)
    <3>1. D - 1 <= C /\ C <= W + SegMax /\ (IF r < sub THEN C < First(p, r + 2) - 1 ELSE C = D - 1)
      BY <2>3 DEF RcvParts, RcvFront
    <3>2. CASE r < sub
      <4>1. r < z /\ C < First(p, r + 2) - 1
        BY <3>1, <3>2
      <4> QED
        BY <3>1, <4>1 DEF RcvFront
    <3>3. CASE ~(r < sub) /\ r < z
      <4>1. C = D - 1
        BY <3>1, <3>3
      <4>2. r + 1 \in 1 .. Count(p)
        BY <3>3, <1>p, <1>N
      <4>3. First(p, r + 2) = D + Msgs[p][r + 1].fcnt /\ Msgs[p][r + 1].fcnt \in 1 .. SegMax
        <5>1. First(p, (r + 1) + 1) = First(p, r + 1) + Msgs[p][r + 1].fcnt /\ Msgs[p][r + 1].fcnt \in 1 .. SegMax
          BY <4>2, Message
        <5>2. (r + 1) + 1 = r + 2
          OBVIOUS
        <5>3. D = First(p, r + 1)
          BY <2>1 DEF Reach
        <5> QED
          BY <5>1, <5>2, <5>3
      <4>4. C < First(p, r + 2) - 1
        <5>1. PICK k \in Nat : k = Msgs[p][r + 1].fcnt /\ k >= 1
          BY <4>3
        <5>2. First(p, r + 2) = D + k
          BY <4>3, <5>1
        <5> QED
          BY <5>1, <5>2, <4>1
      <4> QED
        BY <3>1, <3>3, <4>4 DEF RcvFront
    <3>4. CASE ~(r < z)
      <4>1. ~(r < sub)
        BY <3>4
      <4> QED
        BY <3>1, <3>4, <4>1 DEF RcvFront
    <3> QED
      BY <3>2, <3>3, <3>4
  <2>6. RcvRing(p, c, z, W, D, C)
    <3> SUFFICES ASSUME NEW i \in W + 1 .. W + SegMax PROVE RcvBufOK(p, c.rbuf[Slot(p, i)], z, D, C, i)
      BY DEF RcvRing
    <3>1. RcvBufOK(p, c.rbuf[Slot(p, i)], sub, D, C, i)
      BY <2>3 DEF RcvParts, RcvRing
    <3>2. i < x => i < y
      BY <1>5
    <3> QED
      BY <3>1, <3>2, <1>3, <1>4 DEF RcvBufOK
  <2>7. RcvParts(p, c, z, r, W, D, C)
    BY <2>3, <2>5, <2>6 DEF RcvParts
  <2> QED
    BY <2>4, <2>7, RcvAtIs
<1>9. c.state = "OPEN" => (Pos(p, c.CUR) < Pos(p, c.rLCS) + SegMax => ~c.rbuf[Slot(p, Pos(p, c.CUR) + 1)].inUse)
  BY <1>p DEF RcvOK
<1> QED
  BY <1>p, <1>1, <1>7, <1>8, <1>9 DEF RcvOK

\* The upper layer, when its peer's has submitted and consumed more.
LEMMA MoreApp ==
  ASSUME Fits, NEW n \in Node, NEW a, AppT(n, a), NEW b, AppT(Peer(n), b), NEW e, AppT(Peer(n), e),
         AppOK(n, a, b), b.submitted <= e.submitted, b.consumed <= e.consumed, e.consumed <= a.submitted
  PROVE  AppOK(n, a, e)
<1>1. b.submitted \in Nat /\ e.submitted \in Nat /\ b.consumed \in Nat /\ e.consumed \in Nat
      /\ a.submitted \in 0 .. Count(n)
  BY DEF AppT, Count
<1>2. RcvApp(Peer(n), a, e.submitted)
  <2>1. PICK r \in Nat : r = Len(a.rcvd)
    BY LenProperties DEF AppT
  <2>2. r <= e.submitted
    BY <2>1, <1>1 DEF AppOK, RcvApp
  <2> QED
    BY <2>1, <2>2 DEF AppOK, RcvApp
<1>3. EndOf(n, a) <= First(n, e.consumed + 1) + SegMax
  <2>1. PICK N \in Nat : N = Count(n)
    BY FirstIs
  <2>2. e.consumed <= N
    BY <2>1, <1>1
  <2>3. Rising(n, b.consumed + 1, e.consumed + 1)
    BY <2>1, <2>2, <1>1, FirstRises
  <2>4. PICK x \in Nat : x = First(n, b.consumed + 1)
    BY <2>3 DEF Rising
  <2>5. PICK y \in Nat : y = First(n, e.consumed + 1)
    BY <2>3 DEF Rising
  <2>6. PICK z \in Nat : z = EndOf(n, a)
    <3>1. \A m \in Nat : First(n, m) \in Nat
      BY FirstIs
    <3>2. a.submitted + 1 \in Nat
      BY <1>1
    <3> QED
      BY <3>1, <3>2 DEF EndOf
  <2>7. z <= x + SegMax
    BY <2>4, <2>6 DEF AppOK
  <2>8. x <= y
    BY <2>3, <2>4, <2>5 DEF Rising
  <2> QED
    BY <2>5, <2>6, <2>7, <2>8
<1> QED
  BY <1>2, <1>3 DEF AppOK

\* A step of n changes c and a to d and e; r is the peer's connection, and Z are the segments under way.
\* The peer is not ahead of what the new connection knows.
Forward(n, c, d, r, Z) ==
  d # NoConn =>
     \/ Knows(n, c) /\ Pos(Peer(n), c.CUR) <= Pos(Peer(n), d.CUR)
     \/ (\A g \in Z : ~Normal(g)) /\ (r # NoConn => ~Est(Peer(n), r))

Upward(a, e) == a.submitted <= e.submitted /\ a.consumed <= e.consumed

ConnT(c) == c = NoConn \/ c \in Conn

\* The other node keeps its part of the invariant.
LEMMA OtherNode ==
  ASSUME Fits, NEW n \in Node, NEW c, NEW d, NEW a, NEW e, NEW r, NEW b, NEW Z,
         ConnT(c), ConnT(d), ConnT(r), AppT(n, a), AppT(n, e), AppT(Peer(n), b),
         NodeOK(Peer(n), r, b, c, a), AppOK(n, e, b), Upward(a, e), Forward(n, c, d, r, Z)
  PROVE  NodeOK(Peer(n), r, b, d, e)
<1>p. PICK p \in Node : p = Peer(n) /\ Peer(p) = n
  BY PeerNode
<1>1. e.consumed <= b.submitted /\ e.consumed \in Nat /\ a.consumed \in Nat /\ b.submitted \in 0 .. Count(p)
      /\ a.submitted \in Nat /\ e.submitted \in 0 .. Count(n)
  <2>1. e.consumed \in Nat /\ a.consumed \in Nat /\ b.submitted \in 0 .. Count(p)
        /\ a.submitted \in Nat /\ e.submitted \in 0 .. Count(n)
    BY <1>p DEF AppT, Count
  <2>2. PICK k \in Nat : k = Len(e.rcvd)
    BY LenProperties DEF AppT
  <2>3. k <= b.submitted /\ e.consumed <= k
    BY <1>p, <2>2 DEF AppOK, RcvApp
  <2> QED
    BY <2>1, <2>2, <2>3
<1>2. AppOK(p, b, e)
  <2>1. AppOK(p, b, a) /\ AppT(p, b) /\ AppT(Peer(p), a) /\ AppT(Peer(p), e)
    BY <1>p DEF NodeOK
  <2> QED
    BY <2>1, <1>p, <1>1, MoreApp DEF Upward
<1>3. CASE r = NoConn
  BY <1>2, <1>3, <1>p DEF NodeOK
<1>4. CASE r # NoConn
  <2>1. ConnOK(p, r, b, c, a) /\ r \in Conn
    BY <1>4, <1>p DEF NodeOK, ConnT
  <2>2. SndOK(p, r, b, e.consumed)
    <3>1. SndOK(p, r, b, a.consumed) /\ AppT(p, b)
      BY <2>1, <1>p DEF ConnOK
    <3> QED
      BY <3>1, <2>1, <1>p, <1>1, ConsumedSnd DEF Upward
  <2>3. RcvOK(p, r, b, e.submitted)
    <3>1. RcvOK(p, r, b, a.submitted) /\ AppT(p, b) /\ RcvApp(Peer(p), b, a.submitted)
      BY <2>1, <1>p DEF ConnOK, NodeOK, AppOK
    <3>2. e.submitted \in Nat /\ e.submitted <= Count(Peer(p))
      BY <1>p, <1>1
    <3> QED
      BY <3>1, <3>2, <2>1, <1>p, <1>1, SubmittedRcv DEF Upward
  <2>4. Knows(Peer(p), d) => Pos(p, r.UNA) <= Pos(p, d.CUR) + 1
    <3> SUFFICES ASSUME Knows(n, d) PROVE Pos(p, r.UNA) <= Pos(p, d.CUR) + 1
      BY <1>p
    <3>1. d \in Conn /\ d # NoConn
      BY DEF Knows, ConnT
    <3>2. PICK G \in Nat : G = Pos(p, d.CUR)
      BY <3>1, <1>p, PosOf DEF Conn
    <3>3. CASE Knows(n, c) /\ Pos(p, c.CUR) <= Pos(p, d.CUR)
      <4>1. c \in Conn
        BY <3>3 DEF Knows, ConnT
      <4>2. PICK C \in Nat : C = Pos(p, c.CUR)
        BY <4>1, <1>p, PosOf DEF Conn
      <4>3. PICK U \in Nat : U = Pos(p, r.UNA)
        BY <2>1, <1>p, PosOf DEF Conn
      <4>4. U <= C + 1
        BY <2>1, <3>3, <4>2, <4>3, <1>p DEF ConnOK
      <4>5. C <= G
        BY <3>2, <3>3, <4>2
      <4> QED
        BY <3>2, <4>3, <4>4, <4>5
    <3>4. CASE ~Est(p, r)
      <4>1. r.UNA = Iss[p]
        BY <3>4 DEF Est
      <4>2. Pos(p, Iss[p]) = 0
        BY IssAt
      <4> QED
        BY <4>1, <4>2, <3>2
    <3> QED
      BY <3>1, <3>3, <3>4, <1>4, <1>p DEF Forward
  <2>5. Ctl(p, r, b)
    BY <2>1 DEF ConnOK
  <2>6. ConnOK(p, r, b, d, e)
    BY <2>2, <2>3, <2>4, <2>5 DEF ConnOK
  <2> QED
    BY <2>6, <1>2, <1>4, <1>p DEF NodeOK
<1> QED
  BY <1>3, <1>4

\* The end of what n has submitted, before and after a step.
LEMMA EndRises ==
  ASSUME Fits, NEW n \in Node, NEW a, NEW e, AppT(n, a), AppT(n, e), a.submitted <= e.submitted
  PROVE  EndOf(n, a) \in Nat /\ EndOf(n, e) \in Nat /\ EndOf(n, a) <= EndOf(n, e)
<1>1. PICK N \in Nat : N = Count(n)
  BY FirstIs
<1>2. a.submitted \in Nat /\ e.submitted \in Nat /\ e.submitted <= N
  BY <1>1 DEF AppT, Count
<1>3. Rising(n, a.submitted + 1, e.submitted + 1)
  BY <1>1, <1>2, FirstRises
<1> QED
  BY <1>3 DEF Rising, EndOf

\* What a normal segment needs when its sender's peer goes on.
LEMMA DataLater ==
  ASSUME NEW n, NEW seg, NEW X \in Nat, NEW Y \in Nat, X <= Y, Pos(n, seg.seq) \in Nat, DataOK(n, seg, X)
  PROVE  DataOK(n, seg, Y)
<1>1. PICK z \in Nat : z = Pos(n, seg.seq)
  OBVIOUS
<1>2. z < Y
  BY <1>1 DEF DataOK
<1> QED
  BY <1>1, <1>2 DEF DataOK

\* A segment of node n that is under way stays one that can be expected.
LEMMA OwnSegment ==
  ASSUME Fits, NEW n \in Node, NEW c, NEW d, NEW a, NEW e, NEW r, NEW b, NEW Z,
         ConnT(c), ConnT(d), ConnT(r), AppT(n, a), AppT(n, e), AppT(Peer(n), b),
         AppOK(n, e, b), Upward(a, e), Forward(n, c, d, r, Z),
         NEW seg \in Z, seg \in Segs, SegOK(n, seg, c, a, r, b)
  PROVE  SegOK(n, seg, d, e, r, b)
<1>1. CASE IsRst(seg) \/ IsSyn(n, seg)
  BY <1>1 DEF SegOK
<1>2. CASE IsNormal(n, seg, c, a, r, b)
  <2>p. PICK p \in Node : p = Peer(n)
    BY PeerNode
  <2>1. PICK X \in Nat : X = EndOf(n, a)
    BY EndRises DEF Upward
  <2>2. PICK Y \in Nat : Y = EndOf(n, e)
    BY EndRises DEF Upward
  <2>3. X <= Y
    BY <2>1, <2>2, EndRises DEF Upward
  <2>s. seg.seq \in Seqs /\ seg.ack \in Seqs /\ seg.lcs \in Seqs /\ seg.acknxt \in Seqs
    BY DEF Segs
  <2>4. PICK z \in Nat : z = Pos(n, seg.seq)
    BY <2>s, PosOf
  <2>5. z \in 1 .. Y
    <3>1. z \in 1 .. X
      BY <1>2, <2>1, <2>4 DEF IsNormal
    <3> QED
      BY <3>1, <2>3
  <2>6. seg.data # NoData => DataOK(n, seg, Y)
    <3>1. seg.data # NoData => DataOK(n, seg, X)
      BY <1>2, <2>1 DEF IsNormal
    <3> QED
      BY <3>1, <2>3, <2>4, DataLater
  <2>7. PICK N \in Nat : N = Count(p)
    BY FirstIs
  <2>8. Rising(p, a.consumed + 1, e.consumed + 1)
    <3>1. e.consumed \in Nat /\ a.consumed \in Nat /\ b.submitted \in 0 .. N
      BY <2>p, <2>7 DEF AppT, Count
    <3>2. PICK k \in Nat : k = Len(e.rcvd)
      BY LenProperties DEF AppT
    <3>3. k <= b.submitted /\ e.consumed <= k
      BY <3>2 DEF AppOK, RcvApp
    <3>4. e.consumed <= N
      BY <3>1, <3>2, <3>3
    <3> QED
      BY <3>1, <3>4, <2>7, FirstRises DEF Upward
  <2>9. PICK v \in Nat : v = First(p, a.consumed + 1)
    BY <2>8 DEF Rising
  <2>10. PICK w \in Nat : w = First(p, e.consumed + 1)
    BY <2>8 DEF Rising
  <2>11. PICK l \in Nat : l = Pos(p, seg.lcs)
    BY <2>s, <2>p, PosOf
  <2>12. l < w
    <3>1. l < v
      BY <1>2, <2>9, <2>11, <2>p DEF IsNormal
    <3>2. v <= w
      BY <2>8, <2>9, <2>10 DEF Rising
    <3> QED
      BY <3>1, <3>2
  <2>13. d # NoConn => Pos(p, seg.ack) <= Pos(p, d.CUR)
    <3> SUFFICES ASSUME d # NoConn PROVE Pos(p, seg.ack) <= Pos(p, d.CUR)
      OBVIOUS
    <3>1. Knows(n, c) /\ Pos(p, c.CUR) <= Pos(p, d.CUR)
      BY <1>2, <2>p DEF Forward, IsNormal
    <3>2. c \in Conn /\ d \in Conn /\ c # NoConn
      BY <3>1 DEF Knows, ConnT
    <3>3. PICK C \in Nat : C = Pos(p, c.CUR)
      BY <3>2, <2>p, PosOf DEF Conn
    <3>4. PICK G \in Nat : G = Pos(p, d.CUR)
      BY <3>2, <2>p, PosOf DEF Conn
    <3>5. PICK k \in Nat : k = Pos(p, seg.ack)
      BY <2>s, <2>p, PosOf
    <3>6. k <= C
      BY <1>2, <3>2, <3>3, <3>5, <2>p DEF IsNormal
    <3>7. C <= G
      BY <3>1, <3>3, <3>4
    <3> QED
      BY <3>4, <3>5, <3>6, <3>7
  <2>14. PICK m \in Nat : m = Pos(n, seg.acknxt)
    BY <2>s, PosOf
  <2>15. m <= Y
    <3>1. m <= X
      BY <1>2, <2>1, <2>14 DEF IsNormal
    <3> QED
      BY <3>1, <2>3
  <2>16. IsNormal(n, seg, d, e, r, b)
    BY <1>2, <2>p, <2>2, <2>4, <2>5, <2>6, <2>10, <2>11, <2>12, <2>13, <2>14, <2>15 DEF IsNormal
  <2> QED
    BY <2>16 DEF SegOK
<1> QED
  BY <1>1, <1>2 DEF SegOK

\* So does a segment of its peer.
LEMMA PeerSegment ==
  ASSUME Fits, NEW n \in Node, NEW c, NEW d, NEW a, NEW e, NEW r, NEW b, NEW Z,
         ConnT(c), ConnT(d), ConnT(r), AppT(n, a), AppT(n, e), AppT(Peer(n), b),
         Upward(a, e), Forward(n, c, d, r, Z),
         NEW seg \in Z, seg \in Segs, SegOK(Peer(n), seg, r, b, c, a)
  PROVE  SegOK(Peer(n), seg, r, b, d, e)
<1>p. PICK p \in Node : p = Peer(n) /\ Peer(p) = n
  BY PeerNode
<1>1. CASE IsRst(seg) \/ IsSyn(p, seg)
  BY <1>1, <1>p DEF SegOK
<1>2. CASE IsNormal(p, seg, r, b, c, a)
  <2>1. PICK X \in Nat : X = EndOf(n, a)
    BY EndRises DEF Upward
  <2>2. PICK Y \in Nat : Y = EndOf(n, e)
    BY EndRises DEF Upward
  <2>3. X <= Y
    BY <2>1, <2>2, EndRises DEF Upward
  <2>s. seg.ack \in Seqs /\ seg.acknxt \in Seqs
    BY DEF Segs
  <2>4. PICK k \in Nat : k = Pos(n, seg.ack)
    BY <2>s, PosOf
  <2>5. k < Y
    <3>1. k < X
      BY <1>2, <1>p, <2>1, <2>4 DEF IsNormal
    <3> QED
      BY <3>1, <2>3
  <2>6. Knows(n, d) => Pos(p, seg.acknxt) <= Pos(p, d.CUR) + 1
    <3> SUFFICES ASSUME Knows(n, d) PROVE Pos(p, seg.acknxt) <= Pos(p, d.CUR) + 1
      OBVIOUS
    <3>1. Knows(n, c) /\ Pos(p, c.CUR) <= Pos(p, d.CUR)
      BY <1>2, <1>p DEF Forward, IsNormal, Knows
    <3>2. c \in Conn /\ d \in Conn
      BY <3>1 DEF Knows, ConnT
    <3>3. PICK C \in Nat : C = Pos(p, c.CUR)
      BY <3>2, <1>p, PosOf DEF Conn
    <3>4. PICK G \in Nat : G = Pos(p, d.CUR)
      BY <3>2, <1>p, PosOf DEF Conn
    <3>5. PICK m \in Nat : m = Pos(p, seg.acknxt)
      BY <2>s, <1>p, PosOf
    <3>6. m <= C + 1
      BY <1>2, <3>1, <3>3, <3>5, <1>p DEF IsNormal
    <3>7. C <= G
      BY <3>1, <3>3, <3>4
    <3> QED
      BY <3>4, <3>5, <3>6, <3>7
  <2>7. IsNormal(p, seg, r, b, d, e)
    BY <1>2, <1>p, <2>2, <2>4, <2>5, <2>6 DEF IsNormal
  <2> QED
    BY <2>7, <1>p DEF SegOK
<1> QED
  BY <1>1, <1>2, <1>p DEF SegOK

-----------------------------------------------------------------------------
(* The invariant after a step of one node.                                 *)

Silent(Z) == \A g \in Z : ~Normal(g)
UnderWay == net["A"] \cup net["B"]
SilentPeer(n) == Silent(UnderWay) /\ (conn[Peer(n)] # NoConn => ~Est(Peer(n), conn[Peer(n)]))
Unknowing(n) == records[n] = 0 \/ (n = "A" /\ conn[n] # NoConn /\ ~Est(n, conn[n]))

\* Before a node knows its peer, nothing but SYNs and RSTs is under way, and its peer is not open.
LEMMA SilentBefore ==
  ASSUME ArdpInv, NEW n \in Node, Unknowing(n)
  PROVE  SilentPeer(n)
<1>1. Phase /\ Record
  BY DEF ArdpInv
<1>2. CASE n = "A"
  <2>1. NotOpened
    BY <1>2 DEF Unknowing, NotOpened
  <2>2. conn["B"] # NoConn => ~Est("B", conn["B"])
    BY <1>1, <2>1 DEF Phase
  <2>3. \A m \in Node : \A seg \in net[m] : ~Normal(seg)
    BY <1>1, <2>1 DEF Phase
  <2>4. Silent(UnderWay)
    BY <2>3 DEF Silent, UnderWay, Node
  <2> QED
    BY <2>2, <2>4, <1>2 DEF SilentPeer, Peer
<1>3. CASE n = "B"
  <2>1. records["B"] = 0
    BY <1>3 DEF Unknowing
  <2>2. /\ conn["A"] # NoConn => ~Est("A", conn["A"])
        /\ \A seg \in net["A"] : IsRst(seg)
        /\ \A seg \in net["B"] : ~Normal(seg)
    BY <1>1, <2>1 DEF Phase
  <2>3. Silent(UnderWay)
    BY <2>2 DEF Silent, UnderWay, IsRst, Normal
  <2> QED
    BY <2>2, <2>3, <1>3 DEF SilentPeer, Peer
<1> QED
  BY <1>2, <1>3 DEF Node

\* Node n says nothing and is not open.
Silence(n, d, e, out) == Silent(out) /\ e.submitted = 0 /\ (d # NoConn => ~Est(n, d))

\* A step of node n that leaves d, e and out, and has made z connection records.
NodeStep(n, d, e, out, z) ==
  /\ ConnT(d) /\ AppT(n, e) /\ NodeOK(n, d, e, conn[Peer(n)], app[Peer(n)])
  /\ out \subseteq Segs /\ IsFiniteSet(out)
  /\ \A g \in out : SegOK(n, g, d, e, conn[Peer(n)], app[Peer(n)])
  /\ Upward(app[n], e) /\ Forward(n, conn[n], d, conn[Peer(n)], UnderWay)
  /\ z \in {records[n], 1} /\ (d # NoConn => z = 1)
  /\ z = 0 => e.rcvd = <<>> /\ e.disconnectCb = <<>>

\* And what it does to the phase in which the connection is.
Phased(n, d, e, out, z) ==
  /\ conn[n] # NoConn /\ Est(n, conn[n]) /\ d # NoConn => Est(n, d)
  /\ conn[n] = NoConn /\ d # NoConn => records[n] = 0
  /\ NotOpened => Silence(n, d, e, out) \/ (n = "A" /\ d # NoConn /\ Est(n, d) /\ records["B"] # 0)
  /\ n = "A" => conn[n] # NoConn \/ records[n] = 0 \/ (d = NoConn /\ out = {} /\ e = app[n])
  /\ z = 0 => e.submitted = 0 /\ \A g \in out : IsRst(g)

Took(n, d, e, j, out, arrived, brk, z) ==
  /\ conn' = [conn EXCEPT ![n] = d]
  /\ app' = [app EXCEPT ![n] = e]
  /\ jam' = [jam EXCEPT ![n] = j]
  /\ net' = [net EXCEPT ![n] = @ \ arrived, ![Peer(n)] = @ \cup out]
  /\ Cardinality(net[Peer(n)] \cup out) <= NetMax[Peer(n)]
  /\ broken' = brk
  /\ records' = [records EXCEPT ![n] = z]
  /\ j \in BOOLEAN /\ brk \subseteq Allowed

\* The state after such a step, place by place.
After(n, p, d, e, out, arrived, z) ==
  /\ conn'[n] = d /\ conn'[p] = conn[p] /\ app'[n] = e /\ app'[p] = app[p]
  /\ net'[n] = net[n] \ arrived /\ net'[p] = net[p] \cup out
  /\ records'[n] = z /\ records'[p] = records[p]

\* A step of node n leaves this state.
LEMMA AfterStep ==
  ASSUME ArdpInv, NEW n \in Node, NEW p \in Node, p = Peer(n), NEW d, NEW e, NEW j, NEW out, NEW arrived, NEW brk, NEW z,
         Took(n, d, e, j, out, arrived, brk, z)
  PROVE  After(n, p, d, e, out, arrived, z)
<1>1. n # p
  BY PeerNode
<1>2. DOMAIN conn = Node /\ DOMAIN app = Node /\ DOMAIN net = Node /\ DOMAIN records = Node
  <2>1. Types
    BY DEF ArdpInv
  <2>2. conn = [m \in Node |-> conn[m]] /\ app = [m \in Node |-> app[m]] /\ net = [m \in Node |-> net[m]]
        /\ records \in [Node -> {0, 1}]
    BY <2>1 DEF Types
  <2> QED
    BY <2>2
<1>3. conn'[n] = d /\ conn'[p] = conn[p]
  BY <1>1, <1>2 DEF Took
<1>4. app'[n] = e /\ app'[p] = app[p]
  BY <1>1, <1>2 DEF Took
<1>5. net'[n] = net[n] \ arrived /\ net'[p] = net[p] \cup out
  BY <1>1, <1>2 DEF Took
<1>6. records'[n] = z /\ records'[p] = records[p]
  BY <1>1, <1>2 DEF Took
<1> QED
  BY <1>3, <1>4, <1>5, <1>6 DEF After

\* The types of the variables after a step.
LEMMA TypesAfter ==
  ASSUME ArdpInv, NEW n \in Node, NEW d, NEW e, NEW j, NEW out, NEW arrived, NEW brk, NEW z,
         Took(n, d, e, j, out, arrived, brk, z), NodeStep(n, d, e, out, z)
  PROVE  Types'
<1>p. PICK p \in Node : p = Peer(n) /\ n # p /\ \A m \in Node : m = n \/ m = p
  BY PeerNode DEF Node, Peer
<1>0. Types
  BY DEF ArdpInv
<1>1. After(n, p, d, e, out, arrived, z)
  BY <1>p, AfterStep
<1>2. conn' = [m \in Node |-> conn'[m]] /\ \A m \in Node : conn'[m] # NoConn => conn'[m] \in Conn
  <2>1. conn = [m \in Node |-> conn[m]] /\ conn' = [conn EXCEPT ![n] = d]
    BY <1>0 DEF Types, Took
  <2>2. conn' = [m \in Node |-> conn'[m]]
    BY <2>1
  <2>3. conn'[n] # NoConn => conn'[n] \in Conn
    BY <1>1 DEF After, NodeStep, ConnT
  <2>4. conn'[p] # NoConn => conn'[p] \in Conn
    BY <1>0, <1>1 DEF After, Types
  <2> QED
    BY <2>2, <2>3, <2>4, <1>p
<1>3. app' = [m \in Node |-> app'[m]] /\ \A m \in Node : AppT(m, app'[m])
  <2>1. app = [m \in Node |-> app[m]] /\ app' = [app EXCEPT ![n] = e]
    BY <1>0 DEF Types, Took
  <2>2. app' = [m \in Node |-> app'[m]]
    BY <2>1
  <2>3. AppT(n, app'[n])
    BY <1>1 DEF After, NodeStep
  <2>4. AppT(p, app'[p])
    BY <1>0, <1>1 DEF After, Types
  <2> QED
    BY <2>2, <2>3, <2>4, <1>p
<1>4. jam' \in [Node -> BOOLEAN]
  BY <1>0 DEF Types, Took
<1>5. net' = [m \in Node |-> net'[m]]
  <2>1. net = [m \in Node |-> net[m]] /\ net' = [net EXCEPT ![n] = @ \ arrived, ![Peer(n)] = @ \cup out]
    BY <1>0 DEF Types, Took
  <2> QED
    BY <2>1
<1>6. \A m \in Node : net'[m] \subseteq Segs /\ IsFiniteSet(net'[m]) /\ Cardinality(net'[m]) <= NetMax[m]
  <2>1. \A m \in Node : net[m] \subseteq Segs /\ IsFiniteSet(net[m]) /\ Cardinality(net[m]) <= NetMax[m]
    BY <1>0 DEF Types
  <2>2. net'[n] \subseteq Segs /\ IsFiniteSet(net'[n]) /\ Cardinality(net'[n]) <= NetMax[n]
    <3>1. net'[n] = net[n] \ arrived /\ net'[n] \subseteq net[n]
      BY <1>1 DEF After
    <3>2. IsFiniteSet(net'[n]) /\ Cardinality(net'[n]) <= Cardinality(net[n])
      BY <3>1, <2>1, FS_Subset
    <3>3. PICK x \in Nat : x = Cardinality(net[n])
      BY <2>1, FS_CardinalityType
    <3>4. PICK y \in Nat : y = Cardinality(net'[n])
      BY <3>2, FS_CardinalityType
    <3>5. PICK v \in Nat : v = NetMax[n]
      BY BoundAssumption
    <3>6. y <= v
      <4>1. y <= x /\ x <= v
        BY <3>2, <3>3, <3>4, <3>5, <2>1
      <4> QED
        BY <4>1
    <3> QED
      BY <3>1, <3>2, <3>4, <3>5, <3>6, <2>1
  <2>3. net'[p] \subseteq Segs /\ IsFiniteSet(net'[p]) /\ Cardinality(net'[p]) <= NetMax[p]
    <3>1. net'[p] = net[p] \cup out /\ out \subseteq Segs /\ IsFiniteSet(out)
      BY <1>1 DEF After, NodeStep
    <3>2. IsFiniteSet(net[p] \cup out)
      BY <3>1, <2>1, FS_Union
    <3>3. Cardinality(net[p] \cup out) <= NetMax[p]
      BY <1>p DEF Took
    <3> QED
      BY <3>1, <3>2, <3>3, <2>1
  <2> QED
    BY <2>2, <2>3, <1>p
<1>7. records' \in [Node -> {0, 1}]
  <2>1. records \in [Node -> {0, 1}] /\ z \in {0, 1} /\ records' = [records EXCEPT ![n] = z]
    BY <1>0 DEF Types, Took, NodeStep
  <2> QED
    BY <2>1
<1>8. broken' \subseteq Allowed
  BY DEF Took
<1> QED
  BY <1>2, <1>3, <1>4, <1>5, <1>6, <1>7, <1>8 DEF Types

\* Both nodes and all segments keep their part.
LEMMA NodesAfter ==
  ASSUME Fits, ArdpInv, NEW n \in Node, NEW d, NEW e, NEW j, NEW out, NEW arrived, NEW brk, NEW z,
         Took(n, d, e, j, out, arrived, brk, z), NodeStep(n, d, e, out, z)
  PROVE  Nodes' /\ Nets'
<1>p. PICK p \in Node : p = Peer(n) /\ n # p /\ Peer(p) = n /\ \A m \in Node : m = n \/ m = p
  BY PeerNode DEF Node, Peer
<1>0. Types /\ Nodes /\ Nets
  BY DEF ArdpInv
<1>1. After(n, p, d, e, out, arrived, z)
  BY <1>p, AfterStep
<1>c. PICK c : c = conn[n]
  OBVIOUS
<1>a. PICK a : a = app[n]
  OBVIOUS
<1>r. PICK r : r = conn[p]
  OBVIOUS
<1>b. PICK b : b = app[p]
  OBVIOUS
<1>z. PICK Z : Z = UnderWay
  OBVIOUS
<1>2. /\ ConnT(c) /\ ConnT(r) /\ ConnT(d) /\ AppT(n, a) /\ AppT(n, e) /\ AppT(Peer(n), b)
      /\ AppOK(n, e, b) /\ Upward(a, e) /\ Forward(n, c, d, r, Z)
  <2>1. ConnT(c) /\ ConnT(r) /\ AppT(n, a) /\ AppT(Peer(n), b)
    BY <1>0, <1>c, <1>a, <1>r, <1>b, <1>p DEF Types, ConnT
  <2>2. ConnT(d) /\ AppT(n, e) /\ NodeOK(n, d, e, r, b) /\ Upward(a, e) /\ Forward(n, c, d, r, Z)
    BY <1>c, <1>a, <1>r, <1>b, <1>z, <1>p DEF NodeStep
  <2>3. AppOK(n, e, b)
    BY <2>2 DEF NodeOK
  <2> QED
    BY <2>1, <2>2, <2>3
<1>3. /\ NodeOK(n, d, e, r, b) /\ NodeOK(Peer(n), r, b, c, a)
      /\ \A g \in out : SegOK(n, g, d, e, r, b)
      /\ \A g \in net[p] : SegOK(n, g, c, a, r, b)
      /\ \A g \in net[n] : SegOK(Peer(n), g, r, b, c, a)
      /\ net[n] \subseteq Z /\ net[p] \subseteq Z /\ net[n] \subseteq Segs /\ net[p] \subseteq Segs
  <2>1. NodeOK(n, d, e, r, b) /\ \A g \in out : SegOK(n, g, d, e, r, b)
    BY <1>p, <1>r, <1>b DEF NodeStep
  <2>2. NodeOK(p, r, b, c, a)
    BY <1>0, <1>p, <1>c, <1>a, <1>r, <1>b DEF Nodes
  <2>3. /\ \A g \in net[p] : SegOK(n, g, c, a, r, b)
        /\ \A g \in net[n] : SegOK(p, g, r, b, c, a)
    BY <1>0, <1>p, <1>c, <1>a, <1>r, <1>b DEF Nets
  <2>4. net[n] \subseteq Z /\ net[p] \subseteq Z
    BY <1>z, <1>p DEF UnderWay, Node
  <2>5. net[n] \subseteq Segs /\ net[p] \subseteq Segs
    BY <1>0, <1>p DEF Types
  <2> QED
    BY <2>1, <2>2, <2>3, <2>4, <2>5, <1>p
<1>4. NodeOK(Peer(n), r, b, d, e)
  BY <1>2, <1>3, OtherNode
<1>5. \A g \in net[p] : SegOK(n, g, d, e, r, b)
  <2> SUFFICES ASSUME NEW g \in net[p] PROVE SegOK(n, g, d, e, r, b)
    OBVIOUS
  <2>1. g \in Z /\ g \in Segs /\ SegOK(n, g, c, a, r, b)
    BY <1>3
  <2> QED
    BY <2>1, <1>2, OwnSegment
<1>6. \A g \in net[n] : SegOK(Peer(n), g, r, b, d, e)
  <2> SUFFICES ASSUME NEW g \in net[n] PROVE SegOK(Peer(n), g, r, b, d, e)
    OBVIOUS
  <2>1. g \in Z /\ g \in Segs /\ SegOK(Peer(n), g, r, b, c, a)
    BY <1>3
  <2> QED
    BY <2>1, <1>2, PeerSegment
<1>7. Nodes'
  <2>1. NodeOK(n, conn'[n], app'[n], conn'[Peer(n)], app'[Peer(n)])
    BY <1>1, <1>3, <1>p, <1>r, <1>b DEF After
  <2>2. NodeOK(p, conn'[p], app'[p], conn'[Peer(p)], app'[Peer(p)])
    BY <1>1, <1>4, <1>p, <1>r, <1>b DEF After
  <2> QED
    BY <2>1, <2>2, <1>p DEF Nodes
<1>8. Nets'
  <2>1. \A g \in net'[Peer(n)] : SegOK(n, g, conn'[n], app'[n], conn'[Peer(n)], app'[Peer(n)])
    <3> SUFFICES ASSUME NEW g \in net[p] \cup out PROVE SegOK(n, g, d, e, r, b)
      BY <1>1, <1>p, <1>r, <1>b DEF After
    <3> QED
      BY <1>3, <1>5
  <2>2. \A g \in net'[Peer(p)] : SegOK(p, g, conn'[p], app'[p], conn'[Peer(p)], app'[Peer(p)])
    <3> SUFFICES ASSUME NEW g \in net[n] \ arrived PROVE SegOK(p, g, r, b, d, e)
      BY <1>1, <1>p, <1>r, <1>b DEF After
    <3> QED
      BY <1>6, <1>p
  <2> QED
    BY <2>1, <2>2, <1>p DEF Nets
<1> QED
  BY <1>7, <1>8

\* What is known of a node without a connection record.
LEMMA RecordAfter ==
  ASSUME ArdpInv, NEW n \in Node, NEW d, NEW e, NEW j, NEW out, NEW arrived, NEW brk, NEW z,
         Took(n, d, e, j, out, arrived, brk, z), NodeStep(n, d, e, out, z), Phased(n, d, e, out, z)
  PROVE  Record'
<1>p. PICK p \in Node : p = Peer(n) /\ n # p /\ \A m \in Node : m = n \/ m = p
  BY PeerNode DEF Node, Peer
<1>0. Record
  BY DEF ArdpInv
<1>1. After(n, p, d, e, out, arrived, z)
  BY <1>p, AfterStep
<1>2. /\ conn'[n] # NoConn => records'[n] = 1
      /\ records'[n] = 0 => app'[n].submitted = 0 /\ app'[n].rcvd = <<>> /\ app'[n].disconnectCb = <<>>
  BY <1>1 DEF After, NodeStep, Phased
<1>3. /\ conn'[p] # NoConn => records'[p] = 1
      /\ records'[p] = 0 => app'[p].submitted = 0 /\ app'[p].rcvd = <<>> /\ app'[p].disconnectCb = <<>>
  BY <1>0, <1>1, <1>p DEF After, Record
<1> QED
  BY <1>2, <1>3, <1>p DEF Record

\* The phase of the connection that a step of A leaves.
LEMMA PhaseAfterA ==
  ASSUME ArdpInv, NEW n \in Node, n = "A", NEW d, NEW e, NEW j, NEW out, NEW arrived, NEW brk, NEW z,
         Took(n, d, e, j, out, arrived, brk, z), NodeStep(n, d, e, out, z), Phased(n, d, e, out, z)
  PROVE  Phase'
<1>p. PICK p \in Node : p = Peer(n) /\ p = "B"
  BY DEF Node, Peer
<1>0. Record /\ Phase /\ Types
  BY DEF ArdpInv
<1>1. After(n, p, d, e, out, arrived, z)
  BY <1>p, AfterStep
<1>2. /\ conn'["A"] = d /\ conn'["B"] = conn["B"] /\ app'["A"] = e /\ app'["B"] = app["B"]
      /\ net'["A"] = net["A"] \ arrived /\ net'["B"] = net["B"] \cup out
      /\ records'["A"] = z /\ records'["B"] = records["B"]
  BY <1>1, <1>p DEF After
<1>3. NotOpened' => NotOpened
  <2> SUFFICES ASSUME z = 0 \/ (d # NoConn /\ ~Est("A", d)) PROVE NotOpened
    BY <1>2 DEF NotOpened
  <2>1. CASE records["A"] = 0
    BY <2>1 DEF NotOpened
  <2>2. CASE records["A"] # 0
    <3>1. z = 1
      <4>1. records["A"] \in {0, 1}
        BY <1>0 DEF Types, Node
      <4> QED
        BY <4>1, <2>2 DEF NodeStep
    <3>2. d # NoConn /\ ~Est("A", d)
      BY <3>1
    <3>3. conn["A"] # NoConn /\ ~Est("A", conn["A"])
      BY <3>2, <2>2 DEF Phased
    <3> QED
      BY <3>3 DEF NotOpened
  <2> QED
    BY <2>1, <2>2
<1>4. NotOpened' => Silence("A", d, e, out)
  <2> SUFFICES ASSUME z = 0 \/ (d # NoConn /\ ~Est("A", d)) PROVE Silence("A", d, e, out)
    BY <1>2 DEF NotOpened
  <2>1. NotOpened
    BY <1>2, <1>3 DEF NotOpened
  <2>2. z = 0 => d = NoConn
    BY DEF NodeStep
  <2> QED
    BY <2>1, <2>2 DEF Phased
<1>5. NotOpened' => /\ app'["A"].submitted = 0 /\ app'["B"].submitted = 0
                    /\ conn'["B"] # NoConn => ~Est("B", conn'["B"])
                    /\ \A m \in Node : \A seg \in net'[m] : ~Normal(seg)
  <2> SUFFICES ASSUME NotOpened, Silence("A", d, e, out)
               PROVE  /\ e.submitted = 0 /\ app["B"].submitted = 0
                      /\ conn["B"] # NoConn => ~Est("B", conn["B"])
                      /\ \A seg \in net["A"] \ arrived : ~Normal(seg)
                      /\ \A seg \in net["B"] \cup out : ~Normal(seg)
    BY <1>2, <1>3, <1>4 DEF Node
  <2>1. /\ app["B"].submitted = 0 /\ (conn["B"] # NoConn => ~Est("B", conn["B"]))
        /\ \A m \in Node : \A seg \in net[m] : ~Normal(seg)
    BY <1>0 DEF Phase
  <2> QED
    BY <2>1 DEF Silence, Silent, Node
<1>6. records["B"] = 0 =>
          /\ e.submitted = 0 /\ app["B"].submitted = 0
          /\ d # NoConn => ~Est("A", d)
          /\ \A seg \in net["A"] \ arrived : IsRst(seg)
          /\ \A seg \in net["B"] \cup out : ~Normal(seg)
  <2> SUFFICES ASSUME records["B"] = 0
               PROVE  /\ e.submitted = 0 /\ app["B"].submitted = 0
                      /\ d # NoConn => ~Est("A", d)
                      /\ \A seg \in net["A"] \ arrived : IsRst(seg)
                      /\ \A seg \in net["B"] \cup out : ~Normal(seg)
    OBVIOUS
  <2>1. /\ app["A"].submitted = 0 /\ app["B"].submitted = 0
        /\ conn["A"] # NoConn => ~Est("A", conn["A"])
        /\ \A seg \in net["A"] : IsRst(seg)
        /\ \A seg \in net["B"] : ~Normal(seg)
    BY <1>0 DEF Phase
  <2>2. CASE conn["A"] # NoConn \/ records["A"] = 0
    <3>1. NotOpened
      BY <2>2, <2>1 DEF NotOpened
    <3>2. Silence("A", d, e, out)
      BY <3>1 DEF Phased
    <3> QED
      BY <2>1, <3>2 DEF Silence, Silent
  <2>3. CASE d = NoConn /\ out = {} /\ e = app["A"]
    BY <2>1, <2>3
  <2> QED
    BY <2>2, <2>3 DEF Phased
<1> QED
  BY <1>2, <1>5, <1>6 DEF Phase

\* And a step of B.
LEMMA PhaseAfterB ==
  ASSUME ArdpInv, NEW n \in Node, n = "B", NEW d, NEW e, NEW j, NEW out, NEW arrived, NEW brk, NEW z,
         Took(n, d, e, j, out, arrived, brk, z), NodeStep(n, d, e, out, z), Phased(n, d, e, out, z)
  PROVE  Phase'
<1>p. PICK p \in Node : p = Peer(n) /\ p = "A"
  BY DEF Node, Peer
<1>0. Record /\ Phase /\ Types
  BY DEF ArdpInv
<1>1. After(n, p, d, e, out, arrived, z)
  BY <1>p, AfterStep
<1>2. /\ conn'["B"] = d /\ conn'["A"] = conn["A"] /\ app'["B"] = e /\ app'["A"] = app["A"]
      /\ net'["B"] = net["B"] \ arrived /\ net'["A"] = net["A"] \cup out
      /\ records'["B"] = z /\ records'["A"] = records["A"]
  BY <1>1, <1>p DEF After
<1>3. NotOpened' <=> NotOpened
  BY <1>2 DEF NotOpened
<1>4. NotOpened => /\ app["A"].submitted = 0 /\ e.submitted = 0
                   /\ d # NoConn => ~Est("B", d)
                   /\ \A seg \in net["B"] \ arrived : ~Normal(seg)
                   /\ \A seg \in net["A"] \cup out : ~Normal(seg)
  <2> SUFFICES ASSUME NotOpened
               PROVE  /\ app["A"].submitted = 0 /\ e.submitted = 0
                      /\ d # NoConn => ~Est("B", d)
                      /\ \A seg \in net["B"] \ arrived : ~Normal(seg)
                      /\ \A seg \in net["A"] \cup out : ~Normal(seg)
    OBVIOUS
  <2>1. /\ app["A"].submitted = 0
        /\ \A m \in Node : \A seg \in net[m] : ~Normal(seg)
    BY <1>0 DEF Phase
  <2>2. Silence("B", d, e, out)
    BY DEF Phased
  <2> QED
    BY <2>1, <2>2 DEF Silence, Silent, Node
<1>5. z = 0 =>
          /\ app["A"].submitted = 0 /\ e.submitted = 0
          /\ conn["A"] # NoConn => ~Est("A", conn["A"])
          /\ \A seg \in net["A"] \cup out : IsRst(seg)
          /\ \A seg \in net["B"] \ arrived : ~Normal(seg)
  <2> SUFFICES ASSUME z = 0
               PROVE  /\ app["A"].submitted = 0 /\ e.submitted = 0
                      /\ conn["A"] # NoConn => ~Est("A", conn["A"])
                      /\ \A seg \in net["A"] \cup out : IsRst(seg)
                      /\ \A seg \in net["B"] \ arrived : ~Normal(seg)
    OBVIOUS
  <2>0. records["B"] = 0
    BY DEF NodeStep
  <2>1. /\ app["A"].submitted = 0
        /\ conn["A"] # NoConn => ~Est("A", conn["A"])
        /\ \A seg \in net["A"] : IsRst(seg)
        /\ \A seg \in net["B"] : ~Normal(seg)
    BY <1>0, <2>0 DEF Phase
  <2>2. e.submitted = 0 /\ \A g \in out : IsRst(g)
    BY DEF Phased
  <2> QED
    BY <2>1, <2>2
<1> QED
  BY <1>2, <1>3, <1>4, <1>5 DEF Phase, Node

\* The invariant after a step of one node.
LEMMA InvAfter ==
  ASSUME Fits, ArdpInv, NEW n \in Node, NEW d, NEW e, NEW j, NEW out, NEW arrived, NEW brk, NEW z,
         Took(n, d, e, j, out, arrived, brk, z), NodeStep(n, d, e, out, z), Phased(n, d, e, out, z)
  PROVE  ArdpInv'
<1>1. Types'
  BY TypesAfter
<1>2. Nodes' /\ Nets'
  BY NodesAfter
<1>3. Record'
  BY RecordAfter
<1>4. Phase'
  BY PhaseAfterA, PhaseAfterB DEF Node
<1> QED
  BY <1>1, <1>2, <1>3, <1>4 DEF ArdpInv

\* No call of the socket fails with an error other than that it would block.
NoSocketErrors == \A n \in Node : "error" \notin Outcomes[n]

\* What the theorems about Spec assume of the constants.
Setting == Fits /\ Reliable /\ NoSocketErrors /\ MaxRecords = 1

-----------------------------------------------------------------------------
(* What a step does to the upper layer of its node.                        *)

\* Messages are settled and delivered.
Proceeds(n, a, e, q) ==
  /\ e.submitted = a.submitted /\ e.consumed = a.consumed
  /\ Len(a.rcvd) <= Len(e.rcvd)
  /\ CbMoves(n, a, e, q)
  /\ a.disconnectCb # <<>> =>
        e.rcvd = a.rcvd /\ e.sendCb = a.sendCb /\ e.disconnectCb = a.disconnectCb

\* Nothing but the number of messages submitted or consumed, or the ones held, differs.
Counts(a, e) == e.sendCb = a.sendCb /\ e.rcvd = a.rcvd /\ e.disconnectCb = a.disconnectCb

Submits(n, a, e) ==
  Counts(a, e) /\ e.submitted = a.submitted + 1 /\ a.submitted < Count(n) /\ e.consumed = a.consumed

Consumes(a, e) ==
  Counts(a, e) /\ e.submitted = a.submitted /\ e.consumed = a.consumed + 1 /\ a.consumed < Len(a.rcvd)

\* A connection begins.
Begins(a, e) ==
  /\ e.submitted = a.submitted /\ e.consumed = a.consumed /\ e.sendCb = a.sendCb /\ e.rcvd = a.rcvd
  /\ e.disconnectCb = <<>>

AppStep(n, a, e, q, same) ==
  \/ Proceeds(n, a, e, q)
  \/ Submits(n, a, e)
  \/ Consumes(a, e)
  \/ Begins(a, e) /\ ~same

\* A step of node n.
ActsOf(n) ==
  /\ app'[Peer(n)] = app[Peer(n)] /\ records'[Peer(n)] = records[Peer(n)]
  /\ AppStep(n, app[n], app'[n], app[Peer(n)].consumed, records'[n] = records[n])

\* It keeps the invariant.
Advances(n) == ArdpInv' /\ ActsOf(n)

-----------------------------------------------------------------------------
\* The step state that node n begins with.
LEMMA StepGood ==
  ASSUME ArdpInv, NEW n \in Node, conn[n] # NoConn, NEW o \in Outcome \ {"error"}
  PROVE  /\ Good(n, Step(n, o), conn[Peer(n)], app[Peer(n)])
         /\ Step(n, o).c = conn[n] /\ Step(n, o).a = app[n] /\ Step(n, o).ok /\ Step(n, o).out = {}
         /\ Step(n, o).o = o
<1>p. PICK p \in Node : p = Peer(n)
  BY PeerNode
<1>0. Types /\ Nodes
  BY DEF ArdpInv
<1>1. conn[n] \in Conn /\ AppT(n, app[n]) /\ jam[n] \in BOOLEAN /\ broken \subseteq Allowed
      /\ PeerT(n, conn[p], app[p])
  BY <1>0, <1>p DEF Types, PeerT
<1>2. AppOK(n, app[n], app[p]) /\ ConnOK(n, conn[n], app[n], conn[p], app[p])
  BY <1>0, <1>p DEF Nodes, NodeOK
<1>3. PICK s : s = Step(n, o)
  OBVIOUS
<1>4. /\ Shape(s) /\ s.c = conn[n] /\ s.a = app[n] /\ s.jam = jam[n] /\ s.out = {} /\ s.o = o /\ s.ok = TRUE
      /\ s.broken = broken
  BY <1>3 DEF Step, Shape
<1>5. {} \in SUBSET Segs /\ IsFiniteSet({})
  BY FS_EmptySet
<1>6. StepT(n, s)
  BY <1>1, <1>4, <1>5 DEF StepT
<1>7. Good(n, s, conn[p], app[p])
  BY <1>1, <1>2, <1>4, <1>6 DEF Good
<1> QED
  BY <1>3, <1>4, <1>7, <1>p

\* The end of a step.
LEMMA FinishTook ==
  ASSUME ArdpInv, NEW n \in Node, NEW t, NEW arrived, Finish(n, t, arrived),
         t.jam \in BOOLEAN, t.broken \subseteq Allowed, NEW z, records' = [records EXCEPT ![n] = z]
  PROVE  Took(n, t.c, t.a, t.jam, t.out, arrived, t.broken, z)
BY DEF Finish, Took

\* A step that makes no record counts none.
LEMMA SameRecords ==
  ASSUME ArdpInv, NEW n \in Node, UNCHANGED records
  PROVE  records' = [records EXCEPT ![n] = records[n]]
<1>1. records \in [Node -> {0, 1}]
  BY DEF ArdpInv, Types
<1> QED
  BY <1>1

\* A connection record is the first of its node.
LEMMA RecordIs ==
  ASSUME ArdpInv, NEW n \in Node, conn[n] # NoConn
  PROVE  records[n] = 1
BY DEF ArdpInv, Record

\* Once a node is established, A is.
LEMMA OpenedNow ==
  ASSUME ArdpInv, NEW n \in Node, conn[n] # NoConn, Est(n, conn[n])
  PROVE  ~NotOpened
<1>1. Phase /\ records[n] = 1
  BY RecordIs DEF ArdpInv
<1> QED
  BY <1>1 DEF Phase, NotOpened, Node

\* Nothing is said, or A opens.
Heard(n, d, e, out) ==
  NotOpened => Silence(n, d, e, out) \/ (n = "A" /\ Est(n, d) /\ records["B"] # 0)

\* The step of a node that has a connection record, and keeps it.
LEMMA NodeKeeps ==
  ASSUME Fits, ArdpInv, NEW n \in Node, conn[n] # NoConn, NEW s, s.c = conn[n], s.a = app[n],
         NEW t, Stepped(n, s, t, conn[Peer(n)], app[Peer(n)]), Heard(n, t.c, t.a, t.out),
         NEW arrived, Finish(n, t, arrived), UNCHANGED records
  PROVE  Advances(n)
<1>p. PICK p \in Node : p = Peer(n) /\ n # p
  BY PeerNode
<1>0. Types /\ records[n] = 1
  BY RecordIs DEF ArdpInv
<1>1. StepT(n, t) /\ AppOK(n, t.a, app[p]) /\ ConnOK(n, t.c, t.a, conn[p], app[p])
      /\ \A g \in t.out : SegOK(n, g, t.c, t.a, conn[p], app[p])
  BY <1>p DEF Stepped, Good
<1>2. Moves(n, conn[n], app[n], t.c, t.a, app[p].consumed)
  BY <1>p DEF Stepped
<1>3. t.c \in Conn /\ AppT(n, t.a) /\ t.jam \in BOOLEAN /\ t.broken \subseteq Allowed
      /\ t.out \subseteq Segs /\ IsFiniteSet(t.out)
  BY <1>1 DEF StepT
<1>4. t.c # NoConn
  BY <1>3 DEF Conn, NoConn
<1>5. NodeOK(n, t.c, t.a, conn[p], app[p])
  BY <1>1, <1>4 DEF NodeOK
<1>6. Upward(app[n], t.a)
  <2>1. app[n].submitted \in Nat /\ app[n].consumed \in Nat
    <3>1. AppT(n, app[n])
      BY <1>0 DEF Types
    <3>2. PICK N \in Nat : N = Len(Msgs[n])
      BY FirstIs DEF Count
    <3> QED
      BY <3>1, <3>2 DEF AppT
  <2> QED
    BY <2>1, <1>2 DEF Moves, Upward
<1>7. Forward(n, conn[n], t.c, conn[p], UnderWay)
  <2>1. CASE Knows(n, conn[n])
    BY <2>1, <1>2, <1>p DEF Moves, Forward
  <2>2. CASE ~Knows(n, conn[n])
    <3>1. Unknowing(n)
      BY <2>2 DEF Unknowing, Knows, Node
    <3> QED
      BY <3>1, <1>p, SilentBefore DEF SilentPeer, Silent, Forward
  <2> QED
    BY <2>1, <2>2
<1>8. NodeStep(n, t.c, t.a, t.out, 1)
  BY <1>0, <1>1, <1>3, <1>4, <1>5, <1>6, <1>7, <1>p DEF NodeStep, ConnT
<1>9. Phased(n, t.c, t.a, t.out, 1)
  BY <1>2, <1>4 DEF Phased, Moves, Heard
<1>10. Took(n, t.c, t.a, t.jam, t.out, arrived, t.broken, 1)
  <2>1. records' = [records EXCEPT ![n] = 1]
    BY <1>0, SameRecords
  <2> QED
    BY <2>1, <1>3, FinishTook
<1>11. ArdpInv'
  BY <1>8, <1>9, <1>10, InvAfter
<1>12. After(n, p, t.c, t.a, t.out, arrived, 1)
  BY <1>10, <1>p, AfterStep
<1>13. Proceeds(n, app[n], t.a, app[p].consumed)
  BY <1>2 DEF Moves, Proceeds
<1> QED
  BY <1>11, <1>12, <1>13, <1>p DEF Advances, ActsOf, AppStep, After

-----------------------------------------------------------------------------
(* The actions of a node whose connection is open, and the data timers.    *)

\* What a socket may answer.
LEMMA Answer ==
  ASSUME Setting, NEW n \in Node, NEW o \in Outcomes[n]
  PROVE  o \in Outcome \ {"error"}
BY OutcomesAssumption DEF Setting, NoSocketErrors

\* A step of an established connection.
LEMMA EstAdvances ==
  ASSUME Setting, ArdpInv, NEW n \in Node, conn[n] # NoConn, Est(n, conn[n]), NEW o \in Outcome \ {"error"},
         NEW t, Stepped(n, Step(n, o), t, conn[Peer(n)], app[Peer(n)]),
         NEW arrived, Finish(n, t, arrived), UNCHANGED records
  PROVE  Advances(n)
<1>1. PICK s : s = Step(n, o)
  OBVIOUS
<1>2. s.c = conn[n] /\ s.a = app[n]
  BY <1>1, StepGood
<1>3. Heard(n, t.c, t.a, t.out)
  BY OpenedNow DEF Heard
<1>4. Fits
  BY DEF Setting
<1> QED
  BY <1>1, <1>2, <1>3, <1>4, NodeKeeps

\* An open connection is established.
LEMMA OpenEst ==
  ASSUME ArdpInv, NEW n \in Node, conn[n] # NoConn, conn[n].state = "OPEN"
  PROVE  Est(n, conn[n])
<1>1. ConnOK(n, conn[n], app[n], conn[Peer(n)], app[Peer(n)])
  BY DEF ArdpInv, Nodes, NodeOK
<1> QED
  BY <1>1 DEF ConnOK, Ctl

\* ARDP_Disconnect keeps the invariant.
LEMMA DisconnectAction ==
  ASSUME Setting, ArdpInv, NEW n \in Node, ARDP_Disconnect(n)
  PROVE  Advances(n)
<1>1. conn[n] # NoConn /\ conn[n].state = "OPEN"
  BY DEF ARDP_Disconnect, Exists
<1>2. PICK o \in Outcomes[n] : Commit(n, Disconnect(Step(n, o), "ok"))
  BY DEF ARDP_Disconnect
<1>3. o \in Outcome \ {"error"}
  BY Answer
<1>4. PICK reason \in Statuses : reason = "ok"
  BY DEF Statuses, Reasons
<1>5. PICK t : t = Disconnect(Step(n, o), reason)
  OBVIOUS
<1>6. Stepped(n, Step(n, o), t, conn[Peer(n)], app[Peer(n)])
  <2>1. Good(n, Step(n, o), conn[Peer(n)], app[Peer(n)])
    BY <1>1, <1>3, StepGood
  <2> QED
    BY <2>1, <1>5, DisconnectGood DEF Stepped, Setting
<1>7. Finish(n, t, {}) /\ UNCHANGED records
  BY <1>2, <1>4, <1>5 DEF Commit
<1> QED
  BY <1>1, <1>3, <1>6, <1>7, OpenEst, EstAdvances

\* AckTimerHandler keeps the invariant.
LEMMA AckTimerAction ==
  ASSUME Setting, ArdpInv, NEW n \in Node, AckTimerHandler(n)
  PROVE  Advances(n)
<1>1. conn[n] # NoConn /\ conn[n].state = "OPEN"
  BY DEF AckTimerHandler, Running, Exists
<1>2. PICK o \in Outcomes[n] : Commit(n, SendAck(Step(n, o)))
  BY DEF AckTimerHandler
<1>3. o \in Outcome \ {"error"}
  BY Answer
<1>4. Good(n, Step(n, o), conn[Peer(n)], app[Peer(n)]) /\ Est(n, Step(n, o).c)
  BY <1>1, <1>3, StepGood, OpenEst
<1>5. Stepped(n, Step(n, o), SendAck(Step(n, o)), conn[Peer(n)], app[Peer(n)])
  BY <1>4, SendAckStep DEF Setting
<1>6. Finish(n, SendAck(Step(n, o)), {}) /\ UNCHANGED records
  BY <1>2 DEF Commit
<1> QED
  BY <1>1, <1>3, <1>5, <1>6, OpenEst, EstAdvances

\* ProbeTimerHandler keeps the invariant.
LEMMA ProbeTimerAction ==
  ASSUME Setting, ArdpInv, NEW n \in Node, ProbeTimerHandler(n)
  PROVE  Advances(n)
<1>1. conn[n] # NoConn /\ conn[n].state = "OPEN"
  BY DEF ProbeTimerHandler, Running, Exists
<1>2. PICK o \in Outcomes[n] : Commit(n, SendProbe(Step(n, o)))
  BY DEF ProbeTimerHandler
<1>3. o \in Outcome \ {"error"}
  BY Answer
<1>4. Good(n, Step(n, o), conn[Peer(n)], app[Peer(n)]) /\ Step(n, o).c.state = "OPEN"
  BY <1>1, <1>3, StepGood
<1>5. Stepped(n, Step(n, o), SendProbe(Step(n, o)), conn[Peer(n)], app[Peer(n)])
  BY <1>4, SendProbeStep DEF Setting
<1>6. Finish(n, SendProbe(Step(n, o)), {}) /\ UNCHANGED records
  BY <1>2 DEF Commit
<1> QED
  BY <1>1, <1>3, <1>5, <1>6, OpenEst, EstAdvances

\* PersistTimerHandler keeps the invariant.
LEMMA PersistTimerAction ==
  ASSUME Setting, ArdpInv, NEW n \in Node, PersistTimerHandler(n)
  PROVE  Advances(n)
<1>1. conn[n] # NoConn /\ conn[n].state = "OPEN" /\ conn[n].persist # 0
  BY DEF PersistTimerHandler, Running, Exists
<1>2. PICK o \in Outcomes[n] : Commit(n, IF Step(n, o).c.persist = 1 THEN Disconnect(Step(n, o), "timeout")
                                         ELSE Persisting(Step(n, o), SendNul(Step(n, o))))
  BY DEF PersistTimerHandler, Persisting
<1>3. o \in Outcome \ {"error"}
  BY Answer
<1>4. PICK s : s = Step(n, o)
  OBVIOUS
<1>5. Good(n, s, conn[Peer(n)], app[Peer(n)]) /\ s.c = conn[n]
  BY <1>1, <1>3, <1>4, StepGood
<1>6. PICK reason \in Statuses : reason = "timeout"
  BY DEF Statuses, Reasons
<1>7. PICK t : t = IF s.c.persist = 1 THEN Disconnect(s, reason) ELSE Persisting(s, SendNul(s))
  OBVIOUS
<1>8. Stepped(n, s, t, conn[Peer(n)], app[Peer(n)])
  <2>1. Stepped(n, s, Disconnect(s, reason), conn[Peer(n)], app[Peer(n)])
    BY <1>5, DisconnectGood DEF Stepped, Setting
  <2>2. Stepped(n, s, Persisting(s, SendNul(s)), conn[Peer(n)], app[Peer(n)])
    BY <1>1, <1>5, PersistingStep DEF Setting
  <2> QED
    BY <2>1, <2>2, <1>7
<1>9. Finish(n, t, {}) /\ UNCHANGED records
  BY <1>2, <1>4, <1>6, <1>7, Zenon DEF Commit
<1> QED
  BY <1>1, <1>3, <1>4, <1>8, <1>9, OpenEst, EstAdvances

\* A data timer runs for a buffer in use, with a message that does not expire.
LEMMA DataTimerIs ==
  ASSUME Setting, ArdpInv, NEW n \in Node, NEW i \in Ring, DataTimerSet(n, i), NEW o \in Outcome \ {"error"}
  PROVE  /\ conn[n] # NoConn /\ conn[n].sbuf[i].timer /\ conn[n].sbuf[i].ttl = "inf" /\ Est(n, conn[n])
         /\ DataTimerFires(n, i, o) = Step(n, o)
         /\ Good(n, Step(n, o), conn[Peer(n)], app[Peer(n)]) /\ Step(n, o).c = conn[n]
<1>1. conn[n] # NoConn /\ conn[n].sbuf[i].timer
  BY DEF DataTimerSet, Exists
<1>2. PICK s : s = Step(n, o)
  OBVIOUS
<1>3. Good(n, s, conn[Peer(n)], app[Peer(n)]) /\ s.c = conn[n]
  BY <1>1, <1>2, StepGood
<1>4. s.c.sbuf[i].inUse /\ \E m : \E x : InBuffer(n, s.c, s.a, i, x, m)
  BY <1>1, <1>3, BufferIs DEF Setting
<1>5. s.c.sbuf[i].ttl = "inf" /\ Est(n, s.c)
  BY <1>4 DEF InBuffer
<1>6. DataTimerFires(n, i, o) = s
  BY <1>2, <1>3, <1>4, Zenon DEF DataTimerFires, Check
<1> QED
  BY <1>1, <1>2, <1>3, <1>5, <1>6

\* RetransmitTimerHandler keeps the invariant, whether it retransmits or gives up.
LEMMA RetransmitAction ==
  ASSUME Setting, ArdpInv, NEW n \in Node, NEW i \in Ring, RetransmitTimerHandler(n, i)
  PROVE  Advances(n)
<1>1. CASE RetransmitGivesUp(n, i)
  <2>1. DataTimerSet(n, i)
    BY <1>1 DEF RetransmitGivesUp
  <2>2. PICK o \in Outcomes[n] : Commit(n, RetransmitTimedOut(DataTimerFires(n, i, o), i))
    BY <1>1 DEF RetransmitGivesUp
  <2>3. o \in Outcome \ {"error"}
    BY Answer
  <2>4. PICK t : t = RetransmitTimedOut(Step(n, o), i)
    OBVIOUS
  <2>5. Stepped(n, Step(n, o), t, conn[Peer(n)], app[Peer(n)])
    BY <2>1, <2>3, <2>4, DataTimerIs, RetransmitTimedOutStep DEF Setting
  <2>6. Finish(n, t, {}) /\ UNCHANGED records
    BY <2>1, <2>2, <2>3, <2>4, DataTimerIs DEF Commit
  <2> QED
    BY <2>1, <2>3, <2>5, <2>6, DataTimerIs, EstAdvances
<1>2. CASE RetransmitsAgain(n, i)
  <2>1. DataTimerSet(n, i)
    BY <1>2 DEF RetransmitsAgain
  <2>2. PICK o \in Outcomes[n] : Commit(n, RetransmitAgain(DataTimerFires(n, i, o), i))
    BY <1>2 DEF RetransmitsAgain
  <2>3. o \in Outcome \ {"error"}
    BY Answer
  <2>4. PICK t : t = RetransmitAgain(Step(n, o), i)
    OBVIOUS
  <2>5. Stepped(n, Step(n, o), t, conn[Peer(n)], app[Peer(n)])
    <3>1. Good(n, Step(n, o), conn[Peer(n)], app[Peer(n)]) /\ Step(n, o).c.sbuf[i].timer
      BY <2>1, <2>3, DataTimerIs
    <3> QED
      BY <3>1, <2>4, RetransmitAgainStep DEF Setting
  <2>6. Finish(n, t, {}) /\ UNCHANGED records
    BY <2>1, <2>2, <2>3, <2>4, DataTimerIs DEF Commit
  <2> QED
    BY <2>1, <2>3, <2>5, <2>6, DataTimerIs, EstAdvances
<1>3. CASE RetransmitExpires(n, i)
  <2>1. DataTimerSet(n, i) /\ conn[n].sbuf[i].ttl # "inf"
    BY <1>3 DEF RetransmitExpires
  <2>2. PICK o \in Outcome \ {"error"} : o = "sent"
    BY DEF Outcome
  <2> QED
    BY <2>1, <2>2, DataTimerIs
<1> QED
  BY <1>1, <1>2, <1>3 DEF RetransmitTimerHandler

-----------------------------------------------------------------------------
(* A segment for an existing connection, and the connect timer.            *)

\* A step that sends nothing but SYNs and RSTs, and does not open the connection.
LEMMA QuietAdvances ==
  ASSUME Setting, ArdpInv, NEW n \in Node, conn[n] # NoConn, NEW o \in Outcome \ {"error"},
         NEW t, Quietly(n, Step(n, o), t, conn[Peer(n)], app[Peer(n)]),
         NEW arrived, Finish(n, t, arrived), UNCHANGED records
  PROVE  Advances(n)
<1>1. PICK s : s = Step(n, o)
  OBVIOUS
<1>2. s.c = conn[n] /\ s.a = app[n] /\ s.out = {}
  BY <1>1, StepGood
<1>3. Stepped(n, s, t, conn[Peer(n)], app[Peer(n)]) /\ t.c.UNA = s.c.UNA /\ Silent(t.out)
  BY <1>1, <1>2 DEF Quietly, Silent
<1>4. Heard(n, t.c, t.a, t.out)
  <2>1. CASE NotOpened
    <3>1. Phase
      BY DEF ArdpInv
    <3>2. app[n].submitted = 0
      BY <3>1, <2>1 DEF Phase, Node
    <3>3. t.a.submitted = 0
      BY <3>2, <1>2, <1>3 DEF Stepped, Moves
    <3>4. ~Est(n, conn[n])
      BY <2>1, OpenedNow
    <3>5. ~Est(n, t.c)
      BY <3>4, <1>2, <1>3 DEF Est
    <3> QED
      BY <3>3, <3>5, <1>3 DEF Heard, Silence
  <2> QED
    BY <2>1 DEF Heard
<1>5. Fits
  BY DEF Setting
<1> QED
  BY <1>1, <1>2, <1>3, <1>4, <1>5, NodeKeeps

\* The connect timer.
LEMMA ConnectTimerAction ==
  ASSUME Setting, ArdpInv, NEW n \in Node, ConnectTimerHandler(n)
  PROVE  Advances(n)
<1>1. conn[n] # NoConn /\ conn[n].conTimer = "connect"
  BY DEF ConnectTimerHandler, Exists
<1>2. PICK o \in Outcomes[n], answer \in Outcomes[n] :
        IF Step(n, o).c.retry > 1 /\ o # "error" THEN Commit(n, Again(Step(n, o), n))
        ELSE Commit(n, Fails(Step(n, answer)))
  BY Zenon DEF ConnectTimerHandler, Again, Fails
<1>3. o \in Outcome \ {"error"}
  BY Answer
<1>4. PICK s : s = Step(n, o)
  OBVIOUS
<1>5. Good(n, s, conn[Peer(n)], app[Peer(n)]) /\ s.c = conn[n]
  BY <1>1, <1>3, <1>4, StepGood
<1>6. CASE s.c.retry > 1
  <2>1. Quietly(n, s, Again(s, n), conn[Peer(n)], app[Peer(n)])
    BY <1>1, <1>5, <1>6, ConnectAgainStep DEF Setting
  <2>2. Finish(n, Again(s, n), {}) /\ UNCHANGED records
    BY <1>2, <1>3, <1>4, <1>6 DEF Commit
  <2> QED
    BY <2>1, <2>2, <1>1, <1>3, <1>4, QuietAdvances
<1>7. CASE ~(s.c.retry > 1)
  <2>1. answer \in Outcome \ {"error"}
    BY Answer
  <2>2. PICK z : z = Step(n, answer)
    OBVIOUS
  <2>3. Good(n, z, conn[Peer(n)], app[Peer(n)]) /\ z.c = conn[n]
    BY <1>1, <2>1, <2>2, StepGood
  <2>4. Quietly(n, z, Fails(z), conn[Peer(n)], app[Peer(n)])
    BY <1>1, <2>3, ConnectFailsStep DEF Setting
  <2>5. Finish(n, Fails(z), {}) /\ UNCHANGED records
    BY <1>2, <1>4, <1>7, <2>2 DEF Commit
  <2> QED
    BY <2>2, <2>4, <2>5, <1>1, <2>1, QuietAdvances
<1> QED
  BY <1>6, <1>7

\* What is on its way to a node before A opens.
LEMMA ArrivesUnopened ==
  ASSUME ArdpInv, NEW n \in Node, NEW seg \in net[n], NotOpened, conn[n] # NoConn, seg.dst = conn[n].local
  PROVE  /\ ~Normal(seg)
         /\ "RST" \in seg.flg \/ (n = "A" /\ {"SYN", "ACK"} \subseteq seg.flg /\ records["B"] # 0)
<1>p. PICK p \in Node : p = Peer(n) /\ n = Peer(p)
  BY PeerNode
<1>0. Phase /\ Nets /\ Nodes
  BY DEF ArdpInv
<1>1. ~Normal(seg)
  BY <1>0 DEF Phase
<1>2. SegOK(p, seg, conn[p], app[p], conn[n], app[n])
  BY <1>0, <1>p DEF Nets
<1>3. conn[n].local = 1
  BY <1>0 DEF Nodes, NodeOK, ConnOK, Ctl
<1>4. IsRst(seg) \/ IsSyn(p, seg)
  BY <1>1, <1>2 DEF SegOK, IsNormal
<1>5. CASE IsRst(seg)
  BY <1>1, <1>5 DEF IsRst
<1>6. CASE IsSyn(p, seg) /\ ~IsRst(seg)
  <2>1. p # "A"
    BY <1>3, <1>6 DEF IsSyn
  <2>2. p = "B" /\ n = "A"
    BY <2>1, <1>p DEF Node, Peer
  <2>3. seg.flg = {"SYN", "ACK"}
    BY <2>2, <1>6 DEF IsSyn
  <2>4. records["B"] # 0
    BY <2>2, <1>0, <1>6 DEF Phase
  <2> QED
    BY <2>2, <2>3, <2>4, <1>1
<1> QED
  BY <1>4, <1>5, <1>6

\* A segment for a connection that is not going away.
LEMMA MachineAction ==
  ASSUME Setting, ArdpInv, NEW n \in Node, NEW seg \in net[n], NEW o \in Outcomes[n], FindConn(n, seg),
         ~Closed(conn[n]), NEW late, NEW ackNow, NEW arrived,
         Finish(n, Machine(Step(n, o), seg, late, ackNow), arrived), UNCHANGED records
  PROVE  Advances(n)
<1>p. PICK p \in Node : p = Peer(n) /\ n = Peer(p)
  BY PeerNode
<1>0. Phase /\ Nets /\ Types /\ Fits
  BY DEF ArdpInv, Setting
<1>1. conn[n] # NoConn /\ seg.dst = conn[n].local
  BY DEF FindConn, Exists
<1>2. o \in Outcome \ {"error"}
  BY Answer
<1>3. PICK s : s = Step(n, o)
  OBVIOUS
<1>4. Good(n, s, conn[p], app[p]) /\ s.c = conn[n] /\ s.a = app[n] /\ s.ok /\ s.out = {}
  BY <1>1, <1>2, <1>3, <1>p, StepGood
<1>5. seg \in Segs
  BY <1>0 DEF Types
<1>6. SegOK(p, seg, conn[p], app[p], s.c, s.a)
  BY <1>0, <1>4, <1>p DEF Nets
<1>7. PICK t : t = Machine(s, seg, late, ackNow)
  OBVIOUS
<1>8. /\ Stepped(n, s, t, conn[p], app[p])
      /\ HalfOpen(s.c) /\ ~Normal(seg) => Replied(n, s, t, seg)
  BY <1>0, <1>4, <1>5, <1>6, <1>7, <1>p, MachineStep
<1>9. Heard(n, t.c, t.a, t.out)
  <2>1. CASE NotOpened
    <3>1. ~Est(n, conn[n]) /\ app[n].submitted = 0
      BY <2>1, <1>0, <1>1, OpenedNow DEF Phase, Node
    <3>2. HalfOpen(s.c)
      <4>1. s.c.state # "OPEN"
        BY <3>1, <1>1, <1>4, OpenEst
      <4> QED
        BY <4>1, <1>4, StateIs DEF HalfOpen
    <3>3. Replied(n, s, t, seg)
      BY <3>2, <2>1, <1>1, <1>8, ArrivesUnopened
    <3>4. CASE "RST" \in seg.flg
      <4>1. t.out = {} /\ t.c.UNA = conn[n].UNA
        BY <3>3, <3>4, <1>4 DEF Replied
      <4>2. t.a.submitted = 0
        BY <3>1, <1>4, <1>8 DEF Stepped, Moves
      <4> QED
        BY <4>1, <4>2, <3>1 DEF Heard, Silence, Silent, Est
    <3>5. CASE "RST" \notin seg.flg
      <4>1. n = "A" /\ {"SYN", "ACK"} \subseteq seg.flg /\ records["B"] # 0
        BY <3>5, <2>1, <1>1, ArrivesUnopened
      <4>2. Est(n, t.c)
        BY <4>1, <3>3, <3>5 DEF Replied
      <4> QED
        BY <4>1, <4>2 DEF Heard
    <3> QED
      BY <3>4, <3>5
  <2> QED
    BY <2>1 DEF Heard
<1>10. Finish(n, t, arrived)
  BY <1>3, <1>7
<1> QED
  BY <1>0, <1>1, <1>4, <1>8, <1>9, <1>10, <1>p, NodeKeeps

\* A segment for a connection that is going away.
LEMMA RefuseAction ==
  ASSUME Setting, ArdpInv, NEW n \in Node, NEW seg, NEW o \in Outcomes[n], conn[n] # NoConn, NEW arrived,
         Finish(n, IF "NUL" \in seg.flg THEN Emit(Step(n, o), RstSegment(Step(n, o).c)) ELSE Step(n, o), arrived),
         UNCHANGED records
  PROVE  Advances(n)
<1>1. o \in Outcome \ {"error"}
  BY Answer
<1>2. PICK s : s = Step(n, o)
  OBVIOUS
<1>3. Good(n, s, conn[Peer(n)], app[Peer(n)])
  BY <1>1, <1>2, StepGood
<1>4. PICK t : t = IF "NUL" \in seg.flg THEN Emit(s, RstSegment(s.c)) ELSE s
  OBVIOUS
<1>5. Quietly(n, s, t, conn[Peer(n)], app[Peer(n)])
  <2>1. Fits
    BY DEF Setting
  <2>2. Quietly(n, s, Emit(s, RstSegment(s.c)), conn[Peer(n)], app[Peer(n)])
    BY <2>1, <1>3, AnswerRstStep
  <2>3. Quietly(n, s, s, conn[Peer(n)], app[Peer(n)])
    BY <2>1, <1>3, NothingStep
  <2> QED
    BY <2>2, <2>3, <1>4
<1>6. Finish(n, t, arrived)
  BY <1>2, <1>4
<1> QED
  BY <1>1, <1>2, <1>5, <1>6, QuietAdvances

\* A segment for an existing connection.
LEMMA ReceiveSegmentAction ==
  ASSUME Setting, ArdpInv, NEW n \in Node, ReceiveSegment(n)
  PROVE  Advances(n)
<1>1. PICK seg \in net[n], o \in Outcomes[n], keep \in BOOLEAN :
        /\ FindConn(n, seg)
        /\ \/ /\ conn[n].state \notin {"CLOSED", "CLOSE_WAIT"}
              /\ \E late \in SUBSET MayBeLate(n, seg), ackNow \in BOOLEAN :
                    Finish(n, Machine(Step(n, o), seg, late, ackNow), Taken(seg, keep))
           \/ Finish(n, IF "NUL" \in seg.flg THEN Emit(Step(n, o), RstSegment(Step(n, o).c)) ELSE Step(n, o),
                     Taken(seg, keep))
        /\ UNCHANGED records
  BY Zenon DEF ReceiveSegment
<1>2. conn[n] # NoConn
  BY <1>1 DEF FindConn, Exists
<1>3. CASE conn[n].state \notin {"CLOSED", "CLOSE_WAIT"} /\
           \E late \in SUBSET MayBeLate(n, seg), ackNow \in BOOLEAN :
                    Finish(n, Machine(Step(n, o), seg, late, ackNow), Taken(seg, keep))
  <2>1. ~Closed(conn[n])
    BY <1>3 DEF Closed
  <2>2. PICK late, ackNow : Finish(n, Machine(Step(n, o), seg, late, ackNow), Taken(seg, keep))
    BY <1>3
  <2> QED
    BY <2>1, <2>2, <1>1, MachineAction
<1>4. CASE Finish(n, IF "NUL" \in seg.flg THEN Emit(Step(n, o), RstSegment(Step(n, o).c)) ELSE Step(n, o),
                     Taken(seg, keep))
  BY <1>1, <1>2, <1>4, RefuseAction
<1> QED
  BY <1>1, <1>3, <1>4

-----------------------------------------------------------------------------
(* A connection record is deleted.                                         *)

\* As many messages are held as were delivered and not consumed.
LEMMA HeldCount ==
  ASSUME NEW p, NEW a, NEW sub, a.held \in Seq(Ring), RcvApp(p, a, sub), NEW z \in Nat,
         Len(a.rcvd) - a.consumed = z
  PROVE  Len(a.held) = z /\ (z = 0 => a.held = <<>>) /\ (z # 0 => a.held # <<>>)
<1>1. a.held = [k \in 1 .. Len(a.rcvd) - a.consumed |-> Slot(p, First(p, a.consumed + k))]
  BY DEF RcvApp
<1>2. DOMAIN a.held = 1 .. z
  BY <1>1
<1>3. Len(a.held) \in Nat /\ DOMAIN a.held = 1 .. Len(a.held)
  BY LenProperties
<1>4. PICK l \in Nat : l = Len(a.held)
  BY <1>3
<1>5. 1 .. l = 1 .. z
  BY <1>2, <1>3, <1>4, Zenon
<1>6. l = z
  <2>1. l \in 1 .. l \/ l = 0
    BY <1>4
  <2>2. z \in 1 .. z \/ z = 0
    OBVIOUS
  <2>3. (l \in 1 .. z \/ l = 0) /\ (z \in 1 .. l \/ z = 0)
    BY <2>1, <2>2, <1>5
  <2> QED
    BY <2>3
<1>7. z = 0 => a.held = <<>>
  BY <1>4, <1>6, EmptySeq
<1>8. z # 0 => a.held # <<>>
  BY <1>4, <1>6, EmptySeq
<1> QED
  BY <1>4, <1>6, <1>7, <1>8

\* When no receive buffer is delivered, nothing is held.
LEMMA NoneHeld ==
  ASSUME Fits, NEW n \in Node, NEW s, NEW r, NEW b, Good(n, s, r, b), IsRcvQueueEmpty(s.c)
  PROVE  s.a.held = <<>>
<1>p. PICK p \in Node : p = Peer(n)
  BY PeerNode
<1>1. RcvApp(p, s.a, b.submitted) /\ RcvHeld(p, s.c, s.a) /\ AppT(n, s.a) /\ b.submitted \in 0 .. Count(p)
  BY <1>p DEF Good, ConnOK, RcvOK, AppOK, StepT, PeerT, AppT, Count
<1>2. s.a.rcvd \in Seq(Seq(Nat \X Nat)) /\ s.a.held \in Seq(Ring) /\ s.a.consumed \in Nat
  BY <1>1 DEF AppT
<1>3. PICK k \in Nat, W \in Nat, D \in Nat : Reach(p, s.a, b.submitted, k, W, D)
  BY <1>1, <1>2, ReachIs
<1>4. s.a.consumed \in 0 .. k /\ k = Len(s.a.rcvd) /\ W + 1 = First(p, s.a.consumed + 1) /\ D = First(p, k + 1)
      /\ k <= Count(p)
  <2>1. PICK N \in Nat, S \in Nat : N = Count(p) /\ S = b.submitted /\ S <= N
    <3>1. PICK N \in Nat : N = Count(p)
      BY FirstIs
    <3>2. PICK S \in Nat : S = b.submitted /\ S <= N
      BY <1>1, <3>1
    <3> QED
      BY <3>1, <3>2
  <2>2. k <= S
    BY <1>3, <2>1 DEF Reach
  <2> QED
    BY <1>3, <2>1, <2>2 DEF Reach
<1>5. PICK q \in Nat : q = s.a.consumed
  BY <1>2
<1>6. q = k
  <2> SUFFICES ASSUME q < k PROVE FALSE
    BY <1>4, <1>5
  <2>1. W + 1 < D
    <3>1. PICK N \in Nat : N = Count(p)
      BY FirstIs
    <3>2. q + 1 \in 1 .. N + 1 /\ k + 1 \in 1 .. N + 1 /\ q + 1 <= k + 1
      BY <3>1, <1>4
    <3>3. First(p, q + 1) + ((k + 1) - (q + 1)) <= First(p, k + 1)
      BY <3>1, <3>2, FirstMono
    <3>4. (W + 1) + ((k + 1) - (q + 1)) <= D
      BY <3>3, <1>4, <1>5
    <3> QED
      BY <3>4
  <2>2. First(p, s.a.consumed + 1) - 1 = W /\ First(p, Len(s.a.rcvd) + 1) = D
    BY <1>4
  <2>3. W + 1 \in W + 1 .. D - 1 /\ W + 1 \in W + 1 .. W + SegMax
    BY <2>1
  <2>4. s.c.rbuf[Slot(p, W + 1)].delivered
    BY <1>1, <2>2, <2>3 DEF RcvHeld
  <2>5. Slot(p, W + 1) \in Ring
    BY <1>1, <1>3, <2>3, WindowSlot
  <2> QED
    BY <2>4, <2>5 DEF IsRcvQueueEmpty
<1>7. Len(s.a.rcvd) - s.a.consumed = 0
  BY <1>4, <1>5, <1>6
<1> QED
  BY <1>1, <1>2, <1>7, HeldCount

\* u is t without its connection record.
Drops(t, u) == u = [t EXCEPT !.c = NoConn]

\* A connection is deleted when none of its messages is held.
LEMMA DropAdvances ==
  ASSUME Setting, ArdpInv, NEW n \in Node, conn[n] # NoConn, NEW s, s.c = conn[n], s.a = app[n],
         NEW t, Stepped(n, s, t, conn[Peer(n)], app[Peer(n)]), t.out = {}, t.a.held = <<>>,
         NEW u, Drops(t, u), Finish(n, u, {}), UNCHANGED records
  PROVE  Advances(n)
<1>p. PICK p \in Node : p = Peer(n) /\ n # p
  BY PeerNode
<1>0. Types /\ records[n] = 1 /\ Phase /\ Fits
  BY RecordIs DEF ArdpInv, Setting
<1>1. StepT(n, t) /\ AppOK(n, t.a, app[p]) /\ Shape(t)
  BY <1>p DEF Stepped, Good, StepT
<1>2. Moves(n, conn[n], app[n], t.c, t.a, app[p].consumed)
  BY <1>p DEF Stepped
<1>3. AppT(n, t.a) /\ t.jam \in BOOLEAN /\ t.broken \subseteq Allowed
  BY <1>1 DEF StepT
<1>4. u.c = NoConn /\ u.a = t.a /\ u.jam = t.jam /\ u.out = {} /\ u.broken = t.broken
  BY <1>1 DEF Drops, Shape
<1>5. NodeOK(n, NoConn, t.a, conn[p], app[p])
  BY <1>1 DEF NodeOK
<1>6. Upward(app[n], t.a)
  <2>1. app[n].submitted \in Nat /\ app[n].consumed \in Nat
    <3>1. AppT(n, app[n])
      BY <1>0 DEF Types
    <3>2. PICK N \in Nat : N = Len(Msgs[n])
      BY <1>0, FirstIs DEF Count
    <3> QED
      BY <3>1, <3>2 DEF AppT
  <2> QED
    BY <2>1, <1>2 DEF Moves, Upward
<1>7. NodeStep(n, NoConn, t.a, {}, 1)
  <2>1. {} \subseteq Segs /\ IsFiniteSet({})
    BY FS_EmptySet
  <2> QED
    BY <2>1, <1>0, <1>3, <1>5, <1>6, <1>p DEF NodeStep, ConnT, Forward
<1>8. Phased(n, NoConn, t.a, {}, 1)
  <2>1. NotOpened => t.a.submitted = 0
    BY <1>0, <1>2 DEF Phase, Moves, Node
  <2>2. NotOpened => Silence(n, NoConn, t.a, {})
    BY <2>1 DEF Silence, Silent
  <2> QED
    BY <2>2 DEF Phased
<1>9. Took(n, NoConn, t.a, t.jam, {}, {}, t.broken, 1)
  <2>1. records' = [records EXCEPT ![n] = 1]
    BY <1>0, SameRecords
  <2>2. u.jam \in BOOLEAN /\ u.broken \subseteq Allowed
    BY <1>3, <1>4
  <2>3. Took(n, u.c, u.a, u.jam, u.out, {}, u.broken, 1)
    BY <2>1, <2>2, FinishTook
  <2> QED
    BY <2>3, <1>4, Zenon
<1>10. ArdpInv'
  BY <1>0, <1>7, <1>8, <1>9, InvAfter
<1>11. After(n, p, NoConn, t.a, {}, {}, 1)
  BY <1>9, <1>p, AfterStep
<1>12. Proceeds(n, app[n], t.a, app[p].consumed)
  BY <1>2 DEF Moves, Proceeds
<1> QED
  BY <1>10, <1>11, <1>12, <1>p DEF Advances, ActsOf, AppStep, After

\* ARDP_ReleaseConnection.
LEMMA ReleaseConnectionAction ==
  ASSUME Setting, ArdpInv, NEW n \in Node, ARDP_ReleaseConnection(n)
  PROVE  Advances(n)
<1>1. conn[n] # NoConn /\ conn[n].state = "CLOSED" /\ conn[n].conTimer = "off" /\ UNCHANGED records
  BY DEF ARDP_ReleaseConnection, Exists
<1>2. PICK o \in Outcome \ {"error"} : o = "sent"
  BY DEF Outcome
<1>3. PICK s : s = Step(n, o)
  OBVIOUS
<1>4. Good(n, s, conn[Peer(n)], app[Peer(n)]) /\ s.c = conn[n] /\ s.a = app[n] /\ s.out = {}
  BY <1>1, <1>2, <1>3, StepGood
<1>5. Fits
  BY DEF Setting
<1>6. Stepped(n, s, s, conn[Peer(n)], app[Peer(n)])
  BY <1>4, <1>5, SteppedSame
<1>7. s.a.held = <<>>
  <2>1. Ctl(n, s.c, s.a) /\ AppT(n, s.a) /\ RcvApp(Peer(n), s.a, app[Peer(n)].submitted)
    BY <1>4 DEF Good, ConnOK, StepT, AppOK
  <2>2. s.a.rcvd = <<>>
    BY <2>1, <1>1, <1>4 DEF Ctl, Closed
  <2>3. Len(s.a.rcvd) - s.a.consumed = 0
    <3>1. Len(s.a.rcvd) = 0 /\ s.a.consumed \in Nat
      BY <2>1, <2>2 DEF AppT
    <3>2. s.a.consumed <= Len(s.a.rcvd)
      BY <2>1 DEF RcvApp
    <3> QED
      BY <3>1, <3>2
  <2>4. s.a.held \in Seq(Ring)
    BY <2>1 DEF AppT
  <2> QED
    BY <2>1, <2>3, <2>4, HeldCount
<1>8. PICK u : u = [s EXCEPT !.c = NoConn]
  OBVIOUS
<1>9. Drops(s, u)
  BY <1>8 DEF Drops
<1>10. Finish(n, u, {})
  BY <1>2, <1>3, <1>8 DEF ARDP_ReleaseConnection
<1> QED
  BY <1>1, <1>4, <1>6, <1>7, <1>9, <1>10, DropAdvances

\* The disconnect timer.
LEMMA DisconnectTimerAction ==
  ASSUME Setting, ArdpInv, NEW n \in Node, DisconnectTimerHandler(n)
  PROVE  Advances(n)
<1>1. conn[n] # NoConn /\ conn[n].conTimer = "disconnect" /\ UNCHANGED records
  BY DEF DisconnectTimerHandler, Exists
<1>2. PICK o \in Outcome \ {"error"} : o = "sent"
  BY DEF Outcome
<1>3. PICK s : s = Step(n, o)
  OBVIOUS
<1>4. Good(n, s, conn[Peer(n)], app[Peer(n)]) /\ s.c = conn[n] /\ s.a = app[n] /\ s.out = {}
  BY <1>1, <1>2, <1>3, StepGood
<1>5. Fits
  BY DEF Setting
<1>6. PICK cl : cl = IsClosed(s)
  OBVIOUS
<1>7. ClosedTo(n, s, cl, conn[Peer(n)], app[Peer(n)])
  <2>1. Ctl(n, s.c, s.a)
    BY <1>4 DEF Good, ConnOK
  <2>2. Closed(s.c)
    BY <2>1, <1>1, <1>4 DEF Ctl
  <2> QED
    BY <2>2, <1>4, <1>5, <1>6, ClosedStep
<1>8. Good(n, cl, conn[Peer(n)], app[Peer(n)]) /\ Closed(cl.c)
  BY <1>7 DEF ClosedTo, Stepped, Closed
<1>9. PICK t : t = Told(cl)
  OBVIOUS
<1>10. Stepped(n, cl, t, conn[Peer(n)], app[Peer(n)]) /\ t.out = cl.out /\ t.c.UNA = cl.c.UNA /\ t.a.held = cl.a.held
  BY <1>5, <1>8, <1>9, ToldStep
<1>11. Stepped(n, s, t, conn[Peer(n)], app[Peer(n)])
  BY <1>4, <1>5, <1>7, <1>8, <1>10, SteppedTrans DEF ClosedTo
<1>12. t.out = {} /\ t.c.UNA = s.c.UNA
  BY <1>4, <1>7, <1>10 DEF ClosedTo
<1>13. Finish(n, IF IsRcvQueueEmpty(cl.c) THEN [t EXCEPT !.c = NoConn] ELSE t, {})
  BY <1>2, <1>3, <1>6, <1>9, Zenon DEF DisconnectTimerHandler, IsClosed, Told, Flushed
<1>14. CASE IsRcvQueueEmpty(cl.c)
  <2>1. PICK u : u = [t EXCEPT !.c = NoConn]
    OBVIOUS
  <2>2. Drops(t, u) /\ Finish(n, u, {})
    BY <2>1, <1>13, <1>14 DEF Drops
  <2>3. t.a.held = <<>>
    BY <1>5, <1>8, <1>10, <1>14, NoneHeld
  <2> QED
    BY <2>2, <2>3, <1>1, <1>4, <1>11, <1>12, DropAdvances
<1>15. CASE ~IsRcvQueueEmpty(cl.c)
  <2>1. Finish(n, t, {})
    BY <1>13, <1>15
  <2>2. Quietly(n, s, t, conn[Peer(n)], app[Peer(n)])
    BY <1>11, <1>12 DEF Quietly
  <2> QED
    BY <2>1, <2>2, <1>1, <1>2, <1>3, QuietAdvances
<1> QED
  BY <1>14, <1>15

-----------------------------------------------------------------------------
(* ARDP_Send.                                                              *)

\* A step of a node that keeps its part of the invariant.
LEMMA ActsAfter ==
  ASSUME Fits, ArdpInv, NEW n \in Node, NEW d, NEW e, NEW j, NEW out, NEW arrived, NEW brk, NEW z,
         Took(n, d, e, j, out, arrived, brk, z), NodeStep(n, d, e, out, z), Phased(n, d, e, out, z),
         AppStep(n, app[n], e, app[Peer(n)].consumed, z = records[n])
  PROVE  Advances(n)
<1>p. PICK p \in Node : p = Peer(n)
  BY PeerNode
<1>1. ArdpInv'
  BY InvAfter
<1>2. After(n, p, d, e, out, arrived, z)
  BY <1>p, AfterStep
<1>3. app'[n] = e /\ app'[p] = app[p] /\ records'[n] = z /\ records'[p] = records[p]
  BY <1>2 DEF After
<1> QED
  BY <1>1, <1>3, <1>p DEF Advances, ActsOf

\* What an open node does with its upper layer, and how far it has received.
Serves(n, t) ==
  /\ Good(n, t, conn[Peer(n)], app[Peer(n)]) /\ Est(n, t.c)
  /\ Pos(Peer(n), conn[n].CUR) <= Pos(Peer(n), t.c.CUR)
  /\ Submits(n, app[n], t.a) \/ Consumes(app[n], t.a)

\* A step of an open node.
LEMMA OpenActs ==
  ASSUME Setting, ArdpInv, NEW n \in Node, conn[n] # NoConn, Est(n, conn[n]), NEW t, Serves(n, t),
         Finish(n, t, {}), UNCHANGED records
  PROVE  Advances(n)
<1>p. PICK p \in Node : p = Peer(n) /\ n # p
  BY PeerNode
<1>0. Types /\ records[n] = 1 /\ Fits /\ ~NotOpened
  BY RecordIs, OpenedNow DEF ArdpInv, Setting
<1>1. StepT(n, t) /\ AppOK(n, t.a, app[p]) /\ ConnOK(n, t.c, t.a, conn[p], app[p])
      /\ \A g \in t.out : SegOK(n, g, t.c, t.a, conn[p], app[p])
  BY <1>p DEF Serves, Good
<1>2. t.c \in Conn /\ AppT(n, t.a) /\ t.jam \in BOOLEAN /\ t.broken \subseteq Allowed
      /\ t.out \subseteq Segs /\ IsFiniteSet(t.out)
  BY <1>1 DEF StepT
<1>3. t.c # NoConn
  BY <1>2 DEF Conn, NoConn
<1>4. NodeOK(n, t.c, t.a, conn[p], app[p])
  BY <1>1, <1>3 DEF NodeOK
<1>5. Upward(app[n], t.a)
  <2>1. app[n].submitted \in Nat /\ app[n].consumed \in Nat
    <3>1. AppT(n, app[n])
      BY <1>0 DEF Types
    <3>2. PICK N \in Nat : N = Len(Msgs[n])
      BY <1>0, FirstIs DEF Count
    <3> QED
      BY <3>1, <3>2 DEF AppT
  <2>2. PICK x \in Nat, y \in Nat : x = app[n].submitted /\ y = app[n].consumed
    BY <2>1
  <2>3. \/ t.a.submitted = x + 1 /\ t.a.consumed = y
        \/ t.a.submitted = x /\ t.a.consumed = y + 1
    BY <2>2 DEF Serves, Submits, Consumes
  <2>4. x <= t.a.submitted /\ y <= t.a.consumed
    BY <2>3
  <2> QED
    BY <2>2, <2>4 DEF Upward
<1>6. Forward(n, conn[n], t.c, conn[p], UnderWay)
  BY <1>p DEF Serves, Forward, Knows
<1>7. NodeStep(n, t.c, t.a, t.out, 1)
  BY <1>0, <1>1, <1>2, <1>3, <1>4, <1>5, <1>6, <1>p DEF NodeStep, ConnT
<1>8. Phased(n, t.c, t.a, t.out, 1)
  BY <1>0 DEF Phased, Serves
<1>9. Took(n, t.c, t.a, t.jam, t.out, {}, t.broken, 1)
  <2>1. records' = [records EXCEPT ![n] = 1]
    BY <1>0, SameRecords
  <2> QED
    BY <2>1, <1>2, FinishTook
<1>10. AppStep(n, app[n], t.a, app[Peer(n)].consumed, 1 = records[n])
  BY DEF AppStep, Serves
<1> QED
  BY <1>0, <1>7, <1>8, <1>9, <1>10, ActsAfter

\* No more messages are consumed than were submitted.
LEMMA ConsumedIs ==
  ASSUME ArdpInv, NEW n \in Node
  PROVE  app[Peer(n)].consumed \in 0 .. app[n].submitted
<1>p. PICK p \in Node : p = Peer(n) /\ n = Peer(p)
  BY PeerNode
<1>1. AppOK(p, app[p], app[n]) /\ AppT(p, app[p])
  BY <1>p DEF ArdpInv, Nodes, NodeOK, Types
<1>2. RcvApp(n, app[p], app[n].submitted) /\ app[p].consumed \in Nat /\ app[p].rcvd \in Seq(Seq(Nat \X Nat))
  BY <1>1, <1>p DEF AppOK, AppT
<1>3. PICK x \in Nat : x = app[p].consumed
  BY <1>2
<1>4. PICK y \in Nat : y = Len(app[p].rcvd)
  BY <1>2, LenProperties
<1>5. AppT(n, app[n])
  BY DEF ArdpInv, Types
<1>6. PICK z \in Nat : z = app[n].submitted
  <2>1. PICK N \in Nat : N = Len(Msgs[n])
    BY MsgsAssumption, LenProperties
  <2> QED
    BY <1>5, <2>1 DEF AppT
<1>7. x <= y /\ y <= z
  BY <1>2, <1>3, <1>4, <1>6 DEF RcvApp
<1>8. x \in 0 .. z
  BY <1>7
<1> QED
  BY <1>3, <1>6, <1>8, <1>p

\* ARDP_Send.
LEMMA SendAction ==
  ASSUME Setting, ArdpInv, NEW n \in Node, ARDP_Send(n)
  PROVE  Advances(n)
<1>p. PICK p \in Node : p = Peer(n)
  BY PeerNode
<1>0. Fits /\ Reliable
  BY DEF Setting
<1>1. /\ conn[n] # NoConn /\ app[n].submitted < Len(Msgs[n])
      /\ Accepts(conn[n], Msgs[n][app[n].submitted + 1].fcnt)
  BY DEF ARDP_Send, Exists
<1>2. PICK os \in [1 .. Msgs[n][app[n].submitted + 1].fcnt -> Outcomes[n]] :
        Commit(n, [SendData(Step(n, "sent"), app[n].submitted + 1, Msgs[n][app[n].submitted + 1].fcnt,
                            Msgs[n][app[n].submitted + 1].ttl, os) EXCEPT !.a.submitted = app[n].submitted + 1])
  BY Zenon DEF ARDP_Send
<1>3. PICK N \in Nat : N = Count(n) /\ N = Len(Msgs[n]) /\ DOMAIN Msgs[n] = 1 .. N
  BY <1>0, FirstIs DEF Count
<1>4. PICK x \in Nat : x = app[n].submitted
  <2>1. AppT(n, app[n])
    BY DEF ArdpInv, Types
  <2>2. app[n].submitted \in 0 .. N
    BY <2>1, <1>3 DEF AppT
  <2> QED
    BY <2>2
<1>5. PICK m \in 1 .. N : m = x + 1
  BY <1>1, <1>3, <1>4
<1>6. m \in 1 .. Count(n) /\ m \in 1 .. Len(Msgs[n]) /\ m = app[n].submitted + 1
  BY <1>3, <1>4, <1>5
<1>7. PICK fcnt \in 1 .. SegMax : fcnt = Msgs[n][m].fcnt
  BY <1>0, <1>6, Message
<1>8. PICK ttl \in {"inf"} : Msgs[n][m].ttl = ttl
  BY <1>0, <1>6 DEF Reliable
<1>9. PICK o \in Outcome \ {"error"} : o = "sent"
  BY DEF Outcome
<1>10. PICK s : s = Step(n, o)
  OBVIOUS
<1>11. Good(n, s, conn[p], app[p]) /\ s.c = conn[n] /\ s.a = app[n] /\ s.out = {} /\ s.o = o
  BY <1>1, <1>9, <1>10, <1>p, StepGood
<1>12. PICK u : u = Entering(s, m, fcnt, ttl, os)
  OBVIOUS
<1>13. Commit(n, u)
  BY <1>2, <1>6, <1>7, <1>8, <1>9, <1>10, <1>12, Zenon DEF Entering
<1>14. Answers(os, fcnt)
  <2>1. os \in [1 .. fcnt -> Outcomes[n]]
    BY <1>2, <1>6, <1>7
  <2>2. \A k \in 1 .. fcnt : os[k] \in Outcomes[n]
    BY <2>1
  <2> QED
    BY <2>2, Answer DEF Answers
<1>15. Entered(n, s, u, m, conn[p], app[p])
  <2>1. s.c.state = "OPEN" /\ Accepts(s.c, fcnt)
    BY <1>1, <1>6, <1>7, <1>11 DEF Accepts
  <2>2. NextMessage(n, s.a, m, fcnt)
    BY <1>6, <1>7, <1>11 DEF NextMessage
  <2>3. app[p].consumed \in 0 .. s.a.submitted
    BY <1>11, <1>p, ConsumedIs
  <2> QED
    BY <2>1, <2>2, <2>3, <1>0, <1>6, <1>8, <1>11, <1>12, <1>14, SendDataStep
<1>16. Est(n, conn[n])
  BY <1>1, OpenEst DEF Accepts
<1>17. Serves(n, u)
  <2>1. Good(n, u, conn[p], app[p]) /\ u.a = [app[n] EXCEPT !.submitted = m] /\ Filling(conn[n], u.c)
    BY <1>11, <1>15 DEF Entered
  <2>2. Est(n, u.c) /\ u.c.CUR = conn[n].CUR
    BY <2>1, <1>16 DEF Filling, Est
  <2>3. Pos(p, conn[n].CUR) <= Pos(p, u.c.CUR)
    <3>1. u.c.CUR \in Seqs
      BY <2>1 DEF Good, StepT, Conn
    <3>2. Pos(p, u.c.CUR) \in 0 .. SeqSpace - 1
      BY <3>1, <1>0, PosOf
    <3>3. PICK y \in Nat : y = Pos(p, u.c.CUR)
      BY <3>2
    <3> QED
      BY <2>2, <3>3
  <2>4. Submits(n, app[n], u.a)
    <3>1. AppT(n, app[n])
      BY DEF ArdpInv, Types
    <3>2. /\ u.a.submitted = m /\ u.a.sendCb = app[n].sendCb /\ u.a.rcvd = app[n].rcvd
          /\ u.a.disconnectCb = app[n].disconnectCb /\ u.a.consumed = app[n].consumed
      BY <2>1, <3>1 DEF AppT
    <3>3. app[n].submitted < Count(n)
      BY <1>1, <1>3
    <3> QED
      BY <3>2, <3>3, <1>6 DEF Submits, Counts
  <2> QED
    BY <2>1, <2>2, <2>3, <2>4, <1>p DEF Serves
<1>18. Finish(n, u, {}) /\ UNCHANGED records
  BY <1>13 DEF Commit
<1> QED
  BY <1>1, <1>16, <1>17, <1>18, OpenActs

-----------------------------------------------------------------------------
(* ARDP_RecvReady.                                                         *)

\* The oldest message held, of F fragments from position W + 1 on, has been consumed.
ConsumedApp(a, e) ==
  /\ e.submitted = a.submitted /\ e.sendCb = a.sendCb /\ e.rcvd = a.rcvd
  /\ e.held = Tail(a.held) /\ e.consumed = a.consumed + 1
  /\ e.connectCb = a.connectCb /\ e.disconnectCb = a.disconnectCb

Oldest(p, a, sub, r, W, D, F) ==
  /\ Reach(p, a, sub, r, W, D) /\ a.consumed < r
  /\ a.consumed + 1 \in 1 .. Count(p) /\ F = Msgs[p][a.consumed + 1].fcnt
  /\ F <= SegMax /\ 1 <= F
  /\ First(p, a.consumed + 2) = (W + F) + 1 /\ W + F < D
  /\ Slot(p, W + 1) \in Ring /\ Head(a.held) = Slot(p, W + 1)

\* The oldest message that is held.
LEMMA OldestIs ==
  ASSUME Fits, NEW p \in Node, NEW a, NEW sub \in 0 .. Count(p), a.rcvd \in Seq(Seq(Nat \X Nat)),
         a.held \in Seq(Ring), a.consumed \in Nat, RcvApp(p, a, sub), a.held # <<>>,
         NEW r \in Nat, NEW W \in Nat, NEW D \in Nat, Reach(p, a, sub, r, W, D)
  PROVE  \E F \in Nat : Oldest(p, a, sub, r, W, D, F)
<1>1. /\ r = Len(a.rcvd) /\ r <= sub /\ sub <= Count(p) /\ a.consumed \in 0 .. r
      /\ W + 1 = First(p, a.consumed + 1) /\ D = First(p, r + 1)
  BY DEF Reach
<1>2. PICK q \in Nat : q = a.consumed
  OBVIOUS
<1>3. PICK z \in Nat : z = r - q
  BY <1>1, <1>2
<1>4. z # 0
  <2>1. Len(a.rcvd) - a.consumed = z
    BY <1>1, <1>2, <1>3
  <2> QED
    BY <2>1, HeldCount
<1>5. q < r /\ q \in 0 .. r
  BY <1>1, <1>2, <1>3, <1>4
<1>6. PICK N \in Nat : N = Count(p)
  BY FirstIs
<1>a. r <= N
  BY <1>1, <1>6
<1>b. q < r
  BY <1>5
<1>7. q + 1 \in 1 .. N /\ q + 2 \in 1 .. N + 1 /\ r + 1 \in 1 .. N + 1 /\ q + 2 <= r + 1
  BY <1>a, <1>b
<1>8. /\ Msgs[p][q + 1].fcnt \in 1 .. SegMax
      /\ First(p, (q + 1) + 1) = First(p, q + 1) + Msgs[p][q + 1].fcnt
  BY <1>6, <1>7, Message
<1>9. PICK F \in 1 .. SegMax : F = Msgs[p][q + 1].fcnt
  BY <1>8
<1>10. First(p, q + 2) = (W + F) + 1
  <2>1. (q + 1) + 1 = q + 2
    OBVIOUS
  <2>2. First(p, q + 2) = (W + 1) + F
    BY <2>1, <1>1, <1>2, <1>8, <1>9
  <2> QED
    BY <2>2
<1>11. W + F < D
  <2>1. First(p, q + 2) \in Nat /\ First(p, q + 2) + ((r + 1) - (q + 2)) <= First(p, r + 1)
    BY <1>6, <1>7, FirstMono
  <2>2. ((W + F) + 1) + ((r + 1) - (q + 2)) <= D
    BY <2>1, <1>1, <1>10
  <2> QED
    BY <2>2, <1>7
<1>12. Slot(p, W + 1) \in Ring
  <2>1. W + 1 \in W + 1 .. W + SegMax
    OBVIOUS
  <2> QED
    BY <2>1, WindowSlot
<1>13. Head(a.held) = Slot(p, W + 1)
  <2>1. a.held = [k \in 1 .. Len(a.rcvd) - a.consumed |-> Slot(p, First(p, a.consumed + k))]
    BY DEF RcvApp
  <2>2. 1 \in 1 .. z /\ Len(a.rcvd) - a.consumed = z
    BY <1>1, <1>2, <1>3, <1>4
  <2>3. a.held[1] = Slot(p, First(p, a.consumed + 1))
    BY <2>1, <2>2
  <2>4. Head(a.held) = a.held[1]
    BY HeadTailProperties
  <2> QED
    BY <2>3, <2>4, <1>1
<1>14. Oldest(p, a, sub, r, W, D, F)
  <2>1. F <= SegMax /\ 1 <= F
    OBVIOUS
  <2>2. q < r /\ q + 1 \in 1 .. Count(p) /\ F = Msgs[p][q + 1].fcnt /\ First(p, q + 2) = (W + F) + 1
    BY <1>b, <1>6, <1>7, <1>9, <1>10
  <2>3. a.consumed < r /\ a.consumed + 1 \in 1 .. Count(p) /\ F = Msgs[p][a.consumed + 1].fcnt
        /\ First(p, a.consumed + 2) = (W + F) + 1
    BY <2>2, <1>2, Zenon
  <2> QED
    BY <2>1, <2>3, <1>11, <1>12, <1>13 DEF Oldest
<1> QED
  BY <1>9, <1>14

\* The buffer in which it begins.
LEMMA OldestBuf ==
  ASSUME Fits, NEW p \in Node, NEW c, NEW a, NEW sub \in 0 .. Count(p), RcvHeld(p, c, a),
         NEW r \in Nat, NEW W \in Nat, NEW D \in Nat, NEW F \in Nat, Oldest(p, a, sub, r, W, D, F)
  PROVE  c.rbuf[Slot(p, W + 1)].seq = SeqAt(p, W + 1) /\ c.rbuf[Slot(p, W + 1)].fcnt = F
<1>1. /\ a.consumed + 1 \in 1 .. Count(p) /\ F = Msgs[p][a.consumed + 1].fcnt /\ 1 <= F
      /\ First(p, a.consumed + 2) = (W + F) + 1 /\ W + F < D
      /\ W + 1 = First(p, a.consumed + 1) /\ D = First(p, Len(a.rcvd) + 1) /\ a.consumed \in 0 .. r
  BY DEF Oldest, Reach
<1>2. PICK q \in Nat : q = a.consumed
  BY <1>1
<1>a. 1 <= F /\ W + F < D
  BY <1>1
<1>b. W + 1 \in W + 1 .. D - 1 /\ (W + 1) - 1 = W /\ W + 1 < (W + F) + 1
  BY <1>a
<1>3. First(p, a.consumed + 1) - 1 = W /\ W + 1 \in W + 1 .. D - 1
  BY <1>1, <1>b, Zenon
<1>4. RcvBufAt(p, c.rbuf[Slot(p, W + 1)], W + 1)
  BY <1>1, <1>3 DEF RcvHeld
<1>5. PICK bf : bf = c.rbuf[Slot(p, W + 1)]
  OBVIOUS
<1>6. PICK m \in 1 .. Len(Msgs[p]) : bf.fcnt = Msgs[p][m].fcnt /\ First(p, m) <= W + 1 /\ W + 1 < First(p, m + 1)
  BY <1>4, <1>5 DEF RcvBufAt
<1>7. m = q + 1
  <2>1. PICK N \in Nat : N = Count(p) /\ N = Len(Msgs[p])
    BY FirstIs DEF Count
  <2>2. m \in 1 .. Count(p) /\ q + 1 \in 1 .. Count(p)
    BY <2>1, <1>1, <1>2
  <2>3. (q + 1) + 1 = q + 2 /\ W + 1 <= W + 1
    OBVIOUS
  <2>4. First(p, q + 1) <= W + 1 /\ W + 1 < First(p, (q + 1) + 1)
    BY <2>3, <1>1, <1>2, <1>b, Zenon
  <2> QED
    BY <2>2, <2>4, <1>6, OneMessage
<1> QED
  BY <1>1, <1>2, <1>4, <1>5, <1>6, <1>7 DEF RcvBufAt

\* A message consumed is no longer held.
ConsumedTo(p, e, sub, r, W, D) ==
  e.held \in Seq(Ring) /\ e.consumed \in Nat /\ RcvApp(p, e, sub) /\ Reach(p, e, sub, r, W, D)

\* The upper layer moves on by one message.
LEMMA AppConsumes ==
  ASSUME Fits, NEW p \in Node, NEW a, NEW e, NEW sub \in 0 .. Count(p), a.rcvd \in Seq(Seq(Nat \X Nat)),
         a.held \in Seq(Ring), a.consumed \in Nat, RcvApp(p, a, sub), a.held # <<>>, ConsumedApp(a, e),
         NEW r \in Nat, NEW W \in Nat, NEW D \in Nat, NEW F \in Nat, Oldest(p, a, sub, r, W, D, F)
  PROVE  ConsumedTo(p, e, sub, r, W + F, D)
<1>1. /\ r = Len(a.rcvd) /\ r <= sub /\ sub <= Count(p) /\ a.consumed \in 0 .. r
      /\ D = First(p, r + 1) /\ D <= First(p, sub + 1) /\ First(p, sub + 1) <= Total(p)
      /\ a.consumed < r /\ First(p, a.consumed + 2) = (W + F) + 1 /\ W + F < D
  BY DEF Oldest, Reach
<1>2. PICK q \in Nat : q = a.consumed /\ q < r
  BY <1>1
<1>3. e.consumed = q + 1 /\ e.rcvd = a.rcvd
  BY <1>2 DEF ConsumedApp
<1>a. q < r
  BY <1>2
<1>4. PICK z \in Nat : z = r - (q + 1)
  BY <1>a
<1>b. z + 1 = r - q /\ q + 1 \in 0 .. r /\ q + 1 <= r
  BY <1>4, <1>a
<1>c. W + F < D
  BY <1>1
<1>d. (W + F) + 1 <= D
  BY <1>c
<1>5. Len(a.held) = z + 1
  <2>1. Len(a.rcvd) - a.consumed = z + 1
    BY <1>1, <1>2, <1>b
  <2> QED
    BY <2>1, HeldCount
<1>6. e.held \in Seq(Ring) /\ Len(e.held) = z /\ \A k \in 1 .. z : e.held[k] = a.held[k + 1]
  <2>1. e.held = Tail(a.held)
    BY DEF ConsumedApp
  <2>2. Tail(a.held) \in Seq(Ring) /\ Len(Tail(a.held)) = Len(a.held) - 1
        /\ \A k \in 1 .. Len(Tail(a.held)) : Tail(a.held)[k] = a.held[k + 1]
    BY HeadTailProperties
  <2>3. (z + 1) - 1 = z
    OBVIOUS
  <2> QED
    BY <2>1, <2>2, <2>3, <1>5
<1>7. e.held = [k \in 1 .. z |-> Slot(p, First(p, (q + 1) + k))]
  <2>1. ASSUME NEW k \in 1 .. z PROVE e.held[k] = Slot(p, First(p, (q + 1) + k))
    <3>1. a.held = [j \in 1 .. Len(a.rcvd) - a.consumed |-> Slot(p, First(p, a.consumed + j))]
      BY DEF RcvApp
    <3>2. Len(a.rcvd) - a.consumed = z + 1
      BY <1>1, <1>2, <1>b
    <3>3. k + 1 \in 1 .. z + 1 /\ q + (k + 1) = (q + 1) + k
      OBVIOUS
    <3>4. a.held[k + 1] = Slot(p, First(p, q + (k + 1)))
      BY <3>1, <3>2, <3>3, <1>2
    <3> QED
      BY <3>3, <3>4, <1>6
  <2>2. e.held = [k \in 1 .. z |-> e.held[k]]
    BY <1>6, LenProperties
  <2> QED
    BY <2>1, <2>2
<1>8. RcvApp(p, e, sub)
  <2>1. Len(e.rcvd) = r /\ e.consumed = q + 1 /\ r <= sub /\ q + 1 <= r /\ r - (q + 1) = z
    BY <1>1, <1>3, <1>4, <1>b, Zenon
  <2>2. e.rcvd = [k \in 1 .. r |-> FragsOf(p, k)]
    BY <1>1, <1>3 DEF RcvApp
  <2> QED
    BY <2>1, <2>2, <1>7 DEF RcvApp
<1>9. Reach(p, e, sub, r, W + F, D)
  <2>1. e.consumed \in 0 .. r /\ Len(e.rcvd) = r /\ (W + F) + 1 <= D
    BY <1>1, <1>3, <1>b, <1>d, Zenon
  <2>a. (q + 1) + 1 = q + 2
    OBVIOUS
  <2>2. (W + F) + 1 = First(p, e.consumed + 1)
    BY <2>a, <1>1, <1>2, <1>3, Zenon
  <2> QED
    BY <2>1, <2>2, <1>1 DEF Reach
<1> QED
  BY <1>3, <1>6, <1>8, <1>9 DEF ConsumedTo

\* A node that has consumed a message keeps its part of the invariant.
LEMMA ConsumedGood ==
  ASSUME Fits, NEW n \in Node, NEW s, NEW r, NEW b, Good(n, s, r, b), Est(n, s.c), NEW t, StepT(n, t),
         RcvOnly(s.c, t.c), ConsumedApp(s.a, t.a), t.out = {}, RcvApp(Peer(n), t.a, b.submitted),
         RcvOK(n, t.c, t.a, b.submitted), t.c.CUR = s.c.CUR
  PROVE  Good(n, t, r, b)
<1>1. PeerT(n, r, b) /\ AppOK(n, s.a, b)
      /\ Ctl(n, s.c, s.a) /\ SndOK(n, s.c, s.a, b.consumed)
      /\ (Knows(Peer(n), r) => Pos(n, s.c.UNA) <= Pos(n, r.CUR) + 1)
  BY DEF Good, ConnOK
<1>2. Est(n, t.c)
  BY DEF RcvOnly, Est
<1>3. Ctl(n, t.c, t.a)
  <2>1. /\ t.c.state = s.c.state /\ t.c.passive = s.c.passive /\ t.c.local = s.c.local
        /\ t.c.foreign = s.c.foreign /\ t.c.pending = s.c.pending /\ t.c.conTimer = s.c.conTimer
        /\ t.c.reason = s.c.reason /\ t.a.disconnectCb = s.a.disconnectCb /\ (Closed(t.c) <=> Closed(s.c))
    BY DEF RcvOnly, ConsumedApp, Closed
  <2>2. t.c.state \notin {"SYN_SENT", "SYN_RCVD"}
    BY <2>1, <1>1 DEF Ctl
  <2> QED
    BY <2>1, <2>2, <1>1, <1>2 DEF Ctl
<1>4. SndOK(n, t.c, t.a, b.consumed)
  <2>1. PICK f \in 1 .. s.a.submitted + 1 : SndAt(n, s.c, s.a, b.consumed, f)
    BY <1>1 DEF SndOK
  <2>2. EndOf(n, t.a) = EndOf(n, s.a) /\ t.a.submitted = s.a.submitted
    BY DEF EndOf, ConsumedApp
  <2>3. RingHolds(n, t.c, First(n, f) .. EndOf(n, t.a) - 1)
    BY <2>1, <2>2, RingSame DEF SndAt, RcvOnly
  <2>4. SndNumbers(n, t.c, t.a, b.consumed, f, EndOf(n, t.a))
    BY <2>1, <2>2 DEF SndAt, SndNumbers, RcvOnly
  <2>5. CbAt(n, t.a, f)
    BY <2>1 DEF SndAt, CbAt, ConsumedApp
  <2> QED
    BY <2>2, <2>1, <2>3, <2>4, <2>5 DEF SndOK, SndAt
<1>5. AppOK(n, t.a, b)
  <2>1. PICK f \in 1 .. s.a.submitted + 1 : CbAt(n, s.a, f)
    BY <1>1 DEF AppOK
  <2>2. CbAt(n, t.a, f) /\ f \in 1 .. t.a.submitted + 1
    BY <2>1 DEF CbAt, ConsumedApp
  <2>3. t.a.disconnectCb # <<>> => \A m \in 1 .. t.a.submitted : t.a.sendCb[m] # <<>>
    BY <1>1 DEF AppOK, ConsumedApp
  <2>4. EndOf(n, t.a) <= First(n, b.consumed + 1) + SegMax
    BY <1>1 DEF AppOK, EndOf, ConsumedApp
  <2> QED
    BY <2>2, <2>3, <2>4 DEF AppOK
<1>6. Knows(Peer(n), r) => Pos(n, t.c.UNA) <= Pos(n, r.CUR) + 1
  BY <1>1 DEF RcvOnly
<1> QED
  BY <1>1, <1>3, <1>4, <1>5, <1>6 DEF Good, ConnOK

\* The buffers of the positions from W + 1 to W + F.
Freeing(p, W, F) == {Slot(p, y) : y \in W + 1 .. W + F}

\* They are free in d, and the others are those of c.
RcvFreed(p, c, d, W, F) ==
  \A j \in Ring :
      IF j \in Freeing(p, W, F)
      THEN ~d.rbuf[j].inUse /\ ~d.rbuf[j].delivered /\ d.rbuf[j].ttl \in {c.rbuf[j].ttl, "inf"}
      ELSE d.rbuf[j] = c.rbuf[j]

\* The window of W and F, in a number space with room for it.
Room(p, W, F, T) ==
  /\ 1 <= F /\ F <= SegMax /\ W + F < T /\ T = Total(p)

\* The oldest message that is held has such a window.
LEMMA RoomIs ==
  ASSUME Fits, NEW p \in Node, NEW a, NEW sub \in 0 .. Count(p),
         NEW r \in Nat, NEW W \in Nat, NEW D \in Nat, NEW F \in Nat, Oldest(p, a, sub, r, W, D, F)
  PROVE  \E T \in Nat : Room(p, W, F, T)
<1>1. Reach(p, a, sub, r, W, D) /\ 1 <= F /\ F <= SegMax /\ W + F < D
  BY DEF Oldest
<1>2. PICK T \in Nat : T = Total(p) /\ D <= T
  BY <1>1, WindowSlot
<1>3. W + F < T
  BY <1>1, <1>2
<1> QED
  BY <1>1, <1>2, <1>3 DEF Room

\* The consumed buffers are those that follow the first one.
LEMMA FollowFreeing ==
  ASSUME Fits, NEW p \in Node, NEW W \in Nat, NEW F \in Nat, NEW T \in Nat, Room(p, W, F, T)
  PROVE  Follow(Slot(p, W + 1), F) = Freeing(p, W, F)
<1>1. 1 <= F /\ F <= SegMax /\ W + F < T /\ T = Total(p)
  BY DEF Room
<1>2. PICK x \in Nat : x = W + 1
  OBVIOUS
<1>3. x + F <= Total(p) + SegMax + 1
  <2>1. x + F <= T + SegMax + 1
    BY <1>1, <1>2
  <2> QED
    BY <2>1, <1>1
<1>4. Follow(Slot(p, x), F) = {Slot(p, y) : y \in x .. x + F - 1}
  BY <1>3, FollowSlots
<1>5. x + F - 1 = W + F
  BY <1>2
<1> QED
  BY <1>2, <1>4, <1>5 DEF Freeing

\* Which positions of the window have these buffers.
LEMMA KeptSlot ==
  ASSUME Fits, NEW p \in Node, NEW W \in Nat, NEW F \in Nat, NEW T \in Nat, Room(p, W, F, T),
         NEW x \in (W + F) + 1 .. W + SegMax
  PROVE  Slot(p, x) \in Ring /\ Slot(p, x) \notin Freeing(p, W, F)
<1>1. 1 <= F /\ F <= SegMax /\ W + F < T /\ T = Total(p)
  BY DEF Room
<1>2. x \in 0 .. Total(p) + SegMax
  <2>1. x \in 0 .. T + SegMax
    BY <1>1
  <2> QED
    BY <2>1, <1>1
<1>3. Slot(p, x) \in Ring
  BY <1>2, SlotIs
<1>4. ASSUME NEW y \in W + 1 .. W + F, Slot(p, x) = Slot(p, y) PROVE FALSE
  <2>1. y \in 0 .. T + SegMax /\ x - y < SegMax /\ y - x < SegMax /\ x # y
    BY <1>1
  <2>2. y \in 0 .. Total(p) + SegMax
    BY <2>1, <1>1
  <2> QED
    BY <1>2, <1>4, <2>1, <2>2, SlotDistinct
<1> QED
  BY <1>3, <1>4 DEF Freeing

\* A position that enters the window has the buffer of one that leaves it.
LEMMA FreedSlot ==
  ASSUME Fits, NEW p \in Node, NEW W \in Nat, NEW F \in Nat, NEW T \in Nat, Room(p, W, F, T),
         NEW x \in (W + SegMax) + 1 .. (W + F) + SegMax
  PROVE  Slot(p, x) \in Ring /\ Slot(p, x) \in Freeing(p, W, F)
<1>1. 1 <= F /\ F <= SegMax /\ W + F < T /\ T = Total(p)
  BY DEF Room
<1>2. PICK y \in W + 1 .. W + F : x = y + SegMax
  <2>1. x - SegMax \in W + 1 .. W + F /\ x = (x - SegMax) + SegMax
    BY <1>1
  <2> QED
    BY <2>1
<1>3. y + SegMax <= Total(p) + SegMax /\ y \in 0 .. Total(p) + SegMax /\ y \in Nat
  <2>1. y + SegMax <= T + SegMax /\ y \in 0 .. T + SegMax
    BY <1>1
  <2> QED
    BY <2>1, <1>1
<1>4. Slot(p, y) \in Ring
  BY <1>3, SlotIs
<1>5. (Slot(p, y) + SegMax) % SegMax = Slot(p, y + SegMax)
  BY <1>3, SlotNext
<1>6. (Slot(p, y) + SegMax) % SegMax = Slot(p, y)
  <2>1. PICK i \in 0 .. SegMax - 1 : i = Slot(p, y)
    BY <1>4 DEF Ring
  <2>2. (i + SegMax) % SegMax = i
    OBVIOUS
  <2> QED
    BY <2>1, <2>2
<1>7. Slot(p, x) = Slot(p, y)
  BY <1>2, <1>5, <1>6
<1> QED
  BY <1>4, <1>7 DEF Freeing

\* What is still held after a message was consumed.
LEMMA HeldAfter ==
  ASSUME Fits, NEW p \in Node, NEW c, NEW d, NEW a, NEW e, NEW sub \in 0 .. Count(p), RcvHeld(p, c, a),
         NEW r \in Nat, NEW W \in Nat, NEW D \in Nat, NEW F \in Nat, Oldest(p, a, sub, r, W, D, F),
         Reach(p, e, sub, r, W + F, D), RcvFreed(p, c, d, W, F)
  PROVE  RcvHeld(p, d, e)
<1>1. PICK T \in Nat : Room(p, W, F, T)
  BY RoomIs
<1>2. Reach(p, a, sub, r, W, D) /\ 1 <= F /\ F <= SegMax /\ W + F < D
  BY DEF Oldest
<1>3. W + 1 = First(p, a.consumed + 1) /\ D = First(p, Len(a.rcvd) + 1)
  BY <1>2 DEF Reach
<1>a. (W + 1) - 1 = W /\ ((W + F) + 1) - 1 = W + F
  OBVIOUS
<1>4. First(p, a.consumed + 1) - 1 = W
  BY <1>3, <1>a, Zenon
<1>5. /\ D - 1 - W <= SegMax
      /\ \A x \in W + 1 .. D - 1 : LET b == c.rbuf[Slot(p, x)] IN b.delivered /\ RcvBufAt(p, b, x)
  BY <1>3, <1>4 DEF RcvHeld
<1>6. (W + F) + 1 = First(p, e.consumed + 1) /\ D = First(p, Len(e.rcvd) + 1)
  BY DEF Reach
<1>7. First(p, e.consumed + 1) - 1 = W + F
  BY <1>6, <1>a, Zenon
<1>8. ASSUME NEW x \in (W + F) + 1 .. D - 1
      PROVE  LET b == d.rbuf[Slot(p, x)] IN b.delivered /\ RcvBufAt(p, b, x)
  <2>1. D - 1 - W <= SegMax /\ F \in Nat
    BY <1>5
  <2>2. x \in (W + F) + 1 .. W + SegMax /\ x \in W + 1 .. D - 1
    BY <2>1
  <2>3. Slot(p, x) \in Ring /\ Slot(p, x) \notin Freeing(p, W, F)
    BY <2>2, <1>1, KeptSlot
  <2>4. d.rbuf[Slot(p, x)] = c.rbuf[Slot(p, x)]
    BY <2>3 DEF RcvFreed
  <2> QED
    BY <2>2, <2>4, <1>5
<1>9. D - 1 - (W + F) <= SegMax
  <2>1. D - 1 - W <= SegMax
    BY <1>5
  <2> QED
    BY <2>1
<1> QED
  BY <1>6, <1>7, <1>8, <1>9 DEF RcvHeld

\* What the window of a receiver is after a message was consumed.
LEMMA WindowAfter ==
  ASSUME Fits, NEW p \in Node, NEW c, NEW d, NEW a, NEW sub \in 0 .. Count(p), NEW C \in Nat,
         NEW r \in Nat, NEW W \in Nat, NEW D \in Nat, NEW F \in Nat, Oldest(p, a, sub, r, W, D, F),
         RcvParts(p, c, sub, r, W, D, C), RcvFreed(p, c, d, W, F), d.eack = c.eack, Pos(p, d.rLCS) = W + F
  PROVE  RcvParts(p, d, sub, r, W + F, D, C)
<1>1. PICK T \in Nat : Room(p, W, F, T)
  BY RoomIs
<1>2. 1 <= F /\ F <= SegMax /\ W + F < D
  BY DEF Oldest
<1>3. RcvFront(p, sub, r, W, D, C) /\ RcvRing(p, c, sub, W, D, C)
      /\ (\A i \in Ring : c.rbuf[i].ttl = "inf") /\ RcvMask(p, c, W, C)
  BY DEF RcvParts
<1>4. D - 1 <= C /\ C <= W + SegMax
  BY <1>3 DEF RcvFront
<1>5. RcvFront(p, sub, r, W + F, D, C)
  <2>1. C <= (W + F) + SegMax
    BY <1>4
  <2> QED
    BY <2>1, <1>3 DEF RcvFront
<1>6. ASSUME NEW x \in (W + F) + 1 .. W + SegMax
      PROVE  x \in W + 1 .. W + SegMax /\ d.rbuf[Slot(p, x)] = c.rbuf[Slot(p, x)]
  <2>1. Slot(p, x) \in Ring /\ Slot(p, x) \notin Freeing(p, W, F)
    BY <1>1, KeptSlot
  <2> QED
    BY <2>1, <1>2 DEF RcvFreed
<1>7. ASSUME NEW x \in (W + SegMax) + 1 .. (W + F) + SegMax
      PROVE  ~d.rbuf[Slot(p, x)].inUse /\ ~d.rbuf[Slot(p, x)].delivered
  <2>1. Slot(p, x) \in Ring /\ Slot(p, x) \in Freeing(p, W, F)
    BY <1>1, FreedSlot
  <2> QED
    BY <2>1 DEF RcvFreed
<1>8. RcvRing(p, d, sub, W + F, D, C)
  <2> SUFFICES ASSUME NEW x \in (W + F) + 1 .. (W + F) + SegMax
               PROVE  RcvBufOK(p, d.rbuf[Slot(p, x)], sub, D, C, x)
    BY DEF RcvRing
  <2>1. CASE x <= W + SegMax
    <3>1. x \in (W + F) + 1 .. W + SegMax
      BY <2>1
    <3> QED
      BY <3>1, <1>3, <1>6 DEF RcvRing
  <2>2. CASE ~(x <= W + SegMax)
    <3>1. x \in (W + SegMax) + 1 .. (W + F) + SegMax
      BY <2>2
    <3>2. ~(x < D) /\ ~(x <= C)
      BY <2>2, <1>4
    <3> QED
      BY <3>1, <3>2, <1>7 DEF RcvBufOK
  <2> QED
    BY <2>1, <2>2
<1>9. \A i \in Ring : d.rbuf[i].ttl = "inf"
  BY <1>3 DEF RcvFreed
<1>10. RcvMask(p, d, W + F, C)
  <2>1. ASSUME NEW z \in Nat \ {0}
        PROVE  (C + 1 + z <= W + SegMax /\ c.rbuf[Slot(p, C + 1 + z)].inUse) <=>
               (C + 1 + z <= (W + F) + SegMax /\ d.rbuf[Slot(p, C + 1 + z)].inUse)
    <3>1. PICK x \in Nat : x = C + 1 + z /\ C < x
      OBVIOUS
    <3>2. CASE x <= W + SegMax
      <4>1. x \in (W + F) + 1 .. W + SegMax /\ x <= (W + F) + SegMax
        BY <3>1, <3>2, <1>2, <1>4
      <4> QED
        BY <4>1, <3>1, <3>2, <1>6
    <3>3. CASE ~(x <= W + SegMax)
      <4>1. CASE x <= (W + F) + SegMax
        <5>1. x \in (W + SegMax) + 1 .. (W + F) + SegMax
          BY <3>3, <4>1
        <5> QED
          BY <5>1, <3>1, <3>3, <1>7
      <4>2. CASE ~(x <= (W + F) + SegMax)
        BY <4>2, <3>1, <3>3
      <4> QED
        BY <4>1, <4>2
    <3> QED
      BY <3>2, <3>3
  <2> QED
    BY <2>1, <1>3 DEF RcvMask
<1> QED
  BY <1>5, <1>8, <1>9, <1>10 DEF RcvParts

\* And the buffer for the segment that it waits for is free.
LEMMA WaitsAfter ==
  ASSUME Fits, NEW p \in Node, NEW c, NEW d, NEW a, NEW sub \in 0 .. Count(p), NEW C \in Nat,
         NEW r \in Nat, NEW W \in Nat, NEW D \in Nat, NEW F \in Nat, Oldest(p, a, sub, r, W, D, F),
         RcvParts(p, c, sub, r, W, D, C), RcvFreed(p, c, d, W, F),
         C < W + SegMax => ~c.rbuf[Slot(p, C + 1)].inUse, C < (W + F) + SegMax
  PROVE  ~d.rbuf[Slot(p, C + 1)].inUse
<1>1. PICK T \in Nat : Room(p, W, F, T)
  BY RoomIs
<1>2. 1 <= F /\ F <= SegMax /\ W + F < D
  BY DEF Oldest
<1>3. D - 1 <= C /\ C <= W + SegMax
  BY DEF RcvParts, RcvFront
<1>4. CASE C < W + SegMax
  <2>1. C + 1 \in (W + F) + 1 .. W + SegMax
    BY <1>2, <1>3, <1>4
  <2>2. Slot(p, C + 1) \in Ring /\ Slot(p, C + 1) \notin Freeing(p, W, F)
    BY <2>1, <1>1, KeptSlot
  <2> QED
    BY <2>2, <1>4 DEF RcvFreed
<1>5. CASE ~(C < W + SegMax)
  <2>1. C + 1 \in (W + SegMax) + 1 .. (W + F) + SegMax
    BY <1>3, <1>5
  <2>2. Slot(p, C + 1) \in Ring /\ Slot(p, C + 1) \in Freeing(p, W, F)
    BY <2>1, <1>1, FreedSlot
  <2> QED
    BY <2>2 DEF RcvFreed
<1> QED
  BY <1>4, <1>5

\* When no buffer has expired, no run of expired buffers follows.
LEMMA NoRun ==
  ASSUME NEW c, \A j \in Ring : c.rbuf[j].ttl = "inf", NEW i \in Nat, NEW m \in Nat
  PROVE  ExpiredRcvRun(c, i, m) = 0
<1>1. PICK S : S = {k \in 0 .. m : \A j \in Follow(i, k) : c.rbuf[j].ttl = "expired" /\ ~c.rbuf[j].delivered}
  OBVIOUS
<1>2. 0 \in S
  <2>1. Follow(i, 0) = {}
    BY DEF Follow
  <2>2. 0 \in 0 .. m
    OBVIOUS
  <2> QED
    BY <1>1, <2>1, <2>2
<1>3. ASSUME NEW k \in S PROVE k = 0
  <2>1. k \in 0 .. m /\ \A j \in Follow(i, k) : c.rbuf[j].ttl = "expired"
    BY <1>1
  <2>2. CASE 1 <= k
    <3>1. (i + 0) % SegMax \in Follow(i, k)
      <4>1. 0 \in 0 .. k - 1
        BY <2>1, <2>2
      <4> QED
        BY <4>1 DEF Follow
    <3>2. (i + 0) % SegMax \in Ring
      BY DEF Ring
    <3>3. PICK x \in Ttl : x = "expired"
      BY DEF Ttl
    <3>4. c.rbuf[(i + 0) % SegMax].ttl = "expired" /\ c.rbuf[(i + 0) % SegMax].ttl = "inf"
      BY <2>1, <3>1, <3>2
    <3> QED
      BY <3>4
  <2> QED
    BY <2>1, <2>2
<1>4. S = {0}
  BY <1>2, <1>3
<1>5. Max({0}) = 0
  BY DEF Max
<1> QED
  BY <1>1, <1>4, <1>5 DEF ExpiredRcvRun

\* u is s after the upper layer has given a message back.
TakenBack(n, s, u) ==
  StepT(n, u) /\ u.c = s.c /\ ConsumedApp(s.a, u.a) /\ u.out = s.out

\* What ARDP_RecvReady does to the record of the upper layer.
LEMMA TakenBackIs ==
  ASSUME NEW n \in Node, NEW s, StepT(n, s), s.a.held # <<>>, NEW u,
         u = [s EXCEPT !.a.held = Tail(@), !.a.consumed = @ + 1]
  PROVE  TakenBack(n, s, u)
<1>1. Shape(s) /\ AppT(n, s.a)
  BY DEF StepT
<1>2. s.a.held \in Seq(Ring) /\ s.a.consumed \in Nat
  BY <1>1 DEF AppT
<1>3. PICK h \in Seq(Ring) : h = Tail(s.a.held)
  BY <1>2, HeadTailProperties
<1>4. PICK q \in Nat : q = s.a.consumed + 1
  BY <1>2
<1>5. u = [s EXCEPT !.a.held = h, !.a.consumed = q]
  BY <1>3, <1>4
<1>6. PICK e : e = [s.a EXCEPT !.held = h, !.consumed = q]
  OBVIOUS
<1>7. /\ Shape(u) /\ u.c = s.c /\ u.a = e /\ u.jam = s.jam /\ u.out = s.out
      /\ u.o = s.o /\ u.ok = s.ok /\ u.broken = s.broken
  BY <1>1, <1>5, <1>6 DEF Shape
<1>8. /\ e.submitted = s.a.submitted /\ e.sendCb = s.a.sendCb /\ e.rcvd = s.a.rcvd /\ e.held = h
      /\ e.consumed = q /\ e.connectCb = s.a.connectCb /\ e.disconnectCb = s.a.disconnectCb
      /\ e = [submitted |-> e.submitted, sendCb |-> e.sendCb, rcvd |-> e.rcvd, held |-> e.held,
              consumed |-> e.consumed, connectCb |-> e.connectCb, disconnectCb |-> e.disconnectCb]
  BY <1>1, <1>6 DEF AppT
<1>9. AppT(n, e)
  BY <1>1, <1>8 DEF AppT
<1>10. ConsumedApp(s.a, e)
  BY <1>3, <1>4, <1>8 DEF ConsumedApp
<1>11. StepT(n, u)
  BY <1>7, <1>9 DEF StepT
<1> QED
  BY <1>7, <1>10, <1>11 DEF TakenBack

\* t is u with another ring of receive buffers, and its last consumed number.
RingSet(n, u, t, ring, lcs) ==
  /\ StepT(n, t) /\ RcvOnly(u.c, t.c) /\ t.a = u.a /\ t.out = u.out
  /\ t.c.CUR = u.c.CUR /\ t.c.eack = u.c.eack /\ t.c.rbuf = ring /\ t.c.rLCS = lcs

Reset(u, t, ring, lcs) ==
  \/ t = [u EXCEPT !.c.rbuf = ring]
  \/ t = [u EXCEPT !.c.rbuf = ring, !.c.rLCS = lcs, !.c.CUR = u.c.CUR, !.c.ackTimer = TRUE]

\* A new ring of receive buffers, whether the numbers are set with it or not.
LEMMA RingSetIs ==
  ASSUME NEW n \in Node, NEW u, StepT(n, u), NEW ring \in [Ring -> RcvBuf], NEW lcs \in Seqs, NEW t,
         Reset(u, t, ring, lcs), t = [u EXCEPT !.c.rbuf = ring] => lcs = u.c.rLCS
  PROVE  RingSet(n, u, t, ring, lcs)
<1>1. Shape(u) /\ u.c \in Conn
  BY DEF StepT
<1>2. PICK d : d = IF t = [u EXCEPT !.c.rbuf = ring] THEN [u.c EXCEPT !.rbuf = ring]
                   ELSE [u.c EXCEPT !.rbuf = ring, !.rLCS = lcs, !.CUR = u.c.CUR, !.ackTimer = TRUE]
  OBVIOUS
<1>3. d \in Conn /\ RcvOnly(u.c, d) /\ d.CUR = u.c.CUR /\ d.eack = u.c.eack /\ d.rbuf = ring /\ d.rLCS = lcs
  <2>1. CASE t = [u EXCEPT !.c.rbuf = ring]
    <3>1. d = [u.c EXCEPT !.rbuf = ring] /\ lcs = u.c.rLCS
      BY <1>2, <2>1
    <3>2. d \in Conn
      <4>1. u.c \in Conn
        BY <1>1
      <4> QED
        BY <3>1, <4>1 DEF Conn
    <3> QED
      BY <1>1, <3>1, <3>2 DEF Conn, RcvOnly
  <2>2. CASE t # [u EXCEPT !.c.rbuf = ring]
    <3>1. d = [u.c EXCEPT !.rbuf = ring, !.rLCS = lcs, !.CUR = u.c.CUR, !.ackTimer = TRUE]
      BY <1>2, <2>2
    <3>2. d \in Conn
      <4>1. u.c \in Conn
        BY <1>1
      <4> QED
        BY <3>1, <4>1 DEF Conn
    <3> QED
      BY <1>1, <3>1, <3>2 DEF Conn, RcvOnly
  <2> QED
    BY <2>1, <2>2
<1>4. /\ Shape(t) /\ t.c = d /\ t.a = u.a /\ t.jam = u.jam /\ t.out = u.out
      /\ t.o = u.o /\ t.ok = u.ok /\ t.broken = u.broken
  <2>1. CASE t = [u EXCEPT !.c.rbuf = ring]
    BY <1>1, <1>2, <2>1 DEF Shape
  <2>2. CASE t # [u EXCEPT !.c.rbuf = ring]
    <3>1. t = [u EXCEPT !.c.rbuf = ring, !.c.rLCS = lcs, !.c.CUR = u.c.CUR, !.c.ackTimer = TRUE]
      BY <2>2 DEF Reset
    <3>2. d = [u.c EXCEPT !.rbuf = ring, !.rLCS = lcs, !.CUR = u.c.CUR, !.ackTimer = TRUE]
      BY <1>2, <2>2
    <3> QED
      BY <1>1, <3>1, <3>2 DEF Shape
  <2> QED
    BY <2>1, <2>2
<1>5. StepT(n, t)
  BY <1>3, <1>4 DEF StepT
<1> QED
  BY <1>3, <1>4, <1>5 DEF RingSet

\* A ring in which the buffers G were emptied.
Emptied(c, G) == [j \in Ring |-> IF j \in G THEN FreeRcvBuf(c.rbuf[j].seq) ELSE c.rbuf[j]]
Unheld(c, G) ==
  [j \in Ring |-> IF j \in G THEN [c.rbuf[j] EXCEPT !.inUse = FALSE, !.delivered = FALSE] ELSE c.rbuf[j]]

EmptyRing(c, ring, G) ==
  /\ ring \in [Ring -> RcvBuf]
  /\ \A j \in Ring : IF j \in G THEN ~ring[j].inUse /\ ~ring[j].delivered /\ ring[j].ttl \in {c.rbuf[j].ttl, "inf"}
                     ELSE ring[j] = c.rbuf[j]

\* Both ways of giving buffers back empty them.
LEMMA EmptiedIs ==
  ASSUME NEW c \in Conn, NEW G, NEW ring, ring = Emptied(c, G) \/ ring = Unheld(c, G)
  PROVE  EmptyRing(c, ring, G)
<1>1. PICK old \in [Ring -> RcvBuf] : old = c.rbuf
  BY DEF Conn
<1>2. ASSUME NEW j \in Ring
      PROVE  /\ FreeRcvBuf(old[j].seq) \in RcvBuf /\ [old[j] EXCEPT !.inUse = FALSE, !.delivered = FALSE] \in RcvBuf
             /\ ~FreeRcvBuf(old[j].seq).inUse /\ ~FreeRcvBuf(old[j].seq).delivered /\ FreeRcvBuf(old[j].seq).ttl = "inf"
             /\ ~[old[j] EXCEPT !.inUse = FALSE, !.delivered = FALSE].inUse
             /\ ~[old[j] EXCEPT !.inUse = FALSE, !.delivered = FALSE].delivered
             /\ [old[j] EXCEPT !.inUse = FALSE, !.delivered = FALSE].ttl = old[j].ttl
  <2>1. PICK bf \in RcvBuf : bf = old[j]
    OBVIOUS
  <2>2. FreeRcvBuf(bf.seq) \in RcvBuf
    <3>1. bf.seq \in Seqs /\ 0 \in Seqs /\ 0 \in 0 .. SegMax /\ NoData \in Data /\ "inf" \in Ttl
      BY DEF RcvBuf, Seqs, Data, Ttl
    <3> QED
      BY <3>1 DEF FreeRcvBuf, RcvBuf
  <2>3. [bf EXCEPT !.inUse = FALSE, !.delivered = FALSE] \in RcvBuf
    BY DEF RcvBuf
  <2>4. /\ ~[bf EXCEPT !.inUse = FALSE, !.delivered = FALSE].inUse
        /\ ~[bf EXCEPT !.inUse = FALSE, !.delivered = FALSE].delivered
        /\ [bf EXCEPT !.inUse = FALSE, !.delivered = FALSE].ttl = bf.ttl
    BY DEF RcvBuf
  <2>5. ~FreeRcvBuf(bf.seq).inUse /\ ~FreeRcvBuf(bf.seq).delivered /\ FreeRcvBuf(bf.seq).ttl = "inf"
    BY DEF FreeRcvBuf
  <2> QED
    BY <2>1, <2>2, <2>3, <2>4, <2>5
<1>3. CASE ring = Emptied(c, G)
  <2>1. ring = [j \in Ring |-> IF j \in G THEN FreeRcvBuf(old[j].seq) ELSE old[j]]
    BY <1>1, <1>3 DEF Emptied
  <2> QED
    BY <2>1, <1>1, <1>2 DEF EmptyRing
<1>4. CASE ring = Unheld(c, G)
  <2>1. ring = [j \in Ring |-> IF j \in G THEN [old[j] EXCEPT !.inUse = FALSE, !.delivered = FALSE] ELSE old[j]]
    BY <1>1, <1>4 DEF Unheld
  <2> QED
    BY <2>1, <1>1, <1>2 DEF EmptyRing
<1> QED
  BY <1>3, <1>4

\* t is u after the buffers of W + 1 .. W + F were released.
GivenBack(n, u, t, p, W, F) ==
  \E ring : /\ EmptyRing(u.c, ring, Freeing(p, W, F)) /\ RingSet(n, u, t, ring, t.c.rLCS)
            /\ Pos(p, t.c.rLCS) = W + F

\* ReleaseRcvBuffers when the oldest message has been consumed.
LEMMA ReleaseIs ==
  ASSUME Fits, NEW n \in Node, NEW p \in Node, NEW u, StepT(n, u), NEW a, NEW sub \in 0 .. Count(p), NEW C \in Nat,
         NEW r \in Nat, NEW W \in Nat, NEW D \in Nat, NEW F \in Nat, Oldest(p, a, sub, r, W, D, F),
         RcvParts(p, u.c, sub, r, W, D, C), C = Pos(p, u.c.CUR),
         u.c.rbuf[Slot(p, W + 1)].seq = SeqAt(p, W + 1)
  PROVE  GivenBack(n, u, ReleaseRcvBuffers(u, SeqAt(p, W + 1), F, FALSE), p, W, F)
<1>1. u.c \in Conn
  BY DEF StepT
<1>2. PICK T \in Nat : Room(p, W, F, T)
  BY RoomIs
<1>3. 1 <= F /\ F <= SegMax /\ W + F < T /\ T = Total(p)
  BY <1>2 DEF Room
<1>4. W + SegMax < Half /\ Half + Half = SeqSpace /\ Half \in Nat
  <2>1. Reach(p, a, sub, r, W, D)
    BY DEF Oldest
  <2>2. PICK U \in Nat : U = Total(p) /\ W + 1 <= D /\ D <= U /\ U + SegMax < Half /\ Half \in Nat /\ Half + Half = SeqSpace
    BY <2>1, WindowSlot
  <2> QED
    BY <2>2
<1>5. Pos(p, u.c.rLCS) = W /\ D - 1 <= C /\ C <= W + SegMax /\ W + F < D /\ \A j \in Ring : u.c.rbuf[j].ttl = "inf"
  BY DEF RcvParts, RcvFront, Oldest
<1>6. PICK q \in Seqs : q = u.c.rLCS
  BY <1>1 DEF Conn
<1>7. PICK cur \in Seqs : cur = u.c.CUR
  BY <1>1 DEF Conn
<1>8. PICK seq : seq = SeqAt(p, W + 1)
  OBVIOUS
<1>9. Plus(q, 1) = seq
  <2>1. Pos(p, q) + 1 < SeqSpace /\ Pos(p, q) = W
    BY <1>4, <1>5, <1>6
  <2>2. PICK k \in Nat : k = 1
    OBVIOUS
  <2>3. Pos(p, q) + k < SeqSpace
    BY <2>1, <2>2
  <2>4. Plus(q, k) \in Seqs /\ Pos(p, Plus(q, k)) = Pos(p, q) + k
    BY <2>3, PosPlus
  <2>5. Plus(q, 1) \in Seqs /\ Pos(p, Plus(q, 1)) = W + 1
    BY <2>1, <2>2, <2>4
  <2> QED
    BY <2>5, <1>8, PosOf
<1>10. PICK lcs \in Seqs : lcs = Plus(q, F) /\ Pos(p, lcs) = W + F
  <2>1. Pos(p, q) + F < SeqSpace /\ Pos(p, q) = W
    BY <1>3, <1>4, <1>5, <1>6
  <2> QED
    BY <2>1, PosPlus
<1>11. ~SEQ32_LT(cur, lcs)
  <2>1. Pos(p, cur) = C /\ C < Half /\ W + F < Half /\ ~(C < W + F)
    BY <1>3, <1>4, <1>5, <1>7
  <2>2. Pos(p, cur) < Half /\ Pos(p, lcs) < Half /\ ~(Pos(p, cur) < Pos(p, lcs))
    BY <2>1, <1>10
  <2> QED
    BY <2>2, PosLT
<1>12. F + ExpiredRcvRun(u.c, (Idx(seq) + F) % SegMax, SegMax - F) = F
  <2>1. PICK i \in Ring : i = Idx(seq)
    <3>1. Slot(p, W + 1) \in Ring
      BY DEF Oldest
    <3> QED
      BY <3>1, <1>8 DEF Slot
  <2>2. PICK x \in Nat : x = (i + F) % SegMax
    BY DEF Ring
  <2>3. PICK y \in Nat : y = SegMax - F
    BY <1>3
  <2>4. ExpiredRcvRun(u.c, x, y) = 0
    BY <1>5, NoRun
  <2>5. ExpiredRcvRun(u.c, (Idx(seq) + F) % SegMax, SegMax - F) = 0
    BY <2>1, <2>2, <2>3, <2>4
  <2> QED
    BY <2>5
<1>13. PICK G : G = Freeing(p, W, F)
  OBVIOUS
<1>14. Follow(Idx(seq), F) = G
  BY <1>2, <1>8, <1>13, FollowFreeing DEF Slot
<1>15. u.c.rbuf[Idx(seq)].seq = seq
  BY <1>8 DEF Slot
<1>16. PICK ring : ring = Emptied(u.c, G)
  OBVIOUS
<1>17. EmptyRing(u.c, ring, G)
  BY <1>1, <1>16, EmptiedIs
<1>18. PICK t : t = ReleaseRcvBuffers(u, seq, F, FALSE)
  OBVIOUS
<1>19. t = [u EXCEPT !.c.rbuf = ring, !.c.rLCS = lcs, !.c.CUR = u.c.CUR, !.c.ackTimer = TRUE]
  <2>1. t = StartAckTimer([u EXCEPT
                !.c.rbuf = [j \in Ring |-> IF j \in G THEN FreeRcvBuf(@[j].seq) ELSE @[j]],
                !.c.rLCS = lcs,
                !.c.CUR = IF SEQ32_LT(@, lcs) THEN lcs ELSE @])
    BY <1>6, <1>9, <1>10, <1>12, <1>14, <1>15, <1>18, Zenon DEF ReleaseRcvBuffers
  <2>2. u.c.CUR = (IF SEQ32_LT(u.c.CUR, lcs) THEN lcs ELSE u.c.CUR)
    BY <1>7, <1>11
  <2>3. ring = [j \in Ring |-> IF j \in G THEN FreeRcvBuf(u.c.rbuf[j].seq) ELSE u.c.rbuf[j]]
    BY <1>16 DEF Emptied
  <2> QED
    BY <2>1, <2>2, <2>3 DEF StartAckTimer
<1>20. Reset(u, t, ring, lcs)
  BY <1>19 DEF Reset
<1>21. t.c.rLCS = lcs
  BY <1>1, <1>19 DEF StepT, Shape, Conn
<1>22. RingSet(n, u, t, ring, lcs)
  <2>1. ring \in [Ring -> RcvBuf]
    BY <1>17 DEF EmptyRing
  <2>2. t = [u EXCEPT !.c.rbuf = ring] => lcs = u.c.rLCS
    <3>1. [u EXCEPT !.c.rbuf = ring].c.rLCS = u.c.rLCS
      BY <1>1 DEF StepT, Shape, Conn
    <3> QED
      BY <3>1, <1>21
  <2> QED
    BY <2>1, <2>2, <1>20, RingSetIs
<1> QED
  BY <1>8, <1>10, <1>13, <1>17, <1>18, <1>21, <1>22 DEF GivenBack

\* t is s after the oldest message was given back.
Returns(n, s, t) ==
  /\ StepT(n, t) /\ RcvOnly(s.c, t.c) /\ ConsumedApp(s.a, t.a) /\ t.out = {} /\ t.c.CUR = s.c.CUR
  /\ RcvApp(Peer(n), t.a, app[Peer(n)].submitted) /\ RcvOK(n, t.c, t.a, app[Peer(n)].submitted)

\* The step state of a node that has a message to give back.
Ready(n, s) ==
  /\ Good(n, s, conn[Peer(n)], app[Peer(n)]) /\ s.c = conn[n] /\ s.a = app[n] /\ s.out = {}
  /\ conn[n] # NoConn /\ app[n].held # <<>>

\* The number of submitted messages is in range.
LEMMA SubmittedCount ==
  ASSUME Fits, ArdpInv, NEW p \in Node
  PROVE  app[p].submitted \in 0 .. Count(p)
<1>1. AppT(p, app[p])
  BY DEF ArdpInv, Types
<1> QED
  BY <1>1 DEF AppT, Count

\* The oldest message that node n holds.
LEMMA ReadyIs ==
  ASSUME Fits, ArdpInv, NEW n \in Node, NEW p \in Node, p = Peer(n), NEW s, Ready(n, s)
  PROVE  \E r \in Nat, W \in Nat, D \in Nat, F \in Nat : Oldest(p, s.a, app[p].submitted, r, W, D, F)
<1>0. PICK sub \in 0 .. Count(p) : sub = app[p].submitted
  BY SubmittedCount
<1>1. AppT(n, s.a) /\ RcvApp(p, s.a, sub) /\ s.a.held # <<>>
  BY <1>0 DEF Ready, Good, StepT, AppOK
<1>2. s.a.rcvd \in Seq(Seq(Nat \X Nat)) /\ s.a.held \in Seq(Ring) /\ s.a.consumed \in Nat
  BY <1>1 DEF AppT
<1>3. PICK r \in Nat, W \in Nat, D \in Nat : Reach(p, s.a, sub, r, W, D)
  BY <1>1, <1>2, ReachIs
<1>4. PICK F \in Nat : Oldest(p, s.a, sub, r, W, D, F)
  BY <1>1, <1>2, <1>3, OldestIs
<1> QED
  BY <1>0, <1>4

\* A node that holds a message has been open.
LEMMA ReadyEst ==
  ASSUME NEW n \in Node, NEW p, NEW s, Ready(n, s),
         NEW r \in Nat, NEW W \in Nat, NEW D \in Nat, NEW F \in Nat, NEW sub, Oldest(p, s.a, sub, r, W, D, F)
  PROVE  Est(n, s.c) /\ s.a.consumed < Len(s.a.rcvd)
<1>1. r = Len(s.a.rcvd) /\ s.a.consumed \in 0 .. r /\ s.a.consumed < r
  BY DEF Oldest, Reach
<1>2. Ctl(n, s.c, s.a)
  BY DEF Ready, Good, ConnOK
<1>3. r # 0
  BY <1>1
<1>4. s.a.rcvd # <<>>
  <2>1. Len(<<>>) = 0
    OBVIOUS
  <2> QED
    BY <2>1, <1>1, <1>3
<1> QED
  BY <1>1, <1>2, <1>4 DEF Ctl

\* A node that gives a message back keeps the invariant.
LEMMA ReturnsActs ==
  ASSUME Setting, ArdpInv, NEW n \in Node, NEW s, Ready(n, s), Est(n, s.c), s.a.consumed < Len(s.a.rcvd),
         NEW t, Returns(n, s, t), Finish(n, t, {}), UNCHANGED records
  PROVE  Advances(n)
<1>p. PICK p \in Node : p = Peer(n)
  BY PeerNode
<1>0. Fits
  BY DEF Setting
<1>1. Good(n, s, conn[p], app[p]) /\ s.c = conn[n] /\ s.a = app[n] /\ conn[n] # NoConn
  BY <1>p DEF Ready
<1>2. Good(n, t, conn[p], app[p])
  BY <1>0, <1>1, <1>p, ConsumedGood DEF Returns
<1>3. Est(n, t.c) /\ t.c.CUR = conn[n].CUR
  BY <1>1 DEF Returns, RcvOnly, Est
<1>4. Pos(p, conn[n].CUR) <= Pos(p, t.c.CUR)
  <2>1. t.c.CUR \in Seqs
    BY <1>2 DEF Good, StepT, Conn
  <2>2. Pos(p, t.c.CUR) \in 0 .. SeqSpace - 1
    BY <2>1, <1>0, PosOf
  <2>3. PICK y \in Nat : y = Pos(p, t.c.CUR)
    BY <2>2
  <2> QED
    BY <1>3, <2>3
<1>5. Consumes(app[n], t.a)
  BY <1>1 DEF Returns, ConsumedApp, Consumes, Counts
<1>6. Serves(n, t)
  BY <1>2, <1>3, <1>4, <1>5, <1>p DEF Serves
<1> QED
  BY <1>1, <1>6, OpenActs

\* The buffers of an emptied ring are free.
LEMMA FreedRing ==
  ASSUME NEW p, NEW c, NEW d, NEW W, NEW F, NEW ring, EmptyRing(c, ring, Freeing(p, W, F)), d.rbuf = ring
  PROVE  RcvFreed(p, c, d, W, F)
  BY DEF EmptyRing, RcvFreed

\* What was given back.
LEMMA ReadyApp ==
  ASSUME Fits, ArdpInv, NEW n \in Node, NEW p \in Node, p = Peer(n), NEW s, Ready(n, s),
         NEW u, TakenBack(n, s, u), NEW sub \in 0 .. Count(p), sub = app[p].submitted,
         NEW r \in Nat, NEW W \in Nat, NEW D \in Nat, NEW F \in Nat, Oldest(p, s.a, sub, r, W, D, F)
  PROVE  ConsumedTo(p, u.a, sub, r, W + F, D)
<1>1. AppT(n, s.a) /\ RcvApp(p, s.a, sub) /\ s.a.held # <<>>
  BY DEF Ready, Good, StepT, AppOK
<1>2. s.a.rcvd \in Seq(Seq(Nat \X Nat)) /\ s.a.held \in Seq(Ring) /\ s.a.consumed \in Nat
  BY <1>1 DEF AppT
<1> QED
  BY <1>1, <1>2, AppConsumes DEF TakenBack

\* The open connection.
LEMMA OpenReturns ==
  ASSUME Fits, ArdpInv, NEW n \in Node, NEW p \in Node, p = Peer(n), NEW s, Ready(n, s), s.c.state = "OPEN",
         NEW u, TakenBack(n, s, u), NEW sub \in 0 .. Count(p), sub = app[p].submitted,
         NEW r \in Nat, NEW W \in Nat, NEW D \in Nat, NEW F \in Nat, Oldest(p, s.a, sub, r, W, D, F)
  PROVE  Returns(n, s, ReleaseRcvBuffers(u, SeqAt(p, W + 1), F, FALSE))
<1>1. /\ StepT(n, u) /\ u.c = s.c /\ ConsumedApp(s.a, u.a) /\ u.out = {} /\ s.c \in Conn
  BY DEF TakenBack, Ready, Good, StepT
<1>2. RcvOK(n, s.c, s.a, sub)
  BY DEF Ready, Good, ConnOK
<1>3. Pos(p, s.c.CUR) \in 0 .. SeqSpace - 1
  BY <1>1, PosOf DEF Conn
<1>4. PICK C \in Nat : C = Pos(p, s.c.CUR)
  BY <1>3
<1>5. RcvAt(p, s.c, s.a, sub, C) /\ (C < Pos(p, s.c.rLCS) + SegMax => ~s.c.rbuf[Slot(p, C + 1)].inUse)
      /\ RcvHeld(p, s.c, s.a)
  BY <1>2, <1>4 DEF RcvOK
<1>6. Reach(p, s.a, sub, r, W, D)
  BY DEF Oldest
<1>7. RcvParts(p, s.c, sub, r, W, D, C)
  BY <1>5, <1>6, RcvAtIs
<1>8. s.c.rbuf[Slot(p, W + 1)].seq = SeqAt(p, W + 1)
  BY <1>5, OldestBuf
<1>9. PICK t : t = ReleaseRcvBuffers(u, SeqAt(p, W + 1), F, FALSE)
  OBVIOUS
<1>10. GivenBack(n, u, t, p, W, F)
  BY <1>1, <1>4, <1>7, <1>8, <1>9, ReleaseIs
<1>11. PICK ring : /\ EmptyRing(s.c, ring, Freeing(p, W, F)) /\ RingSet(n, u, t, ring, t.c.rLCS)
                   /\ Pos(p, t.c.rLCS) = W + F
  BY <1>10, <1>1 DEF GivenBack
<1>12. /\ StepT(n, t) /\ RcvOnly(s.c, t.c) /\ t.a = u.a /\ t.out = {}
       /\ t.c.CUR = s.c.CUR /\ t.c.eack = s.c.eack /\ t.c.rbuf = ring
  BY <1>11, <1>1 DEF RingSet
<1>13. RcvFreed(p, s.c, t.c, W, F)
  BY <1>11, <1>12, FreedRing
<1>14. ConsumedTo(p, t.a, sub, r, W + F, D)
  BY <1>12, ReadyApp
<1>15. RcvApp(p, t.a, sub) /\ Reach(p, t.a, sub, r, W + F, D)
  BY <1>14 DEF ConsumedTo
<1>16. RcvParts(p, t.c, sub, r, W + F, D, C)
  BY <1>7, <1>11, <1>12, <1>13, WindowAfter
<1>17. W + F \in Nat
  OBVIOUS
<1>18. RcvAt(p, t.c, t.a, sub, C)
  BY <1>15, <1>16, <1>17, RcvAtIs
<1>19. ~t.c.rbuf[Slot(p, C + 1)].inUse
  <2>1. C < W + SegMax => ~s.c.rbuf[Slot(p, C + 1)].inUse
    BY <1>5, <1>7 DEF RcvParts
  <2>2. C < (W + F) + SegMax
    <3>1. C <= W + SegMax /\ 1 <= F
      BY <1>7 DEF RcvParts, RcvFront, Oldest
    <3> QED
      BY <3>1
  <2> QED
    BY <2>1, <2>2, <1>7, <1>13, WaitsAfter
<1>20. RcvOpen(n, t.c, t.a, sub)
  BY <1>4, <1>12, <1>18, <1>19 DEF RcvOpen
<1>21. t.c \in Conn /\ AppT(n, t.a)
  BY <1>12 DEF StepT
<1>22. RcvOK(n, t.c, t.a, sub)
  BY <1>15, <1>20, <1>21, RcvOpened
<1> QED
  BY <1>1, <1>9, <1>12, <1>15, <1>22 DEF Returns

\* The closed connection: the buffers are only marked.
LEMMA ClosedReturns ==
  ASSUME Fits, ArdpInv, NEW n \in Node, NEW p \in Node, p = Peer(n), NEW s, Ready(n, s), s.c.state # "OPEN",
         NEW u, TakenBack(n, s, u), NEW sub \in 0 .. Count(p), sub = app[p].submitted,
         NEW r \in Nat, NEW W \in Nat, NEW D \in Nat, NEW F \in Nat, Oldest(p, s.a, sub, r, W, D, F),
         NEW G, G = Freeing(p, W, F), NEW t, t = [u EXCEPT !.c.rbuf = Unheld(u.c, G)]
  PROVE  Returns(n, s, t)
<1>1. /\ StepT(n, u) /\ u.c = s.c /\ ConsumedApp(s.a, u.a) /\ u.out = {} /\ s.c \in Conn
  BY DEF TakenBack, Ready, Good, StepT
<1>2. RcvOK(n, s.c, s.a, sub)
  BY DEF Ready, Good, ConnOK
<1>3. PICK ring : ring = Unheld(u.c, G)
  OBVIOUS
<1>4. EmptyRing(s.c, ring, G)
  BY <1>1, <1>3, EmptiedIs
<1>5. PICK lcs \in Seqs : lcs = s.c.rLCS
  BY <1>1 DEF Conn
<1>6. RingSet(n, u, t, ring, lcs)
  <2>1. ring \in [Ring -> RcvBuf]
    BY <1>4 DEF EmptyRing
  <2>2. t = [u EXCEPT !.c.rbuf = ring]
    BY <1>3
  <2>3. Reset(u, t, ring, lcs)
    BY <2>2 DEF Reset
  <2>4. lcs = u.c.rLCS
    BY <1>1, <1>5
  <2> QED
    BY <2>1, <2>3, <2>4, <1>1, RingSetIs
<1>7. /\ StepT(n, t) /\ RcvOnly(s.c, t.c) /\ t.a = u.a /\ t.out = {}
      /\ t.c.CUR = s.c.CUR /\ t.c.rbuf = ring /\ t.c.rLCS = s.c.rLCS
  BY <1>1, <1>5, <1>6 DEF RingSet
<1>8. RcvFreed(p, s.c, t.c, W, F)
  BY <1>4, <1>7, FreedRing
<1>9. ConsumedTo(p, t.a, sub, r, W + F, D)
  BY <1>7, ReadyApp
<1>10. RcvApp(p, t.a, sub) /\ Reach(p, t.a, sub, r, W + F, D)
  BY <1>9 DEF ConsumedTo
<1>11. RcvHeld(p, s.c, s.a)
  BY <1>2 DEF RcvOK
<1>12. RcvHeld(p, t.c, t.a)
  BY <1>8, <1>10, <1>11, HeldAfter
<1>13. (n = "B" \/ Est(n, t.c)) =>
            /\ Pos(p, t.c.rLCS) <= Pos(p, t.c.CUR)
            /\ Pos(p, t.c.CUR) < First(p, sub + 1)
            /\ Pos(p, t.c.rLCS) < First(p, t.a.consumed + 1)
  <2>1. HAVE n = "B" \/ Est(n, t.c)
  <2>2. n = "B" \/ Est(n, s.c)
    BY <2>1, <1>7 DEF RcvOnly, Est
  <2>3. /\ Pos(p, s.c.rLCS) <= Pos(p, s.c.CUR)
        /\ Pos(p, s.c.CUR) < First(p, sub + 1)
        /\ Pos(p, s.c.rLCS) < First(p, s.a.consumed + 1)
    BY <1>2, <2>2 DEF RcvOK
  <2>4. First(p, s.a.consumed + 1) = W + 1 /\ First(p, t.a.consumed + 1) = (W + F) + 1
    BY <1>10 DEF Oldest, Reach
  <2>5. Pos(p, s.c.rLCS) \in 0 .. SeqSpace - 1
    BY <1>1, PosOf DEF Conn
  <2>6. PICK y \in Nat : y = Pos(p, s.c.rLCS)
    BY <2>5
  <2>7. y < W + 1
    BY <2>3, <2>4, <2>6
  <2>8. y < (W + F) + 1
    BY <2>7
  <2> QED
    BY <2>3, <2>4, <2>6, <2>8, <1>7, Zenon
<1>14. t.c.state # "OPEN"
  BY <1>7 DEF RcvOnly
<1>15. RcvOK(n, t.c, t.a, sub)
  BY <1>12, <1>13, <1>14 DEF RcvOK
<1> QED
  BY <1>1, <1>7, <1>10, <1>15 DEF Returns

\* ARDP_RecvReady.
LEMMA RecvReadyAction ==
  ASSUME Setting, ArdpInv, NEW n \in Node, ARDP_RecvReady(n)
  PROVE  Advances(n)
<1>p. PICK p \in Node : p = Peer(n)
  BY PeerNode
<1>0. Fits
  BY DEF Setting
<1>1. conn[n] # NoConn /\ app[n].held # <<>>
  BY DEF ARDP_RecvReady, Exists
<1>2. PICK o \in Outcome \ {"error"} : o = "sent"
  BY DEF Outcome
<1>3. PICK s : s = Step(n, o)
  OBVIOUS
<1>4. Good(n, s, conn[p], app[p]) /\ s.c = conn[n] /\ s.a = app[n] /\ s.out = {}
  BY <1>1, <1>3, <1>p, StepGood
<1>5. Ready(n, s)
  BY <1>1, <1>4, <1>p DEF Ready
<1>6. PICK sub \in 0 .. Count(p) : sub = app[p].submitted
  BY <1>0, SubmittedCount
<1>7. PICK r \in Nat, W \in Nat, D \in Nat, F \in Nat : Oldest(p, s.a, sub, r, W, D, F)
  BY <1>0, <1>5, <1>6, <1>p, ReadyIs
<1>8. Est(n, s.c) /\ s.a.consumed < Len(s.a.rcvd)
  BY <1>5, <1>7, ReadyEst
<1>9. PICK i : i = Slot(p, W + 1)
  OBVIOUS
<1>10. conn[n].rbuf[i].seq = SeqAt(p, W + 1) /\ conn[n].rbuf[i].fcnt = F
  <2>1. RcvHeld(p, s.c, s.a)
    BY <1>4, <1>6, <1>p DEF Good, ConnOK, RcvOK
  <2> QED
    BY <2>1, <1>0, <1>4, <1>7, <1>9, OldestBuf
<1>11. Head(app[n].held) = i
  BY <1>4, <1>7, <1>9 DEF Oldest
<1>12. PICK u : u = [s EXCEPT !.a.held = Tail(@), !.a.consumed = @ + 1]
  OBVIOUS
<1>13. TakenBack(n, s, u)
  BY <1>1, <1>4, <1>12, TakenBackIs DEF Good
<1>14. \/ conn[n].state = "OPEN" /\ Commit(n, ReleaseRcvBuffers(u, SeqAt(p, W + 1), F, FALSE))
       \/ /\ conn[n].state \in {"CLOSED", "CLOSE_WAIT"}
          /\ Commit(n, [u EXCEPT !.c.rbuf = [j \in Ring |->
                        IF j \in Follow(i, F)
                        THEN [@[j] EXCEPT !.inUse = FALSE, !.delivered = FALSE] ELSE @[j]]])
  BY <1>2, <1>3, <1>10, <1>11, <1>12, Zenon DEF ARDP_RecvReady
<1>15. CASE conn[n].state = "OPEN" /\ Commit(n, ReleaseRcvBuffers(u, SeqAt(p, W + 1), F, FALSE))
  <2>1. PICK t : t = ReleaseRcvBuffers(u, SeqAt(p, W + 1), F, FALSE)
    OBVIOUS
  <2>2. Returns(n, s, t)
    BY <2>1, <1>15, <1>0, <1>4, <1>5, <1>6, <1>7, <1>13, <1>p, OpenReturns
  <2>3. Finish(n, t, {}) /\ UNCHANGED records
    BY <2>1, <1>15 DEF Commit
  <2> QED
    BY <2>2, <2>3, <1>5, <1>8, ReturnsActs
<1>16. CASE /\ conn[n].state \in {"CLOSED", "CLOSE_WAIT"}
            /\ Commit(n, [u EXCEPT !.c.rbuf = [j \in Ring |->
                        IF j \in Follow(i, F)
                        THEN [@[j] EXCEPT !.inUse = FALSE, !.delivered = FALSE] ELSE @[j]]])
  <2>1. PICK G : G = Freeing(p, W, F)
    OBVIOUS
  <2>2. Follow(i, F) = G
    <3>1. PICK T \in Nat : Room(p, W, F, T)
      BY <1>0, <1>7, RoomIs
    <3> QED
      BY <2>1, <3>1, <1>0, <1>9, FollowFreeing
  <2>3. PICK t : t = [u EXCEPT !.c.rbuf = Unheld(u.c, G)]
    OBVIOUS
  <2>4. Unheld(u.c, G) = [j \in Ring |-> IF j \in G
                        THEN [u.c.rbuf[j] EXCEPT !.inUse = FALSE, !.delivered = FALSE] ELSE u.c.rbuf[j]]
    BY DEF Unheld
  <2>5. Commit(n, t)
    BY <2>2, <2>3, <2>4, <1>16, Zenon
  <2>6. Returns(n, s, t)
    <3>1. s.c.state # "OPEN"
      BY <1>4, <1>16
    <3> QED
      BY <3>1, <2>1, <2>3, <1>0, <1>5, <1>6, <1>7, <1>13, <1>p, ClosedReturns
  <2>7. Finish(n, t, {}) /\ UNCHANGED records
    BY <2>5 DEF Commit
  <2> QED
    BY <2>6, <2>7, <1>5, <1>8, ReturnsActs
<1> QED
  BY <1>14, <1>15, <1>16

-----------------------------------------------------------------------------
(* Steps of a node that does nothing with its connection.                  *)

\* A node is silent until A is established.
LEMMA SilentSelf ==
  ASSUME ArdpInv, NEW n \in Node, NotOpened
  PROVE  app[n].submitted = 0 /\ (conn[n] # NoConn => ~Est(n, conn[n]))
<1>1. Phase /\ Record
  BY DEF ArdpInv
<1>2. CASE n = "A"
  <2>1. records["A"] = 0 => conn["A"] = NoConn
    <3>1. conn["A"] # NoConn => records["A"] = 1
      BY <1>1 DEF Record, Node
    <3> QED
      BY <3>1
  <2> QED
    BY <2>1, <1>1, <1>2 DEF Phase, NotOpened
<1>3. CASE n = "B"
  BY <1>1, <1>3 DEF Phase
<1> QED
  BY <1>2, <1>3 DEF Node

\* No more than RSTs are sent.
Rsts(out) == out \subseteq Segs /\ IsFiniteSet(out) /\ \A g \in out : IsRst(g)

\* The number of receptions and submissions does not fall when nothing happens.
LEMMA SameUpward ==
  ASSUME ArdpInv, NEW n \in Node
  PROVE  Upward(app[n], app[n])
<1>1. AppT(n, app[n])
  BY DEF ArdpInv, Types
<1>2. PICK N \in Nat : N = Len(Msgs[n])
  BY MsgsAssumption, LenProperties
<1>3. app[n].submitted \in Nat /\ app[n].consumed \in Nat
  BY <1>1, <1>2 DEF AppT
<1> QED
  BY <1>3 DEF Upward

\* A node whose record and upper layer stay as they are.
LEMMA IdleActs ==
  ASSUME Setting, ArdpInv, NEW n \in Node, NEW j, NEW out, NEW arrived,
         Rsts(out), out = {} \/ n = "B",
         Took(n, conn[n], app[n], j, out, arrived, broken, records[n])
  PROVE  Advances(n)
<1>p. PICK p \in Node : p = Peer(n)
  BY PeerNode
<1>0. Types /\ Nodes /\ Record /\ Phase /\ Fits
  BY DEF ArdpInv, Setting
<1>1. /\ ConnT(conn[n]) /\ AppT(n, app[n]) /\ NodeOK(n, conn[n], app[n], conn[p], app[p])
  BY <1>0, <1>p DEF Types, ConnT, Nodes
<1>2. \A g \in out : IsRst(g) /\ ~Normal(g)
  BY DEF Rsts, IsRst, Normal
<1>3. NodeStep(n, conn[n], app[n], out, records[n])
  <2>1. \A g \in out : SegOK(n, g, conn[n], app[n], conn[p], app[p])
    BY <1>2 DEF SegOK
  <2>2. Forward(n, conn[n], conn[n], conn[p], UnderWay)
    <3>1. CASE conn[n] = NoConn
      BY <3>1 DEF Forward
    <3>2. CASE conn[n] # NoConn /\ Knows(n, conn[n])
      <4>1. conn[n].CUR \in Seqs
        BY <3>2, <1>1 DEF ConnT, Conn
      <4>2. Pos(p, conn[n].CUR) \in 0 .. SeqSpace - 1
        BY <4>1, <1>0, PosOf
      <4>3. PICK y \in Nat : y = Pos(p, conn[n].CUR)
        BY <4>2
      <4> QED
        BY <4>3, <3>2, <1>p DEF Forward
    <3>3. CASE conn[n] # NoConn /\ ~Knows(n, conn[n])
      <4>1. Unknowing(n)
        BY <3>3 DEF Knows, Unknowing, Node
      <4>2. SilentPeer(n)
        BY <4>1, SilentBefore
      <4> QED
        BY <4>2, <1>p DEF SilentPeer, Silent, Forward
    <3> QED
      BY <3>1, <3>2, <3>3
  <2>3. conn[n] # NoConn => records[n] = 1
    BY <1>0 DEF Record
  <2>4. records[n] = 0 => app[n].rcvd = <<>> /\ app[n].disconnectCb = <<>>
    BY <1>0 DEF Record
  <2> QED
    BY <2>1, <2>2, <2>3, <2>4, <1>1, <1>p, SameUpward DEF NodeStep, Rsts
<1>4. Phased(n, conn[n], app[n], out, records[n])
  <2>1. NotOpened => Silence(n, conn[n], app[n], out)
    BY <1>2, SilentSelf DEF Silence, Silent
  <2>2. records[n] = 0 => app[n].submitted = 0
    BY <1>0 DEF Record
  <2>3. n = "A" => conn[n] # NoConn \/ (conn[n] = NoConn /\ out = {} /\ app[n] = app[n])
    OBVIOUS
  <2> QED
    BY <2>1, <2>2, <2>3, <1>2 DEF Phased
<1>5. AppStep(n, app[n], app[n], app[p].consumed, records[n] = records[n])
  <2>1. Proceeds(n, app[n], app[n], app[p].consumed)
    <3>1. AppT(n, app[n])
      BY <1>1
    <3>2. app[n].rcvd \in Seq(Seq(Nat \X Nat))
      BY <3>1 DEF AppT
    <3>3. PICK y \in Nat : y = Len(app[n].rcvd)
      BY <3>2, LenProperties
    <3>4. Len(app[n].rcvd) <= Len(app[n].rcvd)
      BY <3>3
    <3> QED
      BY <3>4 DEF Proceeds, CbMoves
  <2> QED
    BY <2>1 DEF AppStep
<1> QED
  BY <1>0, <1>3, <1>4, <1>5, <1>p, ActsAfter

\* ARDP_Run with sockWrite.
LEMMA SocketAction ==
  ASSUME Setting, ArdpInv, NEW n \in Node, SocketWritable(n)
  PROVE  Advances(n)
<1>p. PICK p \in Node : p = Peer(n) /\ n # p
  BY PeerNode
<1>0. Types
  BY DEF ArdpInv
<1>1. jam' = [jam EXCEPT ![n] = FALSE] /\ UNCHANGED <<conn, app, net, records, broken>>
  BY DEF SocketWritable
<1>2. /\ net[p] \cup {} = net[p] /\ net[n] \ {} = net[n] /\ Cardinality(net[p]) <= NetMax[p]
      /\ broken \subseteq Allowed /\ Rsts({})
  BY <1>0, FS_EmptySet DEF Types, Rsts
<1>3. /\ conn = [conn EXCEPT ![n] = conn[n]] /\ app = [app EXCEPT ![n] = app[n]]
      /\ records = [records EXCEPT ![n] = records[n]]
      /\ net = [net EXCEPT ![n] = net[n], ![p] = net[p]]
  BY <1>0 DEF Types
<1>4. Took(n, conn[n], app[n], FALSE, {}, {}, broken, records[n])
  <2>1. net' = [net EXCEPT ![n] = @ \ {}, ![p] = @ \cup {}]
    BY <1>1, <1>2, <1>3, <1>p
  <2> QED
    BY <2>1, <1>1, <1>2, <1>3, <1>p DEF Took
<1> QED
  BY <1>2, <1>4, IdleActs

\* A segment for a connection that does not exist.
LEMMA DiscardAction ==
  ASSUME Setting, ArdpInv, NEW n \in Node, Discard(n)
  PROVE  Advances(n)
<1>p. PICK p \in Node : p = Peer(n) /\ n # p
  BY PeerNode
<1>0. Types
  BY DEF ArdpInv
<1>1. PICK seg \in net[n] : net' = [net EXCEPT ![n] = @ \ {seg}]
  BY DEF Discard
<1>2. UNCHANGED <<conn, app, jam, records, broken>>
  BY DEF Discard
<1>3. /\ net[p] \cup {} = net[p] /\ Cardinality(net[p]) <= NetMax[p]
      /\ broken \subseteq Allowed /\ Rsts({}) /\ jam[n] \in BOOLEAN
  BY <1>0, FS_EmptySet DEF Types, Rsts
<1>4. /\ conn = [conn EXCEPT ![n] = conn[n]] /\ app = [app EXCEPT ![n] = app[n]]
      /\ records = [records EXCEPT ![n] = records[n]] /\ jam = [jam EXCEPT ![n] = jam[n]]
  BY <1>0 DEF Types
<1>5. net' = [net EXCEPT ![n] = @ \ {seg}, ![p] = @ \cup {}]
  BY <1>0, <1>1, <1>3, <1>p DEF Types
<1>6. Took(n, conn[n], app[n], jam[n], {}, {seg}, broken, records[n])
  BY <1>2, <1>3, <1>4, <1>5, <1>p DEF Took
<1> QED
  BY <1>3, <1>6, IdleActs

-----------------------------------------------------------------------------
(* New connection records.                                                 *)

\* The record that NewConnRecord and InitConnRecord make.
Made(n, c, foreign, passive, state) ==
  /\ c \in Conn /\ c.local = 1 /\ c.passive = passive /\ c.state = state /\ c.foreign = foreign
  /\ c.NXT = Plus(Iss[n], 1) /\ c.UNA = Iss[n] /\ c.LCS = Iss[n] /\ c.pending = 0
  /\ \A i \in Ring : ~c.sbuf[i].inUse /\ ~c.sbuf[i].timer
  /\ c.eack = NoEack /\ c.conTimer = "off" /\ c.reason = "none"

\* NewConnRecord and InitConnRecord for the first connection of a node.
LEMMA NewConnIs ==
  ASSUME NEW n \in Node, records[n] = 0, NEW foreign \in Nat, NEW passive \in BOOLEAN, NEW state \in States
  PROVE  Made(n, NewConn(n, foreign, passive, state), foreign, passive, state)
<1>1. PICK z \in Seqs : z = Iss[n]
  BY IssAssumption
<1>2. PICK x \in Seqs : x = Plus(z, 1)
  BY DEF Plus, Seqs
<1>3. PICK sring \in [Ring -> SndBuf] : sring = [i \in Ring |-> FreeSndBuf]
  BY FreeIs
<1>4. 0 \in Seqs /\ 0 \in 0 .. SegMax
  BY DEF Seqs
<1>5. PICK rring \in [Ring -> RcvBuf] : rring = [i \in Ring |-> FreeRcvBuf(0)]
  BY <1>4, FreeRing
<1>6. PICK eack \in Eack : eack = NoEack
  <2>1. NoEack.mask \in [WordIds -> SUBSET Bits] /\ NoEack.htnMask \in [WordIds -> SUBSET Bits]
        /\ NoEack.sz \in 0 .. Words
    BY NoEackWellFormed DEF WellFormed
  <2>2. NoEack = [mask |-> NoEack.mask, htnMask |-> NoEack.htnMask, sz |-> NoEack.sz]
    BY DEF NoEack
  <2> QED
    BY <2>1, <2>2 DEF Eack
<1>7. 0 \in 0 .. ConnectRetries + 1 /\ 0 \in 0 .. PersistRetries /\ 0 \in 0 .. KeepaliveRetries
  BY ConfigAssumption
<1>8. PICK reason \in Reasons : reason = "none"
  BY DEF Reasons
<1>9. PICK off \in {"off", "connect", "disconnect"} : off = "off"
  OBVIOUS
<1>10. PICK c : c = [state |-> state, passive |-> passive, local |-> 1, foreign |-> foreign,
     NXT |-> x, UNA |-> z, LCS |-> z, pending |-> 0,
     sbuf |-> sring, window |-> 0, CUR |-> 0, rLCS |-> 0, rbuf |-> rring, eack |-> eack,
     conTimer |-> off, retry |-> 0, reason |-> reason, ackTimer |-> FALSE, persist |-> 0, probe |-> 0]
  OBVIOUS
<1>11. c = NewConn(n, foreign, passive, state)
  <2>1. records[n] + 1 = 1
    OBVIOUS
  <2> QED
    BY <2>1, <1>1, <1>2, <1>3, <1>5, <1>6, <1>8, <1>9, <1>10, Zenon DEF NewConn
<1>12. c \in Conn
  BY <1>4, <1>7, <1>10 DEF Conn
<1>13. \A i \in Ring : ~c.sbuf[i].inUse /\ ~c.sbuf[i].timer
  BY <1>3, <1>10, FreeIs
<1>14. /\ c.local = 1 /\ c.passive = passive /\ c.state = state /\ c.foreign = foreign
       /\ c.NXT = x /\ c.UNA = z /\ c.LCS = z /\ c.pending = 0
       /\ c.eack = eack /\ c.conTimer = off /\ c.reason = reason
  BY <1>10
<1>15. Made(n, c, foreign, passive, state)
  BY <1>1, <1>2, <1>6, <1>8, <1>9, <1>12, <1>13, <1>14, Zenon DEF Made
<1> QED
  BY <1>11, <1>15

\* The upper layer when a connection begins.
Begun(n, e) ==
  /\ AppT(n, e) /\ Begins(app[n], e) /\ e.held = app[n].held

\* Nothing happened to the upper layer of a node that had no connection.
LEMMA BegunIs ==
  ASSUME ArdpInv, NEW n \in Node, conn[n] = NoConn, records[n] = 0, NEW e, Begun(n, e)
  PROVE  Untouched(n, e, app[Peer(n)]) /\ e.held = <<>> /\ Upward(app[n], e)
<1>p. PICK p \in Node : p = Peer(n)
  BY PeerNode
<1>2. AppOK(n, app[n], app[p]) /\ app[n].held = <<>>
  BY <1>p DEF ArdpInv, Nodes, NodeOK
<1>3. app[n].submitted = 0 /\ app[n].rcvd = <<>> /\ app[n].disconnectCb = <<>>
  BY DEF ArdpInv, Record
<1>4. /\ e.submitted = 0 /\ e.rcvd = <<>> /\ e.disconnectCb = <<>> /\ e.held = <<>>
      /\ e.submitted = app[n].submitted /\ e.consumed = app[n].consumed /\ e.sendCb = app[n].sendCb
      /\ e.rcvd = app[n].rcvd /\ e.held = app[n].held /\ e.disconnectCb = app[n].disconnectCb
  BY <1>2, <1>3 DEF Begun, Begins
<1>5. app[p].consumed = 0
  <2>1. app[p].consumed \in 0 .. app[n].submitted
    BY <1>p, ConsumedIs
  <2> QED
    BY <2>1, <1>3
<1>6. AppOK(n, e, app[p])
  <2>1. RcvApp(Peer(n), e, app[p].submitted)
    BY <1>2, <1>4 DEF AppOK, RcvApp
  <2>2. PICK f \in 1 .. app[n].submitted + 1 : CbAt(n, app[n], f)
    BY <1>2 DEF AppOK
  <2>3. CbAt(n, e, f) /\ f \in 1 .. e.submitted + 1
    BY <2>2, <1>4 DEF CbAt
  <2>4. EndOf(n, e) <= First(n, app[p].consumed + 1) + SegMax
    BY <1>2, <1>4 DEF AppOK, EndOf
  <2> QED
    BY <2>1, <2>3, <2>4, <1>4 DEF AppOK
<1>7. Upward(app[n], e)
  BY <1>4, SameUpward DEF Upward
<1> QED
  BY <1>4, <1>5, <1>6, <1>7, <1>p DEF Untouched, Begun

\* The first connection of a node, or its refusal.
LEMMA BeginsActs ==
  ASSUME Setting, ArdpInv, NEW n \in Node, conn[n] = NoConn, records[n] = 0, NEW d, NEW e, Begun(n, e),
         d = NoConn \/ Fresh(n, d), NEW out, out \subseteq Segs, IsFiniteSet(out),
         \A g \in out : IsSyn(n, g) \/ IsRst(g),
         NEW j, NEW arrived, NEW brk, Took(n, d, e, j, out, arrived, brk, 1)
  PROVE  Advances(n)
<1>p. PICK p \in Node : p = Peer(n)
  BY PeerNode
<1>0. Types /\ Fits
  BY DEF ArdpInv, Setting
<1>1. Untouched(n, e, app[p]) /\ e.held = <<>> /\ Upward(app[n], e)
  BY <1>p, BegunIs
<1>2. AppT(n, e) /\ AppOK(n, e, app[p])
  BY <1>1 DEF Untouched
<1>3. PeerT(n, conn[p], app[p])
  BY <1>0, <1>p DEF Types, PeerT
<1>4. NodeOK(n, d, e, conn[p], app[p])
  <2>1. CASE d = NoConn
    BY <2>1, <1>1, <1>2 DEF NodeOK
  <2>2. CASE d # NoConn
    <3>1. ConnOK(n, d, e, conn[p], app[p])
      BY <2>2, <1>0, <1>1, <1>3, <1>p, FreshOK
    <3> QED
      BY <2>2, <3>1, <1>2 DEF NodeOK
  <2> QED
    BY <2>1, <2>2
<1>5. ConnT(d) /\ (d # NoConn => ~Est(n, d))
  BY DEF Fresh, ConnT, Est
<1>6. \A g \in out : SegOK(n, g, d, e, conn[p], app[p]) /\ ~Normal(g)
  BY DEF SegOK, IsSyn, IsRst, Normal
<1>7. Forward(n, conn[n], d, conn[p], UnderWay)
  <2>1. SilentPeer(n)
    BY SilentBefore DEF Unknowing
  <2> QED
    BY <2>1, <1>p DEF SilentPeer, Silent, Forward
<1>8. NodeStep(n, d, e, out, 1)
  BY <1>1, <1>2, <1>4, <1>5, <1>6, <1>7, <1>p DEF NodeStep
<1>9. Phased(n, d, e, out, 1)
  <2>1. Silence(n, d, e, out)
    BY <1>1, <1>5, <1>6 DEF Silence, Silent, Untouched
  <2> QED
    BY <2>1 DEF Phased
<1>10. AppStep(n, app[n], e, app[p].consumed, 1 = records[n])
  BY DEF AppStep, Begun
<1> QED
  BY <1>0, <1>8, <1>9, <1>10, <1>p, ActsAfter

\* The step state in which a node makes a connection record.
Opening(n, s, c) == StepT(n, s) /\ s.c = c /\ Begun(n, s.a) /\ s.out = {}

\* A node that makes a connection record starts in that state.
LEMMA OpeningIs ==
  ASSUME ArdpInv, NEW n \in Node, NEW o \in Outcome \ {"error"}, NEW c \in Conn, NEW s,
         s = [Step(n, o) EXCEPT !.c = c, !.a.connectCb = <<>>, !.a.disconnectCb = <<>>]
  PROVE  Opening(n, s, c)
<1>0. Types
  BY DEF ArdpInv
<1>1. AppT(n, app[n]) /\ jam[n] \in BOOLEAN /\ broken \subseteq Allowed
  BY <1>0 DEF Types
<1>2. PICK e : e = [app[n] EXCEPT !.connectCb = <<>>, !.disconnectCb = <<>>]
  OBVIOUS
<1>3. /\ Shape(s) /\ s.c = c /\ s.a = e /\ s.jam = jam[n] /\ s.out = {} /\ s.o = o /\ s.ok = TRUE
      /\ s.broken = broken
  BY <1>2 DEF Step, Shape
<1>4. /\ e.submitted = app[n].submitted /\ e.sendCb = app[n].sendCb /\ e.rcvd = app[n].rcvd
      /\ e.held = app[n].held /\ e.consumed = app[n].consumed /\ e.connectCb = <<>> /\ e.disconnectCb = <<>>
      /\ e = [submitted |-> e.submitted, sendCb |-> e.sendCb, rcvd |-> e.rcvd, held |-> e.held,
              consumed |-> e.consumed, connectCb |-> e.connectCb, disconnectCb |-> e.disconnectCb]
  BY <1>1, <1>2 DEF AppT
<1>5. <<>> \in Seq(Statuses)
  OBVIOUS
<1>6. AppT(n, e)
  BY <1>1, <1>4, <1>5 DEF AppT
<1>7. {} \in SUBSET Segs /\ IsFiniteSet({})
  BY FS_EmptySet
<1>8. StepT(n, s)
  BY <1>1, <1>3, <1>6, <1>7 DEF StepT
<1> QED
  BY <1>3, <1>4, <1>6, <1>8 DEF Opening, Begun, Begins

\* A node that was silent has made no connection record.
LEMMA FirstRecord ==
  ASSUME Setting, ArdpInv, NEW n \in Node, records[n] < MaxRecords
  PROVE  records[n] = 0
<1>1. records[n] \in {0, 1}
  BY DEF ArdpInv, Types
<1>2. records[n] < 1
  BY DEF Setting
<1> QED
  BY <1>1, <1>2

\* The first record of a node is counted.
LEMMA CountedRecord ==
  ASSUME ArdpInv, NEW n \in Node, records[n] = 0, records' = [records EXCEPT ![n] = @ + 1]
  PROVE  records' = [records EXCEPT ![n] = 1]
<1>1. records[n] + 1 = 1
  OBVIOUS
<1> QED
  BY <1>1

\* The step that ends with a new connection or none.
LEMMA OpeningActs ==
  ASSUME Setting, ArdpInv, NEW n \in Node, conn[n] = NoConn, records[n] = 0, NEW t,
         Begun(n, t.a), t.c = NoConn \/ Fresh(n, t.c), t.out \subseteq Segs, IsFiniteSet(t.out),
         \A g \in t.out : IsSyn(n, g) \/ IsRst(g), t.jam \in BOOLEAN, t.broken \subseteq Allowed,
         NEW arrived, Finish(n, t, arrived), records' = [records EXCEPT ![n] = @ + 1]
  PROVE  Advances(n)
<1>1. records' = [records EXCEPT ![n] = 1]
  BY CountedRecord
<1>2. Took(n, t.c, t.a, t.jam, t.out, arrived, t.broken, 1)
  BY <1>1, FinishTook
<1> QED
  BY <1>2, BeginsActs

\* ARDP_Connect.
LEMMA ConnectAction ==
  ASSUME Setting, ArdpInv, ARDP_Connect
  PROVE  Advances("A")
<1>1. PICK n \in Node : n = "A"
  BY DEF Node
<1>2. conn[n] = NoConn /\ records[n] < MaxRecords /\ records' = [records EXCEPT ![n] = @ + 1]
  BY <1>1, Zenon DEF ARDP_Connect, Exists
<1>3. records[n] = 0
  BY <1>2, FirstRecord
<1>4. PICK state \in States : state = "SYN_SENT"
  BY DEF States
<1>5. PICK c : c = NewConn(n, 0, FALSE, state)
  OBVIOUS
<1>6. Made(n, c, 0, FALSE, state)
  <2>1. 0 \in Nat /\ FALSE \in BOOLEAN
    OBVIOUS
  <2> QED
    BY <2>1, <1>3, <1>5, NewConnIs
<1>7. Fresh(n, c)
  BY <1>1, <1>4, <1>6 DEF Made, Fresh
<1>8. PICK o \in Outcomes[n] : Finish(n, SendSyn([Step(n, o) EXCEPT !.c = c, !.a.connectCb = <<>>,
                                                                    !.a.disconnectCb = <<>>], n), {})
  BY <1>1, <1>4, <1>5, Zenon DEF ARDP_Connect
<1>9. o \in Outcome \ {"error"}
  BY <1>8, Answer
<1>10. PICK s : s = [Step(n, o) EXCEPT !.c = c, !.a.connectCb = <<>>, !.a.disconnectCb = <<>>]
  OBVIOUS
<1>11. Opening(n, s, c)
  BY <1>6, <1>9, <1>10, OpeningIs DEF Made
<1>12. PICK t : t = SendSyn(s, n)
  OBVIOUS
<1>13. Calls(n, s, t)
  BY <1>7, <1>11, <1>12, SendSynStep DEF Opening
<1>14. /\ Begun(n, t.a) /\ Fresh(n, t.c) /\ t.out \subseteq Segs /\ IsFiniteSet(t.out)
       /\ (\A g \in t.out : IsSyn(n, g) \/ IsRst(g)) /\ t.jam \in BOOLEAN /\ t.broken \subseteq Allowed
  BY <1>11, <1>13 DEF Calls, Opening, StepT
<1>15. Finish(n, t, {})
  BY <1>8, <1>10, <1>12
<1>16. Advances(n)
  BY <1>2, <1>3, <1>14, <1>15, OpeningActs
<1> QED
  BY <1>1, <1>16

\* What AcceptCb leaves of a request.
Listened(n, t) ==
  /\ Begun(n, t.a) /\ (t.c = NoConn \/ Fresh(n, t.c)) /\ t.out \subseteq Segs /\ IsFiniteSet(t.out)
  /\ (\A g \in t.out : IsSyn(n, g) \/ IsRst(g)) /\ t.jam \in BOOLEAN /\ t.broken \subseteq Allowed

\* A SYN is accepted or refused.
LEMMA ListenStep ==
  ASSUME Fits, NEW n \in Node, n = "B", NEW s, NEW c, NEW foreign, NEW state, NEW passive,
         Opening(n, s, c), Made(n, c, foreign, passive, state), passive = TRUE,
         NEW seg \in Segs, seg.src = 1, seg.seq = Iss[Peer(n)], NEW accept
  PROVE  Listened(n, MachineListen(s, n, seg, accept))
<1>1. PICK syn : syn = UnmarshalSyn(s, seg)
  OBVIOUS
<1>2. Learned(n, s, syn)
  BY <1>1, UnmarshalSynIs DEF Opening
<1>3. /\ StepT(n, syn) /\ Introduced(n, syn) /\ syn.c.rLCS = syn.c.CUR /\ syn.a = s.a /\ syn.out = {}
      /\ syn.c.passive = TRUE /\ syn.c.local = 1
      /\ syn.c.NXT = Plus(Iss[n], 1) /\ syn.c.UNA = Iss[n] /\ syn.c.LCS = Iss[n] /\ syn.c.pending = 0
      /\ (\A i \in Ring : ~syn.c.sbuf[i].inUse /\ ~syn.c.sbuf[i].timer)
      /\ syn.c.eack = NoEack /\ syn.c.conTimer = "off" /\ syn.c.reason = "none"
  BY <1>2 DEF Learned, Opening, Made
<1>4. CASE accept
  <2>1. PICK st \in States : st = "SYN_RCVD"
    BY DEF States
  <2>2. PICK u : u = [syn EXCEPT !.c.state = st]
    OBVIOUS
  <2>3. PICK d : d = [syn.c EXCEPT !.state = st]
    OBVIOUS
  <2>4. syn.c \in Conn /\ Shape(syn)
    BY <1>3 DEF StepT
  <2>5. d \in Conn
    BY <2>3, <2>4 DEF Conn
  <2>6. /\ Shape(u) /\ u.c = d /\ u.a = syn.a /\ u.jam = syn.jam /\ u.out = syn.out
        /\ u.o = syn.o /\ u.ok = syn.ok /\ u.broken = syn.broken
    BY <2>2, <2>3, <2>4 DEF Shape
  <2>7. StepT(n, u)
    BY <1>3, <2>5, <2>6 DEF StepT
  <2>8. /\ d.state = st /\ d.foreign = syn.c.foreign /\ d.CUR = syn.c.CUR /\ d.rLCS = syn.c.rLCS
        /\ d.passive = syn.c.passive /\ d.local = syn.c.local /\ d.NXT = syn.c.NXT /\ d.UNA = syn.c.UNA
        /\ d.LCS = syn.c.LCS /\ d.pending = syn.c.pending /\ d.sbuf = syn.c.sbuf
        /\ d.eack = syn.c.eack /\ d.conTimer = syn.c.conTimer /\ d.reason = syn.c.reason
    BY <2>3, <2>4 DEF Conn
  <2>9. syn.c.foreign = 1 /\ syn.c.CUR = Iss["A"]
    BY <1>3 DEF Introduced, Peer
  <2>10. Fresh(n, d)
    BY <1>3, <2>1, <2>5, <2>8, <2>9 DEF Fresh
  <2>11. PICK t : t = SendSyn(u, n)
    OBVIOUS
  <2>12. Calls(n, u, t)
    BY <2>6, <2>7, <2>10, <2>11, SendSynStep
  <2>13. t = MachineListen(s, n, seg, accept)
    BY <1>1, <1>4, <2>1, <2>2, <2>11, Zenon DEF MachineListen, ARDP_Accept
  <2>14. Listened(n, t)
    BY <1>3, <2>6, <2>12 DEF Calls, Opening, StepT, Listened
  <2> QED
    BY <2>13, <2>14
<1>5. CASE ~accept
  <2>1. PICK x : x = SendRst(syn)
    OBVIOUS
  <2>2. StepT(n, x) /\ x.a = syn.a /\ \A g \in x.out : g \in syn.out \/ IsRst(g)
    BY <1>3, <2>1, SendRstStep
  <2>3. PICK t : t = [x EXCEPT !.c = NoConn]
    OBVIOUS
  <2>4. t.c = NoConn /\ t.a = x.a /\ t.out = x.out /\ t.jam = x.jam /\ t.broken = x.broken
    BY <2>2, <2>3 DEF StepT, Shape
  <2>5. t = MachineListen(s, n, seg, accept)
    BY <1>1, <1>5, <2>1, <2>3, Zenon DEF MachineListen
  <2>6. Listened(n, t)
    BY <1>3, <2>2, <2>4 DEF Opening, StepT, Listened
  <2> QED
    BY <2>5, <2>6
<1> QED
  BY <1>4, <1>5

\* t is the step state of n after no more than RSTs were sent.
Rebuffed(n, t) == Rsts(t.out) /\ t.c = conn[n] /\ t.a = app[n] /\ t.jam = jam[n] /\ t.broken = broken

\* The RST that answers an RST when there is no connection.
LEMMA ReplyIs ==
  ASSUME ArdpInv, NEW n \in Node, NEW o \in Outcome \ {"error"}, NEW seg \in Segs, IsRst(seg), NEW t,
         t = Emit(Step(n, o), [seg EXCEPT !.src = 0, !.dst = seg.src])
  PROVE  Rebuffed(n, t)
<1>1. PICK g : g = [seg EXCEPT !.src = 0, !.dst = seg.src]
  OBVIOUS
<1>2. g \in Segs /\ g.flg = seg.flg
  BY <1>1 DEF Segs
<1>3. IsRst(g)
  BY <1>2 DEF IsRst
<1>4. PICK out : out = IF o = "sent" THEN {g} ELSE {}
  OBVIOUS
<1>5. Rsts(out)
  <2>1. IsFiniteSet({g}) /\ IsFiniteSet({})
    BY FS_EmptySet, FS_Singleton
  <2> QED
    BY <2>1, <1>2, <1>3, <1>4 DEF Rsts
<1>6. t.c = conn[n] /\ t.a = app[n] /\ t.jam = jam[n] /\ t.broken = broken
  BY DEF Emit, Step
<1>7. t.out = out
  <2>1. t = Emit(Step(n, o), g)
    BY <1>1
  <2> QED
    BY <2>1, <1>4 DEF Emit, Step
<1> QED
  BY <1>5, <1>6, <1>7 DEF Rebuffed

\* What a request is.
LEMMA RequestIs ==
  ASSUME ArdpInv, NEW n \in Node, n = "B", NEW seg \in net[n], seg.dst = 0
  PROVE  seg \in Segs /\ (IsRst(seg) \/ (IsSyn("A", seg) /\ "RST" \notin seg.flg))
<1>1. PICK p \in Node : p = "A" /\ Peer(p) = n
  BY DEF Peer, Node
<1>2. seg \in Segs /\ SegOK(p, seg, conn[p], app[p], conn[n], app[n])
  BY <1>1 DEF ArdpInv, Types, Nets
<1>3. CASE IsRst(seg)
  BY <1>2, <1>3
<1>4. CASE IsSyn(p, seg)
  BY <1>1, <1>2, <1>4 DEF IsSyn
<1>5. CASE IsNormal(p, seg, conn[p], app[p], conn[n], app[n])
  BY <1>5 DEF IsNormal
<1> QED
  BY <1>2, <1>3, <1>4, <1>5 DEF SegOK

\* How a segment with destination 0 is handled.
Request(n, seg, o, keep, accept) ==
  \/ /\ IsDuplicateConnRequest(n, seg)
     /\ Finish(n, Step(n, o), Taken(seg, keep))
     /\ UNCHANGED records
  \/ /\ ~Exists(n) /\ records[n] < MaxRecords
     /\ "RST" \notin seg.flg
     /\ Finish(n, MachineListen(
                   [Step(n, o) EXCEPT !.c = NewConn(n, seg.src, TRUE, "LISTEN"),
                                        !.a.connectCb = <<>>, !.a.disconnectCb = <<>>],
                   n, seg, accept), Taken(seg, keep))
     /\ records' = [records EXCEPT ![n] = @ + 1]
  \/ /\ ~Exists(n) /\ "RST" \in seg.flg
     /\ Finish(n, Emit(Step(n, o), [seg EXCEPT !.src = 0, !.dst = seg.src]), Taken(seg, keep))
     /\ UNCHANGED records

\* A segment with destination 0.
LEMMA RequestAction ==
  ASSUME Setting, ArdpInv, ReceiveRequest
  PROVE  Advances("B")
<1>0. Fits /\ Types
  BY DEF Setting, ArdpInv
<1>1. PICK n \in Node : n = "B"
  BY DEF Node
<1>2. PICK seg \in net[n], o \in Outcomes[n], keep \in BOOLEAN, accept \in BOOLEAN :
        seg.dst = 0 /\ Request(n, seg, o, keep, accept)
  <2>0. PICK seg \in net["B"], o \in Outcomes["B"], keep, accept \in BOOLEAN :
          /\ keep => "B" \in Duplicates
          /\ seg.dst = 0
          /\ \/ /\ IsDuplicateConnRequest("B", seg)
                /\ Finish("B", Step("B", o), Taken(seg, keep))
                /\ UNCHANGED records
             \/ /\ ~Exists("B") /\ records["B"] < MaxRecords
                /\ "RST" \notin seg.flg
                /\ LET s == MachineListen(
                              [Step("B", o) EXCEPT !.c = NewConn("B", seg.src, TRUE, "LISTEN"),
                                                   !.a.connectCb = <<>>, !.a.disconnectCb = <<>>],
                              "B", seg, accept)
                   IN  Finish("B", s, Taken(seg, keep))
                /\ records' = [records EXCEPT !["B"] = @ + 1]
             \/ /\ ~Exists("B") /\ "RST" \in seg.flg
                /\ LET s == Emit(Step("B", o), [seg EXCEPT !.src = 0, !.dst = seg.src])
                   IN  Finish("B", s, Taken(seg, keep))
                /\ UNCHANGED records
    BY Zenon DEF ReceiveRequest
  <2>1. seg.dst = 0 /\ Request("B", seg, o, keep, accept)
    BY <2>0, Zenon DEF Request
  <2> QED
    BY <2>1, <1>1
<1>3. seg \in Segs /\ (IsRst(seg) \/ (IsSyn("A", seg) /\ "RST" \notin seg.flg))
  BY <1>1, <1>2, RequestIs
<1>4. o \in Outcome \ {"error"}
  BY <1>2, Answer
<1>5. PICK arrived : arrived = Taken(seg, keep)
  OBVIOUS
<1>6. jam[n] \in BOOLEAN /\ broken \subseteq Allowed
  BY <1>0 DEF Types
<1>7. CASE IsDuplicateConnRequest(n, seg) /\ Finish(n, Step(n, o), Taken(seg, keep)) /\ UNCHANGED records
  <2>1. PICK t : t = Step(n, o)
    OBVIOUS
  <2>2. t.c = conn[n] /\ t.a = app[n] /\ t.jam = jam[n] /\ t.out = {} /\ t.broken = broken
    BY <2>1 DEF Step
  <2>3. Finish(n, t, arrived)
    BY <2>1, <1>5, <1>7
  <2>4. Took(n, t.c, t.a, t.jam, t.out, arrived, t.broken, records[n])
    <3>1. records' = [records EXCEPT ![n] = records[n]]
      BY <1>7, SameRecords
    <3>2. t.jam \in BOOLEAN /\ t.broken \subseteq Allowed
      BY <2>2, <1>6
    <3> QED
      BY <2>3, <3>1, <3>2, FinishTook
  <2>5. Took(n, conn[n], app[n], jam[n], {}, arrived, broken, records[n])
    BY <2>2, <2>4, Zenon
  <2>6. Rsts({})
    BY FS_EmptySet DEF Rsts
  <2> QED
    BY <2>5, <2>6, <1>1, IdleActs
<1>8. CASE /\ ~Exists(n) /\ records[n] < MaxRecords
           /\ "RST" \notin seg.flg
           /\ Finish(n, MachineListen(
                         [Step(n, o) EXCEPT !.c = NewConn(n, seg.src, TRUE, "LISTEN"),
                                              !.a.connectCb = <<>>, !.a.disconnectCb = <<>>],
                         n, seg, accept), Taken(seg, keep))
           /\ records' = [records EXCEPT ![n] = @ + 1]
  <2>1. records[n] = 0 /\ conn[n] = NoConn
    BY <1>8, FirstRecord DEF Exists
  <2>2. PICK state \in States : state = "LISTEN"
    BY DEF States
  <2>3. PICK foreign \in Nat : foreign = seg.src
    BY <1>3 DEF Segs
  <2>4. PICK passive \in BOOLEAN : passive = TRUE
    OBVIOUS
  <2>5. PICK c : c = NewConn(n, foreign, passive, state)
    OBVIOUS
  <2>6. Made(n, c, foreign, passive, state)
    BY <2>1, <2>5, NewConnIs
  <2>7. PICK s : s = [Step(n, o) EXCEPT !.c = c, !.a.connectCb = <<>>, !.a.disconnectCb = <<>>]
    OBVIOUS
  <2>8. Opening(n, s, c)
    BY <2>6, <2>7, <1>4, OpeningIs DEF Made
  <2>9. IsSyn("A", seg)
    BY <1>3, <1>8 DEF IsRst
  <2>10. seg.src = 1 /\ seg.seq = Iss[Peer(n)]
    BY <2>9, <1>1 DEF IsSyn, Peer
  <2>11. PICK t : t = MachineListen(s, n, seg, accept)
    OBVIOUS
  <2>12. Listened(n, t)
    BY <2>4, <2>6, <2>8, <2>10, <2>11, <1>0, <1>1, <1>3, ListenStep
  <2>13. Finish(n, t, arrived)
    BY <2>2, <2>3, <2>4, <2>5, <2>7, <2>11, <1>5, <1>8, Zenon
  <2>14. records' = [records EXCEPT ![n] = @ + 1]
    BY <1>8
  <2>15. Advances(n)
    BY <2>1, <2>12, <2>13, <2>14, OpeningActs DEF Listened
  <2> QED
    BY <2>15, <1>1
<1>9. CASE /\ ~Exists(n) /\ "RST" \in seg.flg
           /\ Finish(n, Emit(Step(n, o), [seg EXCEPT !.src = 0, !.dst = seg.src]), Taken(seg, keep))
           /\ UNCHANGED records
  <2>1. PICK t : t = Emit(Step(n, o), [seg EXCEPT !.src = 0, !.dst = seg.src])
    OBVIOUS
  <2>2. IsRst(seg)
    BY <1>3, <1>9
  <2>3. Rsts(t.out) /\ t.c = conn[n] /\ t.a = app[n] /\ t.jam = jam[n] /\ t.broken = broken
    <3>1. Rebuffed(n, t)
      BY <2>1, <2>2, <1>3, <1>4, ReplyIs
    <3> QED
      BY <3>1 DEF Rebuffed
  <2>4. Finish(n, t, arrived)
    BY <2>1, <1>5, <1>9
  <2>5. Took(n, t.c, t.a, t.jam, t.out, arrived, t.broken, records[n])
    <3>1. records' = [records EXCEPT ![n] = records[n]]
      BY <1>9, SameRecords
    <3>2. t.jam \in BOOLEAN /\ t.broken \subseteq Allowed
      BY <2>3, <1>6
    <3> QED
      BY <2>4, <3>1, <3>2, FinishTook
  <2>6. Took(n, conn[n], app[n], jam[n], t.out, arrived, broken, records[n])
    BY <2>3, <2>5, Zenon
  <2> QED
    BY <2>3, <2>6, <1>1, IdleActs
<1> QED
  BY <1>2, <1>7, <1>8, <1>9, Zenon DEF Request

-----------------------------------------------------------------------------
(* The invariant holds.                                                    *)

\* It holds in the initial states.
LEMMA InitInv ==
  ASSUME Setting, Init
  PROVE  ArdpInv
<1>0. Fits
  BY DEF Setting
<1>1. /\ conn = [n \in Node |-> NoConn] /\ jam = [n \in Node |-> FALSE] /\ net = [n \in Node |-> {}]
      /\ records = [n \in Node |-> 0] /\ broken = {}
  BY DEF Init
<1>2. ASSUME NEW n \in Node
      PROVE  /\ app[n].submitted = 0 /\ app[n].sendCb = [m \in DOMAIN Msgs[n] |-> <<>>]
             /\ app[n].rcvd = <<>> /\ app[n].held = <<>> /\ app[n].consumed = 0
             /\ app[n].connectCb = <<>> /\ app[n].disconnectCb = <<>>
  BY DEF Init
<1>r. ASSUME NEW n \in Node
      PROVE  app[n] = [submitted |-> app[n].submitted, sendCb |-> app[n].sendCb, rcvd |-> app[n].rcvd,
                       held |-> app[n].held, consumed |-> app[n].consumed,
                       connectCb |-> app[n].connectCb, disconnectCb |-> app[n].disconnectCb]
  BY DEF Init
<1>s. \A n \in Node : app[n].submitted = 0 /\ app[n].consumed = 0
  BY <1>2
<1>3. ASSUME NEW n \in Node PROVE AppT(n, app[n])
  <2>1. PICK N \in Nat : N = Len(Msgs[n])
    BY MsgsAssumption, LenProperties
  <2>2. app[n].submitted \in 0 .. Len(Msgs[n]) /\ app[n].consumed \in Nat
    BY <1>s, <2>1
  <2>3. <<>> \in Seq(Seq(Nat \X Nat)) /\ <<>> \in Seq(Ring) /\ <<>> \in Seq(Statuses)
    OBVIOUS
  <2>4. app[n].sendCb = [m \in DOMAIN Msgs[n] |-> app[n].sendCb[m]]
    BY <1>2
  <2> QED
    BY <1>2, <1>r, <2>2, <2>3, <2>4, Zenon DEF AppT
<1>4. Types
  <2>1. \A n \in Node : net[n] = {} /\ conn[n] = NoConn /\ records[n] = 0
    BY <1>1
  <2>2. \A n \in Node : net[n] \subseteq Segs /\ IsFiniteSet(net[n]) /\ Cardinality(net[n]) <= NetMax[n]
    <3>1. IsFiniteSet({}) /\ Cardinality({}) = 0
      BY FS_EmptySet
    <3>2. \A n \in Node : NetMax[n] \in Nat
      BY BoundAssumption
    <3>3. \A n \in Node : 0 <= NetMax[n]
      BY <3>2
    <3> QED
      BY <2>1, <3>1, <3>3
  <2>3. app = [n \in Node |-> app[n]]
    BY DEF Init
  <2>4. jam \in [Node -> BOOLEAN] /\ records \in [Node -> {0, 1}] /\ broken \subseteq Allowed
    BY <1>1
  <2>5. conn = [n \in Node |-> conn[n]] /\ net = [n \in Node |-> net[n]]
    BY <1>1
  <2> QED
    BY <1>3, <2>1, <2>2, <2>3, <2>4, <2>5 DEF Types
<1>5. ASSUME NEW n \in Node, NEW p \in Node PROVE AppOK(n, app[n], app[p])
  <2>1. RcvApp(Peer(n), app[n], app[p].submitted)
    <3>1. Len(<<>>) = 0 /\ 0 - 0 = 0 /\ 0 <= 0
      OBVIOUS
    <3>2. <<>> = [k \in 1 .. 0 |-> FragsOf(Peer(n), k)]
      OBVIOUS
    <3>3. <<>> = [k \in 1 .. 0 |-> Slot(Peer(n), First(Peer(n), 0 + k))]
      OBVIOUS
    <3>4. Len(app[n].rcvd) = 0 /\ app[n].consumed = 0 /\ app[p].submitted = 0 /\ Len(app[n].rcvd) - app[n].consumed = 0
      BY <1>2, <3>1, Zenon
    <3>5. app[n].rcvd = [k \in 1 .. Len(app[n].rcvd) |-> FragsOf(Peer(n), k)]
      BY <1>2, <3>2, <3>4, Zenon
    <3>6. app[n].held = [k \in 1 .. Len(app[n].rcvd) - app[n].consumed |->
                            Slot(Peer(n), First(Peer(n), app[n].consumed + k))]
      BY <1>2, <3>3, <3>4, Zenon
    <3>7. Len(app[n].rcvd) <= app[p].submitted /\ app[n].consumed <= Len(app[n].rcvd)
      BY <3>1, <3>4, Zenon
    <3> QED
      BY <3>5, <3>6, <3>7, Zenon DEF RcvApp
  <2>2. CbAt(n, app[n], 1)
    <3>1. PICK N \in Nat : N = Len(Msgs[n]) /\ DOMAIN Msgs[n] = 1 .. N
      BY MsgsAssumption, LenProperties
    <3>2. ASSUME NEW m \in 1 .. N PROVE app[n].sendCb[m] = <<>> /\ ~(m < 1)
      <4>1. m \in DOMAIN Msgs[n] /\ ~(m < 1)
        BY <3>1
      <4>2. app[n].sendCb = [k \in DOMAIN Msgs[n] |-> <<>>]
        BY <1>2
      <4> QED
        BY <4>1, <4>2, Zenon
    <3> QED
      BY <3>1, <3>2 DEF CbAt
  <2>3. 1 \in 1 .. app[n].submitted + 1
    <3>1. 1 \in 1 .. 0 + 1
      OBVIOUS
    <3> QED
      BY <3>1, <1>s, Zenon
  <2>4. EndOf(n, app[n]) <= First(n, app[p].consumed + 1) + SegMax
    <3>1. First(n, 1) = 1
      BY <1>0, IssAt
    <3>2. EndOf(n, app[n]) = 1 /\ First(n, app[p].consumed + 1) = 1
      <4>1. app[n].submitted + 1 = 1 /\ app[p].consumed + 1 = 1
        BY <1>s
      <4> QED
        BY <3>1, <4>1 DEF EndOf
    <3> QED
      BY <3>2
  <2> QED
    BY <1>2, <2>1, <2>2, <2>3, <2>4 DEF AppOK
<1>6. Nodes
  <2>1. ASSUME NEW n \in Node PROVE NodeOK(n, conn[n], app[n], conn[Peer(n)], app[Peer(n)])
    <3>1. conn[n] = NoConn /\ app[n].held = <<>>
      BY <1>1, <1>2
    <3>2. Peer(n) \in Node
      BY PeerNode
    <3> QED
      BY <3>1, <3>2, <1>5 DEF NodeOK
  <2> QED
    BY <2>1 DEF Nodes
<1>7. Nets
  <2>1. \A n \in Node : net[Peer(n)] = {}
    BY <1>1, PeerNode
  <2> QED
    BY <2>1 DEF Nets
<1>8. Record
  BY <1>1, <1>2 DEF Record
<1>9. Phase
  <2>1. \A n \in Node : net[n] = {} /\ conn[n] = NoConn /\ app[n].submitted = 0
    BY <1>1, <1>2
  <2> QED
    BY <2>1 DEF Phase, Node
<1> QED
  BY <1>4, <1>6, <1>7, <1>8, <1>9 DEF ArdpInv

\* A step is one of the upper layer, of a timer, or of the socket.
LEMMA UpperAction ==
  ASSUME Setting, ArdpInv, NEW n \in Node, Upper(n)
  PROVE  Advances(n)
<1>1. CASE ARDP_Send(n)
  BY <1>1, SendAction
<1>2. CASE ARDP_RecvReady(n)
  BY <1>2, RecvReadyAction
<1>3. CASE ARDP_Disconnect(n)
  BY <1>3, DisconnectAction
<1>4. CASE ARDP_ReleaseConnection(n)
  BY <1>4, ReleaseConnectionAction
<1> QED
  BY <1>1, <1>2, <1>3, <1>4, Zenon DEF Upper

\* A step of a timer.
LEMMA TimersAction ==
  ASSUME Setting, ArdpInv, NEW n \in Node, Timers(n)
  PROVE  Advances(n)
<1>1. CASE ConnectTimerHandler(n)
  BY <1>1, ConnectTimerAction
<1>2. CASE AckTimerHandler(n)
  BY <1>2, AckTimerAction
<1>3. CASE ProbeTimerHandler(n)
  BY <1>3, ProbeTimerAction
<1>4. CASE PersistTimerHandler(n)
  BY <1>4, PersistTimerAction
<1>5. ASSUME NEW i \in Ring, RetransmitTimerHandler(n, i) PROVE Advances(n)
  BY <1>5, RetransmitAction
<1>6. CASE DisconnectTimerHandler(n)
  BY <1>6, DisconnectTimerAction
<1>7. CASE SocketWritable(n)
  BY <1>7, SocketAction
<1> QED
  BY <1>1, <1>2, <1>3, <1>4, <1>5, <1>6, <1>7, Zenon DEF Timers

\* Every step is a step of one node that keeps the invariant.
LEMMA NextAdvances ==
  ASSUME Setting, ArdpInv, Next
  PROVE  \E n \in Node : Advances(n)
<1>1. "A" \in Node /\ "B" \in Node
  BY DEF Node
<1>2. CASE ARDP_Connect
  BY <1>1, <1>2, ConnectAction, Zenon
<1>3. CASE ReceiveRequest
  BY <1>1, <1>3, RequestAction, Zenon
<1>4. ASSUME NEW n \in Node, Upper(n) \/ Timers(n) \/ ReceiveSegment(n) \/ Discard(n)
      PROVE  Advances(n)
  <2>1. CASE Upper(n)
    BY <2>1, UpperAction
  <2>2. CASE Timers(n)
    BY <2>2, TimersAction
  <2>3. CASE ReceiveSegment(n)
    BY <2>3, ReceiveSegmentAction
  <2>4. CASE Discard(n)
    BY <2>4, DiscardAction
  <2> QED
    BY <1>4, <2>1, <2>2, <2>3, <2>4, Zenon
<1> QED
  BY <1>2, <1>3, <1>4, Zenon DEF Next

\* A step that changes nothing keeps the invariant.
LEMMA StutterInv ==
  ASSUME ArdpInv, UNCHANGED vars
  PROVE  ArdpInv'
BY DEF ArdpInv, vars, Types, Nodes, Nets, Record, Phase, NotOpened

\* A step keeps the invariant.
LEMMA StepInv ==
  ASSUME Setting, ArdpInv, [Next]_vars
  PROVE  ArdpInv'
<1>1. CASE Next
  <2>1. PICK n \in Node : Advances(n)
    BY <1>1, NextAdvances
  <2> QED
    BY <2>1 DEF Advances
<1>2. CASE UNCHANGED vars
  BY <1>2, StutterInv
<1> QED
  BY <1>1, <1>2

\* ArdpInv holds at every call into ArdpProtocol.cc and after it, whatever the network loses,
\* repeats or reorders, and whichever side closes first.
THEOREM ArdpInvariant == Setting => (Spec => []ArdpInv)
<1> SUFFICES ASSUME Setting PROVE Spec => []ArdpInv
  OBVIOUS
<1>1. Init => ArdpInv
  BY InitInv
<1>2. ArdpInv /\ [Next]_vars => ArdpInv'
  BY StepInv
<1> QED
  BY <1>1, <1>2, PTL DEF Spec

-----------------------------------------------------------------------------
(* What the invariant says of the properties.                              *)

\* TypeOK follows from the invariant.
LEMMA TypesOK ==
  ASSUME Setting, ArdpInv
  PROVE  TypeOK
<1>0. Types
  BY DEF ArdpInv
<1>1. ASSUME NEW n \in Node, conn[n] # NoConn
      PROVE  LET c == conn[n]
             IN  /\ c.state \in States /\ c.reason \in Reasons
                 /\ {c.NXT, c.UNA, c.LCS, c.CUR, c.rLCS, c.window} \subseteq Seqs
                 /\ c.pending \in 0 .. SegMax /\ c.retry \in 0 .. ConnectRetries + 1
                 /\ c.conTimer \in {"off", "connect", "disconnect"} /\ c.ackTimer \in BOOLEAN
                 /\ c.persist \in 0 .. PersistRetries /\ c.probe \in 0 .. KeepaliveRetries
                 /\ BufferTypeOK(c)
  <2>1. PICK c \in Conn : c = conn[n]
    BY <1>0, <1>1 DEF Types
  <2>2. /\ c.state \in States /\ c.reason \in Reasons
        /\ {c.NXT, c.UNA, c.LCS, c.CUR, c.rLCS, c.window} \subseteq Seqs
        /\ c.pending \in 0 .. SegMax /\ c.retry \in 0 .. ConnectRetries + 1
        /\ c.conTimer \in {"off", "connect", "disconnect"} /\ c.ackTimer \in BOOLEAN
        /\ c.persist \in 0 .. PersistRetries /\ c.probe \in 0 .. KeepaliveRetries
    BY DEF Conn
  <2>3. BufferTypeOK(c)
    <3>1. c.sbuf \in [Ring -> SndBuf] /\ c.rbuf \in [Ring -> RcvBuf] /\ c.eack \in Eack
      BY DEF Conn
    <3>2. ASSUME NEW i \in Ring
          PROVE  /\ c.sbuf[i] \in [inUse : BOOLEAN, seq : Seqs, som : Seqs, fcnt : 0 .. SegMax,
                                   ttl : {"inf", "ttl", "expired"}, timer : BOOLEAN, msg : Nat]
                 /\ c.rbuf[i].seq \in Seqs /\ c.rbuf[i].som \in Seqs /\ c.rbuf[i].fcnt \in 0 .. SegMax
                 /\ c.rbuf[i].ttl \in {"inf", "ttl", "expired"}
      <4>1. c.sbuf[i] \in SndBuf
        BY <3>1
      <4>2. PICK bf \in RcvBuf : bf = c.rbuf[i]
        BY <3>1
      <4>3. bf.seq \in Seqs /\ bf.som \in Seqs /\ bf.fcnt \in 0 .. SegMax /\ bf.ttl \in Ttl
        BY DEF RcvBuf
      <4> QED
        BY <4>1, <4>2, <4>3 DEF SndBuf, Ttl
    <3>3. c.eack.sz \in 0 .. Words
      BY <3>1 DEF Eack
    <3> QED
      BY <3>2, <3>3 DEF BufferTypeOK
  <2> QED
    BY <2>1, <2>2, <2>3
<1>2. \A n \in Node : Cardinality(net[n]) <= NetMax[n] /\ records[n] \in 0 .. MaxRecords
  <2>1. ASSUME NEW n \in Node PROVE records[n] \in 0 .. MaxRecords
    <3>1. records[n] \in {0, 1}
      BY <1>0 DEF Types
    <3>2. records[n] \in 0 .. 1
      BY <3>1
    <3> QED
      BY <3>2 DEF Setting
  <2> QED
    BY <1>0, <2>1 DEF Types
<1>3. jam \in [Node -> BOOLEAN]
  BY <1>0 DEF Types
<1> QED
  BY <1>1, <1>2, <1>3 DEF TypeOK, Exists

\* How two open ends of a connection relate.
AgreeAt(n, c, r) ==
  /\ c.foreign = r.local
  /\ Pos(n, c.LCS) <= Pos(n, r.rLCS)
  /\ Pos(n, r.rLCS) <= Pos(n, r.CUR)
  /\ Pos(n, r.CUR) < Pos(n, c.NXT)
  /\ Pos(n, c.NXT) <= Pos(n, r.rLCS) + 1 + SegMax

\* Two open ends agree.
LEMMA EndsAgree ==
  ASSUME Setting, ArdpInv, NEW n \in Node, NEW p \in Node, p = Peer(n), conn[n] # NoConn, conn[p] # NoConn,
         conn[n].state = "OPEN", conn[p].state = "OPEN"
  PROVE  AgreeAt(n, conn[n], conn[p])
<1>0. Fits /\ n = Peer(p)
  BY PeerNode DEF Setting
<1>1. PICK c \in Conn : c = conn[n]
  BY DEF ArdpInv, Types
<1>2. PICK r \in Conn : r = conn[p]
  BY DEF ArdpInv, Types
<1>3. ConnOK(n, c, app[n], r, app[p]) /\ AppOK(n, app[n], app[p])
  BY <1>1, <1>2 DEF ArdpInv, Nodes, NodeOK
<1>4. ConnOK(p, r, app[p], c, app[n]) /\ AppOK(p, app[p], app[n])
  BY <1>0, <1>1, <1>2 DEF ArdpInv, Nodes, NodeOK
<1>5. c.foreign = r.local
  <2>1. Est(n, c) /\ Ctl(n, c, app[n]) /\ Ctl(p, r, app[p])
    BY <1>1, <1>3, <1>4 DEF ConnOK, Ctl
  <2> QED
    BY <2>1 DEF Ctl
<1>6. PICK sub \in 0 .. Count(n) : sub = app[n].submitted
  BY <1>0, SubmittedCount
<1>7. PICK x \in Nat, y \in Nat, z \in Nat, u \in Nat :
        x = Pos(n, c.LCS) /\ y = Pos(n, r.rLCS) /\ z = Pos(n, r.CUR) /\ u = Pos(n, c.NXT)
  <2>1. c.LCS \in Seqs /\ r.rLCS \in Seqs /\ r.CUR \in Seqs /\ c.NXT \in Seqs
    BY DEF Conn
  <2>2. \A q \in Seqs : Pos(n, q) \in 0 .. SeqSpace - 1
    BY <1>0, PosOf
  <2> QED
    BY <2>1, <2>2
<1>8. PICK W \in Nat, D \in Nat, k \in Nat : Reach(n, app[p], sub, k, W, D)
  <2>1. AppT(p, app[p]) /\ RcvApp(n, app[p], sub)
    BY <1>0, <1>4, <1>6 DEF ArdpInv, Types, AppOK
  <2>2. app[p].rcvd \in Seq(Seq(Nat \X Nat)) /\ app[p].consumed \in Nat
    BY <2>1 DEF AppT
  <2>3. PICK k \in Nat, W \in Nat, D \in Nat : Reach(n, app[p], sub, k, W, D)
    BY <2>1, <2>2, <1>0, ReachIs
  <2> QED
    BY <2>3
<1>9. W + 1 = First(n, app[p].consumed + 1)
  BY <1>8 DEF Reach
<1>10. x < W + 1
  <2>1. SndOK(n, c, app[n], app[p].consumed)
    BY <1>3 DEF ConnOK
  <2> QED
    BY <2>1, <1>7, <1>9 DEF SndOK, SndAt, SndNumbers
<1>11. y = W /\ y <= z /\ z < First(n, sub + 1)
  <2>1. RcvOK(p, r, app[p], sub)
    BY <1>4, <1>6 DEF ConnOK
  <2>2. RcvAt(n, r, app[p], sub, Pos(n, r.CUR)) /\ Est(p, r)
    BY <2>1, <1>0, <1>2, <1>4 DEF RcvOK, ConnOK, Ctl
  <2>3. y = First(n, app[p].consumed + 1) - 1
    BY <2>2, <1>7 DEF RcvAt
  <2>4. Pos(n, r.rLCS) <= Pos(n, r.CUR) /\ Pos(n, r.CUR) < First(n, sub + 1)
    BY <2>1, <2>2, <1>0 DEF RcvOK
  <2>5. y = (W + 1) - 1
    BY <2>3, <1>9
  <2> QED
    BY <2>4, <2>5, <1>7
<1>12. PICK E \in Nat : E = First(n, sub + 1) /\ E = EndOf(n, app[n]) /\ E < SeqSpace
  <2>1. PICK T \in Nat : T = Total(n) /\ D <= T /\ T + SegMax < Half /\ Half \in Nat /\ Half + Half = SeqSpace
    <3>1. Fits
      BY <1>0
    <3>2. \E T \in Nat : T = Total(n) /\ W + 1 <= D /\ D <= T /\ T + SegMax < Half
                         /\ Half \in Nat /\ Half + Half = SeqSpace
      BY <3>1, <1>8, WindowSlot
    <3> QED
      BY <3>2
  <2>2. First(n, sub + 1) <= T
    BY <2>1, <1>8 DEF Reach
  <2>3. First(n, sub + 1) \in Nat
    <3>1. PICK N \in Nat : N = Count(n)
      BY <1>0, FirstIs
    <3>2. sub + 1 \in Nat
      BY <3>1
    <3> QED
      BY <3>2, <1>0, FirstIs
  <2> QED
    BY <2>1, <2>2, <2>3, <1>6 DEF EndOf
<1>13. u = E
  <2>1. c.NXT = SeqAt(n, E)
    BY <1>3, <1>12 DEF ConnOK, SndOK, SndAt, SndNumbers
  <2>2. E \in 0 .. SeqSpace - 1
    BY <1>12
  <2> QED
    BY <2>1, <2>2, <1>0, <1>7, AtPos
<1>14. E <= (W + 1) + SegMax
  BY <1>3, <1>9, <1>12 DEF AppOK
<1>15. x <= y /\ y <= z /\ z < u /\ u <= (y + 1) + SegMax
  BY <1>10, <1>11, <1>12, <1>13, <1>14
<1> QED
  BY <1>1, <1>2, <1>5, <1>7, <1>15 DEF AgreeAt

\* Agreement follows from the invariant.
LEMMA AgreementOK ==
  ASSUME Setting, ArdpInv
  PROVE  Agreement
<1>1. ASSUME NEW n \in Node, conn[n] # NoConn, conn[Peer(n)] # NoConn,
             conn[n].state = "OPEN", conn[Peer(n)].state = "OPEN"
      PROVE  AgreeAt(n, conn[n], conn[Peer(n)])
  BY <1>1, EndsAgree, PeerNode
<1> QED
  BY <1>1 DEF Agreement, AgreeAt, Exists, Pos

-----------------------------------------------------------------------------
(* The buffers of the messages that are handed out.                        *)

KeptAt(b, m, j) == b.delivered /\ b.data = <<m, j - 1>>

\* The buffers from the slot of its first position on hold a message.
LEMMA FragmentHeld ==
  ASSUME Fits, NEW p \in Node, NEW c, NEW m \in 1 .. Count(p), NEW W \in Nat, NEW D \in Nat,
         \A x \in W + 1 .. D - 1 : c.rbuf[Slot(p, x)].delivered /\ RcvBufAt(p, c.rbuf[Slot(p, x)], x),
         W + 1 <= First(p, m), First(p, m + 1) <= D,
         NEW j \in 1 .. Msgs[p][m].fcnt
  PROVE  KeptAt(c.rbuf[(Slot(p, First(p, m)) + j - 1) % SegMax], m, j)
<1>1. PICK X \in Nat, Z \in Nat, T \in Nat :
            /\ X = First(p, m) /\ Z = Final(p, m) /\ T = Total(p)
            /\ 1 <= X /\ X <= Z /\ Z < X + SegMax /\ Z < T /\ T + SegMax < Half
            /\ Z \in First(p, m) .. First(p, m + 1) - 1
            /\ First(p, m + 1) = Z + 1
  BY MessageSpan
<1>2. PICK g \in Nat : g = Msgs[p][m].fcnt /\ X + g = Z + 1
  <2>1. Msgs[p][m].fcnt \in 1 .. SegMax /\ First(p, m + 1) = First(p, m) + Msgs[p][m].fcnt
    BY Message
  <2>2. PICK g \in 1 .. SegMax : g = Msgs[p][m].fcnt
    BY <2>1
  <2> QED
    BY <2>1, <2>2, <1>1
<1>3. PICK k \in Nat : k = j - 1 /\ X + k <= Z
  BY <1>2
<1>4. (Slot(p, X) + k) % SegMax = Slot(p, X + k)
  <2>1. X + k <= Total(p) + SegMax
    BY <1>1, <1>3
  <2> QED
    BY <2>1, SlotNext
<1>5. Slot(p, X) + j - 1 = Slot(p, X) + k
  <2>1. PICK i \in Ring : i = Slot(p, X)
    BY <1>1, PosnIs
  <2>2. i + j - 1 = i + k
    BY <1>2, <1>3 DEF Ring
  <2> QED
    BY <2>1, <2>2
<1>6. PICK bf : bf = c.rbuf[Slot(p, X + k)]
  OBVIOUS
<1>7. bf.delivered /\ RcvBufAt(p, bf, X + k)
  <2>1. X + k \in W + 1 .. D - 1
    BY <1>1, <1>3
  <2> QED
    BY <2>1, <1>6
<1>8. PICK i \in 1 .. Len(Msgs[p]) :
        /\ bf.data = <<i, (X + k) - First(p, i)>>
        /\ First(p, i) <= X + k /\ X + k < First(p, i + 1)
  BY <1>7 DEF RcvBufAt
<1>9. i = m
  <2>1. First(p, m) <= X + k /\ X + k < First(p, m + 1)
    <3>1. X <= X + k /\ X + k < Z + 1
      BY <1>3
    <3> QED
      BY <3>1, <1>1, Zenon
  <2>2. i \in 1 .. Count(p) /\ X + k \in Int
    BY <1>8 DEF Count
  <2> QED
    BY <2>1, <2>2, <1>8, OneMessage
<1>10. bf.data = <<m, j - 1>>
  <2>1. (X + k) - X = j - 1
    BY <1>3
  <2>2. bf.data = <<m, (X + k) - First(p, m)>>
    BY <1>8, <1>9
  <2>3. (X + k) - First(p, m) = (X + k) - X
    BY <1>1
  <2> QED
    BY <2>1, <2>2, <2>3
<1> QED
  BY <1>1, <1>4, <1>5, <1>6, <1>7, <1>10 DEF KeptAt

\* HeldIntact follows from the invariant.
LEMMA HeldOK ==
  ASSUME Setting, ArdpInv
  PROVE  HeldIntact
<1>0. Fits
  BY DEF Setting
<1> SUFFICES ASSUME NEW n \in Node, NEW k \in DOMAIN app[n].held
             PROVE  /\ Exists(n)
                    /\ \A j \in DOMAIN app[n].rcvd[app[n].consumed + k] :
                         /\ conn[n].rbuf[(app[n].held[k] + j - 1) % SegMax].delivered
                         /\ conn[n].rbuf[(app[n].held[k] + j - 1) % SegMax].data
                              = app[n].rcvd[app[n].consumed + k][j]
  BY DEF HeldIntact
<1>1. PICK p \in Node : p = Peer(n)
  BY PeerNode
<1>2. NodeOK(n, conn[n], app[n], conn[p], app[p])
  BY <1>1 DEF ArdpInv, Nodes
<1>3. conn[n] # NoConn
  <2>1. app[n].held # <<>>
    OBVIOUS
  <2> QED
    BY <2>1, <1>2 DEF NodeOK
<1>4. PICK sub \in 0 .. Count(p) : sub = app[p].submitted
  BY <1>0, SubmittedCount
<1>5. AppT(n, app[n]) /\ RcvApp(p, app[n], sub) /\ RcvOK(n, conn[n], app[n], sub)
  <2>1. AppT(n, app[n])
    BY DEF ArdpInv, Types
  <2> QED
    BY <2>1, <1>1, <1>2, <1>3, <1>4 DEF NodeOK, AppOK, ConnOK
<1>6. app[n].rcvd \in Seq(Seq(Nat \X Nat)) /\ app[n].held \in Seq(Ring)
  BY <1>5 DEF AppT
<1>7. PICK q \in Nat : q = app[n].consumed
  BY <1>5 DEF AppT
<1>8. PICK r \in Nat, W \in Nat, D \in Nat : Reach(p, app[n], sub, r, W, D)
  BY <1>0, <1>5, <1>6, <1>7, ReachIs
<1>9. r = Len(app[n].rcvd) /\ r <= sub /\ q <= r /\ W + 1 = First(p, q + 1) /\ D = First(p, r + 1)
  BY <1>7, <1>8 DEF Reach
<1>10. PICK h \in Seq(Ring) : h = app[n].held
  BY <1>6
<1>11. h = [i \in 1 .. r - q |-> Slot(p, First(p, q + i))]
  BY <1>5, <1>7, <1>9, <1>10 DEF RcvApp
<1>12. k \in 1 .. r - q
  BY <1>10, <1>11
<1>13. PICK m \in Nat : m = q + k /\ m \in 1 .. r
  BY <1>9, <1>12
<1>14. m \in 1 .. Count(p) /\ m + 1 \in 1 .. Count(p) + 1 /\ r + 1 \in 1 .. Count(p) + 1 /\ q + 1 \in 1 .. Count(p) + 1
  <2>1. PICK N \in Nat : N = Count(p)
    BY <1>0, FirstIs
  <2>2. m \in 1 .. N /\ m + 1 \in 1 .. N + 1 /\ r + 1 \in 1 .. N + 1 /\ q + 1 \in 1 .. N + 1
    <3>1. sub \in 0 .. N
      BY <2>1
    <3>2. r <= sub /\ q <= r /\ m \in 1 .. r
      BY <1>9, <1>13
    <3> QED
      BY <3>1, <3>2
  <2> QED
    BY <2>1, <2>2
<1>15. app[n].held[k] = Slot(p, First(p, m))
  BY <1>10, <1>11, <1>12, <1>13
<1>16. app[n].rcvd[q + k] = FragsOf(p, m)
  <2>1. app[n].rcvd = [i \in 1 .. r |-> FragsOf(p, i)]
    BY <1>5, <1>9 DEF RcvApp
  <2> QED
    BY <2>1, <1>13
<1>17. \A x \in W + 1 .. D - 1 :
          conn[n].rbuf[Slot(p, x)].delivered /\ RcvBufAt(p, conn[n].rbuf[Slot(p, x)], x)
  <2>1. RcvHeld(p, conn[n], app[n])
    BY <1>1, <1>5 DEF RcvOK
  <2>2. First(p, app[n].consumed + 1) - 1 = W /\ First(p, Len(app[n].rcvd) + 1) = D
    <3>1. First(p, app[n].consumed + 1) = W + 1
      BY <1>7, <1>9
    <3>2. (W + 1) - 1 = W
      OBVIOUS
    <3> QED
      BY <3>1, <3>2, <1>9
  <2> QED
    BY <2>1, <2>2 DEF RcvHeld
<1>18. W + 1 <= First(p, m)
  <2>1. q + 1 <= m
    BY <1>12, <1>13
  <2>2. PICK u \in Nat, v \in Nat : u = First(p, q + 1) /\ v = First(p, m) /\ u + (m - (q + 1)) <= v
    <3>1. m \in 1 .. Count(p) + 1
      BY <1>14, <1>0, FirstIs
    <3> QED
      BY <2>1, <3>1, <1>0, <1>14, FirstMono
  <2> QED
    BY <2>1, <2>2, <1>9, <1>13
<1>19. First(p, m + 1) <= D
  <2>1. m + 1 <= r + 1
    BY <1>13
  <2>2. PICK u \in Nat, v \in Nat : u = First(p, m + 1) /\ v = First(p, r + 1) /\ u + ((r + 1) - (m + 1)) <= v
    BY <2>1, <1>0, <1>14, FirstMono
  <2>3. u <= v
    BY <2>1, <2>2, <1>13
  <2> QED
    BY <2>2, <2>3, <1>9, Zenon
<1>20. ASSUME NEW j \in DOMAIN app[n].rcvd[app[n].consumed + k]
       PROVE  /\ conn[n].rbuf[(app[n].held[k] + j - 1) % SegMax].delivered
              /\ conn[n].rbuf[(app[n].held[k] + j - 1) % SegMax].data
                   = app[n].rcvd[app[n].consumed + k][j]
  <2>1. j \in DOMAIN FragsOf(p, m) /\ app[n].rcvd[app[n].consumed + k] = FragsOf(p, m)
    BY <1>7, <1>16
  <2>2. j \in 1 .. Msgs[p][m].fcnt
    BY <2>1 DEF FragsOf
  <2>3. FragsOf(p, m)[j] = <<m, j - 1>>
    BY <2>2 DEF FragsOf
  <2>4. KeptAt(conn[n].rbuf[(Slot(p, First(p, m)) + j - 1) % SegMax], m, j)
    BY <2>2, <1>0, <1>14, <1>17, <1>18, <1>19, FragmentHeld
  <2> QED
    BY <2>1, <2>3, <2>4, <1>15, Zenon DEF KeptAt
<1> QED
  BY <1>3, <1>20 DEF Exists

-----------------------------------------------------------------------------
(* What the mask of an open receiver announces.                            *)

\* A position and the one that is SegMax further on share a slot.
LEMMA SlotAgain ==
  ASSUME Fits, NEW p \in Node, NEW x \in Nat, x <= Total(p)
  PROVE  Slot(p, x + SegMax) = Slot(p, x)
<1>1. PICK T \in Nat : T = Total(p)
  BY FirstIs
<1>2. x \in 0 .. Total(p) + SegMax /\ x + SegMax <= Total(p) + SegMax
  <2>1. x \in 0 .. T + SegMax /\ x + SegMax <= T + SegMax
    BY <1>1
  <2> QED
    BY <1>1, <2>1
<1>3. (Slot(p, x) + SegMax) % SegMax = Slot(p, x + SegMax)
  BY <1>2, SlotNext
<1>4. PICK i \in Nat : i = Slot(p, x) /\ i < SegMax
  BY <1>2, SlotIs DEF Ring
<1>5. (i + SegMax) % SegMax = i
  <2>1. SegMax % SegMax = 0
    OBVIOUS
  <2>2. PICK j \in Nat : j = i + SegMax /\ SegMax <= j /\ j - SegMax = i
    OBVIOUS
  <2>3. SegMax \in Nat /\ SegMax \in Nat \ {0}
    OBVIOUS
  <2>4. (j - SegMax) % SegMax = j % SegMax
    BY <2>1, <2>2, <2>3, ModMultiple
  <2>5. i % SegMax = i
    BY <1>4
  <2> QED
    BY <2>2, <2>4, <2>5
<1> QED
  BY <1>3, <1>4, <1>5

\* The segment d positions behind the first missing one is buffered.
Buffered(c, d) ==
  LET b == c.rbuf[Idx(Plus(c.CUR, 1 + d))] IN b.inUse /\ b.seq = Plus(c.CUR, 1 + d)

\* What the mask announces has arrived, and what has arrived is announced.
LEMMA MaskExact ==
  ASSUME Fits, NEW p \in Node, NEW c \in Conn, NEW a, NEW sub \in 0 .. Count(p),
         NEW r \in Nat, NEW W \in Nat, NEW D \in Nat, Reach(p, a, sub, r, W, D),
         NEW C \in Nat, C = Pos(p, c.CUR), RcvParts(p, c, sub, r, W, D, C), C < First(p, sub + 1),
         NEW d \in Nat \ {0}
  PROVE  d \in Announced(c.eack.mask) <=> d \in 1 .. SegMax - 1 /\ Buffered(c, d)
<1>1. PICK T \in Nat : T = Total(p) /\ W + 1 <= D /\ D <= T /\ T + SegMax < Half
                       /\ Half \in Nat /\ Half + Half = SeqSpace
  BY WindowSlot
<1>2. C < T
  <2>1. First(p, sub + 1) <= T
    BY <1>1 DEF Reach
  <2>2. PICK E \in Nat : E = First(p, sub + 1)
    <3>1. sub + 1 \in Nat
      <4>1. PICK N \in Nat : N = Count(p)
        BY FirstIs
      <4> QED
        BY <4>1
    <3> QED
      BY <3>1, FirstIs
  <2>3. C < E /\ E <= T
    BY <2>1, <2>2
  <2> QED
    BY <2>3
<1>3. W <= C /\ C <= W + SegMax
  <2>1. D - 1 <= C /\ C <= W + SegMax
    BY DEF RcvParts, RcvFront
  <2> QED
    BY <2>1, <1>1
<1>4. d \in Announced(c.eack.mask) <=> (C + 1) + d <= W + SegMax /\ c.rbuf[Slot(p, (C + 1) + d)].inUse
  BY DEF RcvParts, RcvMask
<1>5. RcvRing(p, c, sub, W, D, C)
  BY DEF RcvParts
<1>6. PICK X \in Nat : X = (C + 1) + d
  OBVIOUS
<1>7. ASSUME d \in 1 .. SegMax - 1
      PROVE  /\ Plus(c.CUR, 1 + d) = SeqAt(p, X) /\ Idx(Plus(c.CUR, 1 + d)) = Slot(p, X)
             /\ X < SeqSpace
  <2>1. PICK k \in Nat : k = 1 + d
    OBVIOUS
  <2>2. C + k < SeqSpace /\ C + k = X
    BY <2>1, <1>1, <1>2, <1>6, <1>7
  <2>3. c.CUR \in Seqs
    BY DEF Conn
  <2>4. Pos(p, c.CUR) + k < SeqSpace
    BY <2>2
  <2>5. Plus(c.CUR, k) \in Seqs /\ Pos(p, Plus(c.CUR, k)) = Pos(p, c.CUR) + k
    BY <2>3, <2>4, PosPlus
  <2>6. SeqAt(p, Pos(p, Plus(c.CUR, k))) = Plus(c.CUR, k)
    BY <2>5, PosOf
  <2>7. Pos(p, Plus(c.CUR, k)) = X
    BY <2>2, <2>5
  <2>8. Plus(c.CUR, k) = SeqAt(p, X)
    BY <2>6, <2>7
  <2> QED
    BY <2>1, <2>2, <2>8 DEF Slot
<1>8. ASSUME d \in Announced(c.eack.mask)
      PROVE  d \in 1 .. SegMax - 1 /\ Buffered(c, d)
  <2>1. X <= W + SegMax /\ c.rbuf[Slot(p, X)].inUse
    BY <1>4, <1>6, <1>8
  <2>2. d \in 1 .. SegMax - 1 /\ X \in W + 1 .. W + SegMax
    BY <2>1, <1>3, <1>6
  <2>3. RcvBufOK(p, c.rbuf[Slot(p, X)], sub, D, C, X)
    BY <2>2, <1>5 DEF RcvRing
  <2>4. c.rbuf[Slot(p, X)].seq = SeqAt(p, X)
    BY <2>1, <2>3 DEF RcvBufOK, RcvBufAt
  <2> QED
    BY <2>1, <2>2, <2>4, <1>7 DEF Buffered
<1>9. ASSUME d \in 1 .. SegMax - 1, Buffered(c, d)
      PROVE  d \in Announced(c.eack.mask)
  <2>1. c.rbuf[Slot(p, X)].inUse /\ c.rbuf[Slot(p, X)].seq = SeqAt(p, X)
    BY <1>7, <1>9 DEF Buffered
  <2>2. ASSUME ~(X <= W + SegMax) PROVE FALSE
    <3>1. PICK x \in Nat : X = x + SegMax
      BY <2>2
    <3>2. x \in W + 1 .. W + SegMax /\ x <= T /\ x # X /\ X \in 0 .. SeqSpace - 1 /\ x \in 0 .. SeqSpace - 1
      BY <3>1, <2>2, <1>1, <1>2, <1>3, <1>6, <1>7, <1>9
    <3>3. Slot(p, X) = Slot(p, x)
      <4>1. x <= Total(p)
        BY <3>2, <1>1
      <4> QED
        BY <4>1, <3>1, SlotAgain
    <3>4. RcvBufOK(p, c.rbuf[Slot(p, x)], sub, D, C, x)
      BY <3>2, <1>5 DEF RcvRing
    <3>5. SeqAt(p, X) = SeqAt(p, x)
      BY <2>1, <3>3, <3>4 DEF RcvBufOK, RcvBufAt
    <3>6. Pos(p, SeqAt(p, X)) = X /\ Pos(p, SeqAt(p, x)) = x
      BY <3>2, AtPos
    <3> QED
      BY <3>2, <3>5, <3>6
  <2> QED
    BY <2>1, <2>2, <1>4, <1>6
<1> QED
  BY <1>8, <1>9

\* A mask announces what comes after the first missing segment.
LEMMA AnnouncedPositive ==
  ASSUME NEW c \in Conn, WellFormed(c.eack)
  PROVE  Announced(c.eack.mask) \subseteq Nat \ {0}
<1>1. PICK mask \in [WordIds -> SUBSET Bits] : mask = c.eack.mask
  BY DEF WellFormed
<1> SUFFICES ASSUME NEW d \in Announced(mask) PROVE d \in Nat \ {0}
  BY <1>1
<1>2. PICK w \in WordIds : \E b \in mask[w] : d = w * WordBits + b + 1
  BY AnnouncedBits
<1>3. PICK b \in mask[w] : d = w * WordBits + b + 1
  BY <1>2
<1>4. w \in Nat /\ b \in Nat
  <2>1. Words \in Nat
    BY WordsType
  <2> QED
    BY <2>1 DEF WordIds, Bits
<1>5. PICK v \in Nat : v = w * WordBits
  <2>1. w * WordBits \in Nat
    BY <1>4, SMTT(30)
  <2> QED
    BY <2>1
<1> QED
  BY <1>3, <1>4, <1>5

\* The header carries the mask, when its copy is fresh.
LEMMA WireIs ==
  ASSUME NEW c \in Conn, WellFormed(c.eack), c.eack.htnMask = c.eack.mask
  PROVE  Announced(WireMask(c)) = Announced(c.eack.mask) /\ Announced(c.eack.mask) \subseteq Nat \ {0}
<1>1. PICK mask \in [WordIds -> SUBSET Bits] : mask = c.eack.mask
  BY DEF WellFormed
<1>2. Announced(mask) \subseteq Nat \ {0}
  BY <1>1, AnnouncedPositive
<1>3. CASE c.eack.sz # 0
  BY <1>1, <1>2, <1>3 DEF WireMask
<1>4. CASE c.eack.sz = 0
  <2>1. \A w \in WordIds : mask[w] = {}
    <3>1. Words \in Nat
      BY WordsType
    <3>2. \A w \in WordIds : w >= c.eack.sz => c.eack.mask[w] = {}
      BY DEF WellFormed
    <3> QED
      BY <3>1, <3>2, <1>1, <1>4 DEF WordIds
  <2>2. Announced(mask) = {}
    BY <2>1, AnnouncedBits
  <2>3. WireMask(c) = NoEack.mask
    BY <1>4 DEF WireMask
  <2> QED
    BY <2>2, <2>3, <1>1, NoEackWellFormed
<1> QED
  BY <1>3, <1>4

\* The copy in network order is the mask.
CopyFresh(c) == c.eack.htnMask = c.eack.mask

\* The mask of an open connection announces what it has buffered, and so does the header,
\* unless its copy was left behind; the copy of at most two words never is.
OwnMask(c) == Announced(c.eack.mask) = {d \in 1 .. SegMax - 1 : Buffered(c, d)}
MaskOf(c) ==
  /\ OwnMask(c)
  /\ CopyFresh(c) => Announced(WireMask(c)) = {d \in 1 .. SegMax - 1 : Buffered(c, d)}
  /\ Words <= 2 => CopyFresh(c)

\* The masks of an open connection.
LEMMA OpenMask ==
  ASSUME Setting, ArdpInv, NEW n \in Node, conn[n] # NoConn, conn[n].state = "OPEN"
  PROVE  MaskOf(conn[n])
<1>0. Fits
  BY DEF Setting
<1>1. PICK p \in Node : p = Peer(n)
  BY PeerNode
<1>2. PICK c \in Conn : c = conn[n]
  BY DEF ArdpInv, Types
<1>3. PICK sub \in 0 .. Count(p) : sub = app[p].submitted
  BY <1>0, SubmittedCount
<1>4. AppT(n, app[n]) /\ RcvApp(p, app[n], sub) /\ RcvOK(n, c, app[n], sub)
  <2>1. AppT(n, app[n])
    BY DEF ArdpInv, Types
  <2>2. NodeOK(n, conn[n], app[n], conn[p], app[p])
    BY <1>1 DEF ArdpInv, Nodes
  <2> QED
    BY <2>1, <2>2, <1>1, <1>2, <1>3 DEF NodeOK, AppOK, ConnOK
<1>5. PICK r \in Nat, W \in Nat, D \in Nat : Reach(p, app[n], sub, r, W, D)
  <2>1. app[n].rcvd \in Seq(Seq(Nat \X Nat)) /\ app[n].consumed \in Nat
    BY <1>4 DEF AppT
  <2> QED
    BY <2>1, <1>0, <1>4, ReachIs
<1>6. RcvAt(p, c, app[n], sub, Pos(p, c.CUR)) /\ Pos(p, c.CUR) < First(p, sub + 1)
  <2>1. Est(n, c)
    <3>1. NodeOK(n, conn[n], app[n], conn[p], app[p])
      BY <1>1 DEF ArdpInv, Nodes
    <3>2. Ctl(n, c, app[n])
      BY <3>1, <1>2 DEF NodeOK, ConnOK
    <3> QED
      BY <3>2, <1>2 DEF Ctl
  <2> QED
    BY <2>1, <1>1, <1>2, <1>4 DEF RcvOK
<1>7. PICK C \in Nat : C = Pos(p, c.CUR)
  <2>1. Pos(p, c.CUR) \in 0 .. SeqSpace - 1
    <3>1. c.CUR \in Seqs
      BY DEF Conn
    <3> QED
      BY <3>1, <1>0, PosOf
  <2> QED
    BY <2>1
<1>8. RcvParts(p, c, sub, r, W, D, C) /\ C < First(p, sub + 1)
  BY <1>5, <1>6, <1>7, RcvAtIs
<1>9. \A d \in Nat \ {0} : d \in Announced(c.eack.mask) <=> d \in 1 .. SegMax - 1 /\ Buffered(c, d)
  BY <1>0, <1>5, <1>7, <1>8, MaskExact
<1>10. /\ Announced(c.eack.mask) \subseteq Nat \ {0}
       /\ CopyFresh(c) => Announced(WireMask(c)) = Announced(c.eack.mask)
       /\ Words <= 2 => CopyFresh(c)
  <2>1. WellFormed(c.eack) /\ (Words <= 2 => c.eack.htnMask = c.eack.mask)
    BY <1>8 DEF RcvParts, RcvMask
  <2>2. Announced(c.eack.mask) \subseteq Nat \ {0}
    BY <2>1, AnnouncedPositive
  <2>3. CopyFresh(c) => Announced(WireMask(c)) = Announced(c.eack.mask)
    BY <2>1, WireIs DEF CopyFresh
  <2> QED
    BY <2>1, <2>2, <2>3 DEF CopyFresh
<1>11. \A d : d \in Announced(c.eack.mask) <=> d \in {x \in 1 .. SegMax - 1 : Buffered(c, x)}
  <2>1. \A d \in 1 .. SegMax - 1 : d \in Nat \ {0}
    OBVIOUS
  <2> HIDE DEF Buffered
  <2> QED
    BY <2>1, <1>9, <1>10
<1> QED
  BY <1>2, <1>10, <1>11, Zenon DEF MaskOf, OwnMask

\* The copy of every open connection is fresh, and every mask is exact.
CopiesFresh == \A n \in Node : Exists(n) /\ conn[n].state = "OPEN" => CopyFresh(conn[n])
MasksExact == \A n \in Node : Exists(n) /\ conn[n].state = "OPEN" => OwnMask(conn[n])

\* What the invariant says of all the masks.
LEMMA EackOK ==
  ASSUME Setting, ArdpInv
  PROVE  MasksExact /\ (CopiesFresh => EackExact) /\ (Words <= 2 => CopiesFresh)
<1>1. \A n \in Node : Exists(n) /\ conn[n].state = "OPEN" => MaskOf(conn[n])
  BY OpenMask DEF Exists
<1>2. MasksExact /\ (Words <= 2 => CopiesFresh)
  BY <1>1, Zenon DEF MasksExact, CopiesFresh, MaskOf
<1>3. ASSUME CopiesFresh PROVE EackExact
  <2>1. \A n \in Node : Exists(n) /\ conn[n].state = "OPEN" =>
           Announced(WireMask(conn[n])) = {d \in 1 .. SegMax - 1 : Buffered(conn[n], d)}
    BY <1>1, <1>3, Zenon DEF CopiesFresh, MaskOf
  <2> QED
    BY <2>1, Zenon DEF EackExact, Buffered
<1> QED
  BY <1>2, <1>3

\* Only the two assertions that a reordered acknowledgement reaches can fail.
OnlyLateAcks == broken \subseteq Allowed

\* The invariant says so.
LEMMA BrokenOK ==
  ASSUME ArdpInv
  PROVE  OnlyLateAcks
  BY DEF ArdpInv, Types, OnlyLateAcks

-----------------------------------------------------------------------------
(* After DisconnectCb.                                                     *)

\* What a step keeps from the upper layer of node n once it was told the end, and what it has told it by then.
Hushed(n, a, e, same) ==
  /\ a.disconnectCb # <<>> /\ same =>
        e.rcvd = a.rcvd /\ e.sendCb = a.sendCb /\ e.disconnectCb = a.disconnectCb
  /\ a.disconnectCb = <<>> /\ e.disconnectCb # <<>> =>
        \A m \in 1 .. e.submitted : e.sendCb[m] # <<>>

\* A step is quiet at both nodes.
LEMMA HushedStep ==
  ASSUME Setting, ArdpInv, Next, NEW m \in Node
  PROVE  Hushed(m, app[m], app'[m], records'[m] = records[m])
<1>1. PICK n \in Node : Advances(n)
  BY NextAdvances
<1>2. ArdpInv' /\ ActsOf(n)
  BY <1>1 DEF Advances
<1>3. CASE m = n
  <2>1. AppStep(n, app[n], app'[n], app[Peer(n)].consumed, records'[n] = records[n])
    BY <1>2 DEF ActsOf
  <2>2. app[n].disconnectCb # <<>> /\ records'[n] = records[n] =>
          app'[n].rcvd = app[n].rcvd /\ app'[n].sendCb = app[n].sendCb
          /\ app'[n].disconnectCb = app[n].disconnectCb
    BY <2>1 DEF AppStep, Proceeds, Submits, Consumes, Counts
  <2>3. app'[n].disconnectCb # <<>> => \A i \in 1 .. app'[n].submitted : app'[n].sendCb[i] # <<>>
    BY <1>2 DEF ArdpInv, Nodes, NodeOK, AppOK
  <2> QED
    BY <2>2, <2>3, <1>3 DEF Hushed
<1>4. CASE m # n
  <2>1. m = Peer(n)
    BY <1>4 DEF Node, Peer
  <2>2. app'[m] = app[m]
    BY <2>1, <1>2 DEF ActsOf
  <2> QED
    BY <2>2 DEF Hushed
<1> QED
  BY <1>3, <1>4

\* DisconnectCb is the last callback of a connection: FlushSendQueue (ArdpProtocol.cc:657) has
\* reported every message before it, and no handler reports anything after it.
THEOREM ArdpQuietAfterDisconnect == Setting => (Spec => QuietAfterDisconnect)
<1> SUFFICES ASSUME Setting PROVE Spec => QuietAfterDisconnect
  OBVIOUS
<1> DEFINE Hush == \A m \in Node : Hushed(m, app[m], app'[m], records'[m] = records[m])
<1>1. ArdpInv /\ [Next]_vars => [Hush]_vars
  <2> SUFFICES ASSUME ArdpInv, Next, NEW m \in Node
               PROVE  Hushed(m, app[m], app'[m], records'[m] = records[m])
    BY Zenon
  <2> QED
    BY HushedStep
<1>2. Spec => []ArdpInv
  BY ArdpInvariant
<1>3. [Hush]_vars => [\A n \in Node :
        /\ app[n].disconnectCb # <<>> /\ records'[n] = records[n] =>
              /\ app'[n].rcvd = app[n].rcvd
              /\ app'[n].sendCb = app[n].sendCb
              /\ app'[n].disconnectCb = app[n].disconnectCb
        /\ app[n].disconnectCb = <<>> /\ app'[n].disconnectCb # <<>> =>
              \A m \in 1 .. app'[n].submitted : app'[n].sendCb[m] # <<>>]_vars
  BY Zenon DEF Hushed
<1> HIDE DEF Hush
<1> QED
  BY <1>1, <1>2, <1>3, PTL DEF Spec, QuietAfterDisconnect

\* Every handler keeps a connection record, its buffers, its masks and the segments it sends
\* within their types.
THEOREM ArdpTypeOK == Setting => (Spec => []TypeOK)
<1> SUFFICES ASSUME Setting PROVE Spec => []TypeOK
  OBVIOUS
<1>1. ArdpInv => TypeOK
  BY TypesOK
<1> QED
  BY <1>1, ArdpInvariant, PTL

\* The numbers of the two ends fit together: what one side believes acknowledged or consumed is
\* never ahead of what the other side has, whatever was lost on the way.
THEOREM ArdpAgreement == Setting => (Spec => []Agreement)
<1> SUFFICES ASSUME Setting PROVE Spec => []Agreement
  OBVIOUS
<1>1. ArdpInv => Agreement
  BY AgreementOK
<1> QED
  BY <1>1, ArdpInvariant, PTL

\* AddRcvBuffer never overwrites the buffers of a message that RecvCb handed to the upper
\* layer, until ARDP_RecvReady gives them back.
THEOREM ArdpHeldIntact == Setting => (Spec => []HeldIntact)
<1> SUFFICES ASSUME Setting PROVE Spec => []HeldIntact
  OBVIOUS
<1>1. ArdpInv => HeldIntact
  BY HeldOK
<1> QED
  BY <1>1, ArdpInvariant, PTL

\* The EACK mask, of any number of words, says exactly which segments beyond the first gap are
\* buffered (AddRcvMsk, ShiftRcvMsk).  The header does if its copy of the mask, in network order,
\* was refreshed; ShiftRcvMsk may fail to refresh it only if there are three words or more.
THEOREM ArdpEackExact ==
  Setting => (Spec => [](/\ MasksExact
                         /\ CopiesFresh => EackExact
                         /\ Words <= 2 => CopiesFresh))
<1> SUFFICES ASSUME Setting
             PROVE  Spec => [](/\ MasksExact
                               /\ CopiesFresh => EackExact
                               /\ Words <= 2 => CopiesFresh)
  OBVIOUS
<1>1. ArdpInv => MasksExact /\ (CopiesFresh => EackExact) /\ (Words <= 2 => CopiesFresh)
  BY EackOK
<1> QED
  BY <1>1, ArdpInvariant, PTL

\* The assertions of ArdpProtocol.cc hold, but for two that an acknowledgement with an older
\* LCS, arriving late, can reach (ArdpProtocol.cc:1898 takes its LCS as it is).
THEOREM ArdpOnlyLateAcks == Setting => (Spec => []OnlyLateAcks)
<1> SUFFICES ASSUME Setting PROVE Spec => []OnlyLateAcks
  OBVIOUS
<1>1. ArdpInv => OnlyLateAcks
  BY BrokenOK
<1> QED
  BY <1>1, ArdpInvariant, PTL

-----------------------------------------------------------------------------
(* A message stream, in the terms of the invariant.                        *)

\* The messages that rcvd consists of.
MessagesOf(n, rcvd) == [k \in DOMAIN rcvd |-> MessageOf(n, rcvd[k])]
UpTo(r) == [k \in 1 .. r |-> k]

\* A receiver was given the first messages, one by one.
LEMMA MessagesAre ==
  ASSUME Fits, NEW n \in Node, NEW b, NEW sub \in 0 .. Count(n), b.rcvd \in Seq(Seq(Nat \X Nat)),
         RcvApp(n, b, sub)
  PROVE  MessagesOf(n, b.rcvd) = UpTo(Len(b.rcvd)) /\ Len(b.rcvd) \in 0 .. sub
<1>1. PICK s \in Seq(Seq(Nat \X Nat)) : s = b.rcvd
  OBVIOUS
<1>2. PICK r \in Nat : r = Len(s) /\ DOMAIN s = 1 .. r
  BY LenProperties
<1>3. r <= sub /\ s = [k \in 1 .. r |-> FragsOf(n, k)]
  BY <1>1, <1>2 DEF RcvApp
<1>4. PICK N \in Nat : N = Count(n)
  BY FirstIs
<1>5. ASSUME NEW k \in 1 .. r PROVE MessageOf(n, s[k]) = k
  <2>1. k \in 1 .. Count(n)
    <3>1. k \in 1 .. N
      <4>1. sub \in 0 .. N
        BY <1>4
      <4>2. r <= sub
        BY <1>3
      <4> QED
        BY <4>1, <4>2
    <3> QED
      BY <3>1, <1>4
  <2>2. PICK g \in 1 .. SegMax : g = Msgs[n][k].fcnt
    BY <2>1, Message
  <2>3. s[k] = [j \in 1 .. g |-> <<k, j - 1>>]
    BY <1>3, <2>2 DEF FragsOf
  <2>4. s[k][1][1] = k
    <3>1. 1 \in 1 .. g
      BY <2>2
    <3>2. s[k][1] = <<k, 1 - 1>>
      BY <3>1, <2>3
    <3> QED
      BY <3>2
  <2>5. s[k] = [j \in 1 .. Msgs[n][k].fcnt |-> <<k, j - 1>>]
    BY <2>2, <2>3
  <2> QED
    BY <2>4, <2>5, Zenon DEF MessageOf
<1>6. MessagesOf(n, s) = UpTo(r)
  BY <1>2, <1>5 DEF MessagesOf, UpTo
<1>7. r \in 0 .. sub
  BY <1>3
<1> QED
  BY <1>1, <1>2, <1>6, <1>7

\* MessageStream's Deliver, from D to D1 when S messages are submitted.
StreamDelivers(n, D, D1, S) ==
  /\ D1 # D
  /\ \E k \in 1 .. Len(Msgs[n]) : \E ms \in [1 .. k -> DOMAIN Msgs[n]] : D1 = D \o ms
  /\ \A k \in DOMAIN D1 :
        LET previous == IF k = 1 THEN 0 ELSE D1[k - 1]
        IN  /\ D1[k] \in previous + 1 .. S
            /\ \A m \in previous + 1 .. D1[k] - 1 : ~(Msgs[n][m].ttl = "inf")

\* More messages were given.
LEMMA LongerDelivers ==
  ASSUME Fits, NEW n \in Node, NEW S \in 0 .. Count(n), NEW r \in Nat, NEW t \in Nat, r < t, t <= S
  PROVE  StreamDelivers(n, UpTo(r), UpTo(t), S)
<1>1. PICK N \in Nat : N = Count(n) /\ DOMAIN Msgs[n] = 1 .. N /\ N = Len(Msgs[n])
  BY FirstIs DEF Count
<1>2. S \in 0 .. N
  BY <1>1
<1>3. PICK d \in Nat : d = t - r /\ d \in 0 .. N
  BY <1>2
<1>4. PICK ms : ms = [j \in 1 .. d |-> r + j]
  OBVIOUS
<1>5. ms \in [1 .. d -> 1 .. N]
  BY <1>2, <1>3, <1>4
<1>6. d \in 1 .. Len(Msgs[n]) /\ ms \in [1 .. d -> DOMAIN Msgs[n]]
  BY <1>1, <1>3, <1>5
<1>7. UpTo(t) = UpTo(r) \o ms
  <2>1. UpTo(r) \in Seq(Nat) /\ Len(UpTo(r)) = r
    <3>1. UpTo(r) \in [1 .. r -> Nat]
      BY DEF UpTo
    <3> QED
      BY <3>1 DEF UpTo
  <2>2. ms \in Seq(Nat) /\ Len(ms) = d
    <3>1. ms \in [1 .. d -> Nat]
      BY <1>5
    <3> QED
      BY <3>1, <1>4
  <2>3. UpTo(r) \o ms = [k \in 1 .. r + d |-> IF k <= r THEN UpTo(r)[k] ELSE ms[k - r]]
    <3>1. PICK u \in Seq(Nat) : u = UpTo(r) /\ Len(u) = r
      BY <2>1
    <3>2. PICK y \in Seq(Nat) : y = ms /\ Len(y) = d
      BY <2>2
    <3>3. /\ u \o y \in Seq(Nat) /\ Len(u \o y) = Len(u) + Len(y)
          /\ \A k \in 1 .. Len(u) + Len(y) : (u \o y)[k] = IF k <= Len(u) THEN u[k] ELSE y[k - Len(u)]
      BY ConcatProperties
    <3>4. PICK v \in Seq(Nat) : v = u \o y /\ Len(v) = r + d
      BY <3>1, <3>2, <3>3
    <3>5. \A k \in 1 .. r + d : v[k] = IF k <= r THEN u[k] ELSE y[k - r]
      BY <3>1, <3>2, <3>3, <3>4
    <3>6. v = [k \in 1 .. Len(v) |-> v[k]]
      BY LenProperties
    <3>7. v = [k \in 1 .. r + d |-> IF k <= r THEN u[k] ELSE y[k - r]]
      BY <3>4, <3>5, <3>6
    <3> QED
      BY <3>1, <3>2, <3>4, <3>7, Zenon
  <2>4. \A k \in 1 .. r + d : (IF k <= r THEN UpTo(r)[k] ELSE ms[k - r]) = k
    BY <1>3, <1>4 DEF UpTo
  <2>5. r + d = t
    BY <1>3
  <2> QED
    BY <2>3, <2>4, <2>5 DEF UpTo
<1>8. UpTo(t) # UpTo(r)
  <2>1. t \in DOMAIN UpTo(t) /\ t \notin DOMAIN UpTo(r)
    BY DEF UpTo
  <2> QED
    BY <2>1
<1>9. ASSUME NEW k \in DOMAIN UpTo(t)
      PROVE  LET previous == IF k = 1 THEN 0 ELSE UpTo(t)[k - 1]
             IN  /\ UpTo(t)[k] \in previous + 1 .. S
                 /\ \A m \in previous + 1 .. UpTo(t)[k] - 1 : ~(Msgs[n][m].ttl = "inf")
  <2>1. k \in 1 .. t
    BY DEF UpTo
  <2>2. PICK previous \in Nat : previous = (IF k = 1 THEN 0 ELSE UpTo(t)[k - 1]) /\ previous = k - 1
    <3>1. (IF k = 1 THEN 0 ELSE UpTo(t)[k - 1]) = k - 1
      BY <2>1 DEF UpTo
    <3>2. k - 1 \in Nat
      BY <2>1
    <3> QED
      BY <3>1, <3>2
  <2>3. UpTo(t)[k] = k
    BY <2>1 DEF UpTo
  <2>4. k \in previous + 1 .. S /\ \A m : ~(m \in previous + 1 .. k - 1)
    BY <2>1, <2>2, <1>2
  <2> QED
    BY <2>2, <2>3, <2>4
<1> QED
  BY <1>6, <1>7, <1>8, <1>9 DEF StreamDelivers

\* MessageStream's Report, from R to Q when S messages are submitted, C of the delivered ones, D, consumed.
UnreportedOf(n, R) == {m \in DOMAIN Msgs[n] : R[m] = <<>>}
SettlesFrom(n, D, C, R, Q, first, last, status) ==
  /\ \A m \in UnreportedOf(n, R) : first <= m
  /\ \A m \in first .. last :
        /\ status[m] = "ok" /\ Msgs[n][m].ttl = "inf" => \E k \in 1 .. C : D[k] = m
        /\ status[m] = "expired" => ~(Msgs[n][m].ttl = "inf")
  /\ Q = [m \in DOMAIN Msgs[n] |-> IF m \in first .. last THEN <<status[m]>> ELSE R[m]]
StreamReports(n, S, D, C, R, Q) ==
  /\ Q # R
  /\ \E first \in UnreportedOf(n, R), last \in 1 .. S,
        status \in [DOMAIN Msgs[n] -> {"ok", "expired", "disconnecting"}] :
        SettlesFrom(n, D, C, R, Q, first, last, status)

\* The messages of a sender are settled up to one.
SettledTo(n, a, f) == f \in 1 .. a.submitted + 1 /\ CbAt(n, a, f)

\* More messages are settled.
LEMMA SettledReports ==
  ASSUME Fits, NEW n \in Node, NEW a, NEW e, NEW S \in 0 .. Count(n), S = a.submitted, e.submitted = S,
         a.sendCb = [m \in DOMAIN Msgs[n] |-> a.sendCb[m]], e.sendCb = [m \in DOMAIN Msgs[n] |-> e.sendCb[m]],
         NEW f, SettledTo(n, a, f), NEW g, SettledTo(n, e, g),
         NEW q \in Nat, NEW r \in Nat, q <= r, CbMoves(n, a, e, q), e.sendCb # a.sendCb
  PROVE  StreamReports(n, S, UpTo(r), q, a.sendCb, e.sendCb)
<1>1. PICK N \in Nat : N = Count(n) /\ DOMAIN Msgs[n] = 1 .. N /\ N = Len(Msgs[n])
  BY FirstIs DEF Count
<1>2. PICK R : R = a.sendCb /\ R = [m \in 1 .. N |-> R[m]]
  BY <1>1
<1>3. PICK Q : Q = e.sendCb /\ Q = [m \in 1 .. N |-> Q[m]]
  BY <1>1
<1>4. S \in 0 .. N
  BY <1>1
<1>5. f \in 1 .. S + 1 /\ \A m \in 1 .. N : IF m < f THEN R[m] \in Reported ELSE R[m] = <<>>
  BY <1>1, <1>2 DEF SettledTo, CbAt
<1>6. g \in 1 .. S + 1 /\ \A m \in 1 .. N : IF m < g THEN Q[m] \in Reported ELSE Q[m] = <<>>
  BY <1>1, <1>3 DEF SettledTo, CbAt
<1>7. \A m \in 1 .. N : Q[m] = R[m] \/ (R[m] = <<>> /\ (Q[m] = <<"disconnecting">> \/ (Q[m] = <<"ok">> /\ m <= q)))
  BY <1>1, <1>2, <1>3 DEF CbMoves
<1>8. PICK w \in 1 .. N : Q[w] # R[w]
  BY <1>2, <1>3
<1>9. \A x : x \in Reported => x # <<>>
  BY ReportedIs
<1>10. f <= w /\ w < g
  BY <1>5, <1>6, <1>7, <1>8, <1>9
<1>11. f \in 1 .. N /\ g - 1 \in 1 .. S /\ f <= g - 1
  BY <1>4, <1>5, <1>6, <1>10
<1>12. f \in UnreportedOf(n, R) /\ \A m \in UnreportedOf(n, R) : f <= m
  <2>1. R[f] = <<>>
    BY <1>5, <1>11
  <2>2. ASSUME NEW m \in 1 .. N, R[m] = <<>> PROVE f <= m
    BY <1>5, <1>9, <2>2
  <2> QED
    BY <2>1, <2>2, <1>1, <1>11 DEF UnreportedOf
<1>13. \A m \in f .. g - 1 : m \in 1 .. N /\ (Q[m] = <<"disconnecting">> \/ (Q[m] = <<"ok">> /\ m <= q))
  <2> SUFFICES ASSUME NEW m \in f .. g - 1
               PROVE  m \in 1 .. N /\ (Q[m] = <<"disconnecting">> \/ (Q[m] = <<"ok">> /\ m <= q))
    OBVIOUS
  <2>1. m \in 1 .. N /\ ~(m < f) /\ m < g
    BY <1>4, <1>5, <1>6, <1>11
  <2>2. R[m] = <<>> /\ Q[m] \in Reported
    BY <2>1, <1>5, <1>6
  <2> QED
    BY <2>1, <2>2, <1>7, <1>9
<1>14. PICK status : status = [m \in 1 .. N |-> IF m \in f .. g - 1 THEN Q[m][1] ELSE "ok"]
  OBVIOUS
<1>15. \A m \in f .. g - 1 : (status[m] = "disconnecting" \/ (status[m] = "ok" /\ m <= q)) /\ Q[m] = <<status[m]>>
  BY <1>13, <1>14
<1>16. status \in [1 .. N -> {"ok", "expired", "disconnecting"}]
  BY <1>14, <1>15
<1>17. ASSUME NEW m \in f .. g - 1
       PROVE  /\ status[m] = "ok" /\ Msgs[n][m].ttl = "inf" => \E k \in 1 .. q : UpTo(r)[k] = m
              /\ status[m] = "expired" => ~(Msgs[n][m].ttl = "inf")
  <2>1. CASE status[m] = "ok"
    <3>1. m \in 1 .. q
      BY <2>1, <1>13, <1>15
    <3>2. UpTo(r)[m] = m
      BY <3>1 DEF UpTo
    <3> QED
      BY <2>1, <3>1, <3>2
  <2>2. CASE status[m] = "disconnecting"
    BY <2>2
  <2> QED
    BY <2>1, <2>2, <1>15
<1>18. Q = [m \in 1 .. N |-> IF m \in f .. g - 1 THEN <<status[m]>> ELSE R[m]]
  <2> SUFFICES ASSUME NEW m \in 1 .. N PROVE Q[m] = IF m \in f .. g - 1 THEN <<status[m]>> ELSE R[m]
    BY <1>3
  <2>1. CASE m \in f .. g - 1
    BY <2>1, <1>15
  <2>2. CASE ~(m \in f .. g - 1)
    <3>1. m < f \/ ~(m < g)
      BY <2>2, <1>5, <1>6
    <3>2. CASE m < f
      <4>1. R[m] # <<>>
        BY <3>2, <1>5, <1>9
      <4> QED
        BY <4>1, <1>7, <2>2
    <3>3. CASE ~(m < g)
      <4>1. Q[m] = <<>>
        BY <3>3, <1>6
      <4> QED
        BY <4>1, <1>7, <2>2
    <3> QED
      BY <3>1, <3>2, <3>3
  <2> QED
    BY <2>1, <2>2
<1>19. Q # R
  BY <1>2, <1>3
<1>20. StreamReports(n, S, UpTo(r), q, R, Q)
  <2>1. PICK last \in 1 .. S : last = g - 1
    BY <1>11
  <2>2. status \in [DOMAIN Msgs[n] -> {"ok", "expired", "disconnecting"}]
    BY <1>1, <1>16
  <2>3. Q = [m \in DOMAIN Msgs[n] |-> IF m \in f .. last THEN <<status[m]>> ELSE R[m]]
    BY <1>1, <1>18, <2>1
  <2>4. \A m \in f .. last :
           /\ status[m] = "ok" /\ Msgs[n][m].ttl = "inf" => \E k \in 1 .. q : UpTo(r)[k] = m
           /\ status[m] = "expired" => ~(Msgs[n][m].ttl = "inf")
    BY <1>17, <2>1, Zenon
  <2>5. SettlesFrom(n, UpTo(r), q, R, Q, f, last, status)
    BY <2>3, <2>4, <1>12, Zenon DEF SettlesFrom
  <2> QED
    BY <2>2, <2>5, <1>12, <1>19, Zenon DEF StreamReports
<1> QED
  BY <1>2, <1>3, <1>20

-----------------------------------------------------------------------------
(* The message streams.                                                    *)

SameSender(a, e) == e.submitted = a.submitted /\ e.sendCb = a.sendCb
SameReceiver(n, b, c) == c.consumed = b.consumed /\ MessagesOf(n, c.rcvd) = MessagesOf(n, b.rcvd)

\* MessageStream's Next, or a stutter, for the messages of n: its upper layer goes from a to e, that of its
\* peer from b to c.
StreamNext(n, a, e, b, c) ==
  \/ SameSender(a, e) /\ SameReceiver(n, b, c)
  \/ /\ a.submitted < Len(Msgs[n]) /\ e.submitted = a.submitted + 1 /\ e.sendCb = a.sendCb
     /\ SameReceiver(n, b, c)
  \/ /\ StreamDelivers(n, MessagesOf(n, b.rcvd), MessagesOf(n, c.rcvd), a.submitted)
     /\ SameSender(a, e) /\ c.consumed = b.consumed
  \/ /\ b.consumed < Len(MessagesOf(n, b.rcvd)) /\ c.consumed = b.consumed + 1
     /\ SameSender(a, e) /\ MessagesOf(n, c.rcvd) = MessagesOf(n, b.rcvd)
  \/ /\ StreamReports(n, a.submitted, MessagesOf(n, b.rcvd), b.consumed, a.sendCb, e.sendCb)
     /\ e.submitted = a.submitted /\ SameReceiver(n, b, c)

\* The upper layers at the ends of a stream.
StreamEnds(n, a, b) ==
  /\ a.submitted \in 0 .. Count(n) /\ a.sendCb = [m \in DOMAIN Msgs[n] |-> a.sendCb[m]]
  /\ \E f : SettledTo(n, a, f)
  /\ MessagesOf(n, b.rcvd) = UpTo(Len(b.rcvd)) /\ Len(b.rcvd) \in 0 .. a.submitted
  /\ b.consumed \in 0 .. Len(b.rcvd)

\* The two ends are like this when the invariant holds.
LEMMA EndsAre ==
  ASSUME Fits, NEW n \in Node, NEW a, NEW b, AppT(n, a), AppT(Peer(n), b), AppOK(n, a, b), AppOK(Peer(n), b, a)
  PROVE  StreamEnds(n, a, b)
<1>1. PICK N \in Nat : N = Count(n) /\ N = Len(Msgs[n])
  BY FirstIs DEF Count
<1>2. a.submitted \in 0 .. Count(n) /\ a.sendCb = [m \in DOMAIN Msgs[n] |-> a.sendCb[m]]
  BY DEF AppT, Count
<1>3. \E f : SettledTo(n, a, f)
  BY DEF AppOK, SettledTo
<1>4. RcvApp(n, b, a.submitted)
  BY DEF AppOK, Peer, Node
<1>5. b.rcvd \in Seq(Seq(Nat \X Nat)) /\ b.consumed \in Nat
  BY DEF AppT
<1>6. MessagesOf(n, b.rcvd) = UpTo(Len(b.rcvd)) /\ Len(b.rcvd) \in 0 .. a.submitted
  BY <1>2, <1>4, <1>5, MessagesAre
<1>7. b.consumed \in 0 .. Len(b.rcvd)
  <2>1. b.consumed <= Len(b.rcvd)
    BY <1>4 DEF RcvApp
  <2>2. PICK r \in Nat : r = Len(b.rcvd)
    BY <1>5, LenProperties
  <2> QED
    BY <2>1, <2>2, <1>5
<1> QED
  BY <1>2, <1>3, <1>6, <1>7 DEF StreamEnds

\* A step of the sender's node.
LEMMA SenderNext ==
  ASSUME Fits, NEW n \in Node, NEW a, NEW e, NEW b, StreamEnds(n, a, b), StreamEnds(n, e, b),
         NEW same, AppStep(n, a, e, b.consumed, same)
  PROVE  StreamNext(n, a, e, b, b)
<1>1. SameReceiver(n, b, b)
  BY DEF SameReceiver
<1>2. CASE Proceeds(n, a, e, b.consumed)
  <2>1. e.submitted = a.submitted /\ CbMoves(n, a, e, b.consumed)
    BY <1>2 DEF Proceeds
  <2>2. CASE e.sendCb = a.sendCb
    BY <2>1, <2>2, <1>1 DEF StreamNext, SameSender
  <2>3. CASE e.sendCb # a.sendCb
    <3>1. PICK S \in 0 .. Count(n) : S = a.submitted
      BY DEF StreamEnds
    <3>2. PICK N \in Nat : N = Count(n)
      BY FirstIs
    <3>3. Len(b.rcvd) \in Nat
      <4>1. S \in Nat
        BY <3>2
      <4> QED
        BY <3>1, <4>1 DEF StreamEnds
    <3>4. PICK r \in Nat : r = Len(b.rcvd)
      BY <3>3
    <3>5. PICK q \in 0 .. r : q = b.consumed
      BY <3>4 DEF StreamEnds
    <3>6. q \in Nat /\ q <= r
      OBVIOUS
    <3>7. PICK f : SettledTo(n, a, f)
      BY DEF StreamEnds
    <3>8. PICK g : SettledTo(n, e, g)
      BY DEF StreamEnds
    <3>9. a.sendCb = [m \in DOMAIN Msgs[n] |-> a.sendCb[m]] /\ e.sendCb = [m \in DOMAIN Msgs[n] |-> e.sendCb[m]]
      BY DEF StreamEnds
    <3>10. StreamReports(n, S, UpTo(r), q, a.sendCb, e.sendCb)
      BY <2>1, <2>3, <3>1, <3>5, <3>6, <3>7, <3>8, <3>9, SettledReports
    <3>11. MessagesOf(n, b.rcvd) = UpTo(r)
      BY <3>4 DEF StreamEnds
    <3> QED
      BY <2>1, <3>1, <3>5, <3>10, <3>11, <1>1, Zenon DEF StreamNext
  <2> QED
    BY <2>2, <2>3
<1>3. CASE Submits(n, a, e)
  BY <1>1, <1>3 DEF StreamNext, Submits, Counts, Count
<1>4. CASE Consumes(a, e) \/ Begins(a, e)
  BY <1>1, <1>4 DEF StreamNext, SameSender, Consumes, Begins, Counts
<1> QED
  BY <1>2, <1>3, <1>4, Zenon DEF AppStep

\* A step of the receiver's node.
LEMMA ReceiverNext ==
  ASSUME Fits, NEW n \in Node, NEW a, NEW b, NEW c, StreamEnds(n, a, b), StreamEnds(n, a, c),
         NEW p, NEW q, NEW same, AppStep(p, b, c, q, same)
  PROVE  StreamNext(n, a, a, b, c)
<1>1. SameSender(a, a)
  BY DEF SameSender
<1>2. PICK N \in Nat : N = Count(n)
  BY FirstIs
<1>3. PICK S \in 0 .. Count(n) : S = a.submitted
  BY DEF StreamEnds
<1>4. PICK r \in Nat, t \in Nat : r = Len(b.rcvd) /\ t = Len(c.rcvd) /\ t <= S
  <2>1. S \in Nat
    BY <1>2
  <2>2. Len(b.rcvd) \in 0 .. S /\ Len(c.rcvd) \in 0 .. S
    BY <1>3 DEF StreamEnds
  <2> QED
    BY <2>1, <2>2
<1>5. MessagesOf(n, b.rcvd) = UpTo(r) /\ MessagesOf(n, c.rcvd) = UpTo(t)
  BY <1>4 DEF StreamEnds
<1>6. CASE Proceeds(p, b, c, q)
  <2>1. c.consumed = b.consumed /\ r <= t
    BY <1>4, <1>6 DEF Proceeds
  <2>2. CASE r = t
    BY <2>1, <2>2, <1>1, <1>5 DEF StreamNext, SameReceiver
  <2>3. CASE r # t
    <3>1. StreamDelivers(n, UpTo(r), UpTo(t), S)
      BY <2>1, <2>3, <1>4, LongerDelivers
    <3> QED
      BY <2>1, <3>1, <1>1, <1>3, <1>5, Zenon DEF StreamNext
  <2> QED
    BY <2>2, <2>3
<1>7. CASE Submits(p, b, c) \/ Begins(b, c)
  BY <1>1, <1>7 DEF StreamNext, SameReceiver, Submits, Begins, Counts
<1>8. CASE Consumes(b, c)
  <2>1. c.consumed = b.consumed + 1 /\ b.consumed < r /\ c.rcvd = b.rcvd
    BY <1>4, <1>8 DEF Consumes, Counts
  <2>2. Len(UpTo(r)) = r
    BY DEF UpTo
  <2>3. b.consumed < Len(MessagesOf(n, b.rcvd))
    BY <2>1, <2>2, <1>5
  <2> QED
    BY <2>1, <2>3, <1>1, Zenon DEF StreamNext
<1> QED
  BY <1>6, <1>7, <1>8, Zenon DEF AppStep

\* A step is one of the stream of each node.
LEMMA StreamStep ==
  ASSUME Setting, ArdpInv, Next, NEW n \in Node, NEW p \in Node, p = Peer(n)
  PROVE  StreamNext(n, app[n], app'[n], app[p], app'[p])
<1>0. Fits /\ n = Peer(p) /\ n # p
  BY DEF Setting, Node, Peer
<1>1. PICK k \in Node : Advances(k)
  BY NextAdvances
<1>2. ArdpInv' /\ ActsOf(k)
  BY <1>1 DEF Advances
<1>3. StreamEnds(n, app[n], app[p])
  <2>1. AppT(n, app[n]) /\ AppT(p, app[p]) /\ AppOK(n, app[n], app[p]) /\ AppOK(p, app[p], app[n])
    BY <1>0 DEF ArdpInv, Types, Nodes, NodeOK
  <2> QED
    BY <2>1, <1>0, EndsAre
<1>4. StreamEnds(n, app'[n], app'[p])
  <2>1. AppT(n, app'[n]) /\ AppT(p, app'[p]) /\ AppOK(n, app'[n], app'[p]) /\ AppOK(p, app'[p], app'[n])
    BY <1>0, <1>2 DEF ArdpInv, Types, Nodes, NodeOK
  <2> QED
    BY <2>1, <1>0, EndsAre
<1>5. CASE k = n
  <2>1. app'[p] = app[p] /\ AppStep(n, app[n], app'[n], app[p].consumed, records'[n] = records[n])
    BY <1>2, <1>5 DEF ActsOf
  <2>2. StreamEnds(n, app'[n], app[p])
    BY <2>1, <1>4
  <2>3. StreamNext(n, app[n], app'[n], app[p], app[p])
    BY <2>1, <2>2, <1>0, <1>3, SenderNext
  <2> QED
    BY <2>1, <2>3
<1>6. CASE k = p
  <2>1. app'[n] = app[n] /\ AppStep(p, app[p], app'[p], app[n].consumed, records'[p] = records[p])
    BY <1>0, <1>2, <1>6 DEF ActsOf
  <2>2. StreamEnds(n, app[n], app'[p])
    BY <2>1, <1>4
  <2>3. StreamNext(n, app[n], app[n], app[p], app'[p])
    BY <2>1, <2>2, <1>0, <1>3, ReceiverNext
  <2> QED
    BY <2>1, <2>3
<1> QED
  BY <1>0, <1>5, <1>6 DEF Node, Peer

-----------------------------------------------------------------------------
(* The stream of node A.                                                   *)

\* The states of the stream of A.
LEMMA GivenFromA == Delivered("A") = MessagesOf("A", app["B"].rcvd)
  BY Zenon DEF Delivered, MessagesOf, Peer

\* Nothing is submitted, delivered, consumed or reported at first.
LEMMA InitFromA ==
  ASSUME Init
  PROVE  FromA!Init
<1>1. "A" \in Node /\ "B" \in Node
  BY DEF Node
<1>2. app = [n \in Node |->
               [submitted |-> 0, sendCb |-> [m \in DOMAIN Msgs[n] |-> <<>>],
                rcvd |-> <<>>, held |-> <<>>, consumed |-> 0,
                connectCb |-> <<>>, disconnectCb |-> <<>>]]
  BY DEF Init
<1>3. app["A"].submitted = 0 /\ app["B"].consumed = 0
      /\ app["A"].sendCb = [m \in DOMAIN Msgs["A"] |-> <<>>]
  BY <1>1, <1>2
<1>4. MessagesOf("A", app["B"].rcvd) = <<>>
  <2>1. app["B"].rcvd = <<>>
    BY <1>1, <1>2
  <2> QED
    BY <2>1 DEF MessagesOf
<1> QED
  BY <1>3, <1>4, GivenFromA DEF FromA!Init

\* A step is one of the stream of A.
LEMMA NextFromA ==
  ASSUME Setting, ArdpInv, Next
  PROVE  [FromA!Next]_(FromA!vars)
<1>1. StreamNext("A", app["A"], app'["A"], app["B"], app'["B"])
  BY StreamStep DEF Node, Peer
<1>2. Delivered("A") = MessagesOf("A", app["B"].rcvd)
  BY GivenFromA
<1>3. Delivered("A")' = MessagesOf("A", app'["B"].rcvd)
  BY Zenon DEF Delivered, MessagesOf, Peer
<1>4. CASE SameSender(app["A"], app'["A"]) /\ SameReceiver("A", app["B"], app'["B"])
  BY <1>2, <1>3, <1>4, Zenon DEF SameSender, SameReceiver, FromA!vars
<1>5. CASE /\ app["A"].submitted < Len(Msgs["A"]) /\ app'["A"].submitted = app["A"].submitted + 1
           /\ app'["A"].sendCb = app["A"].sendCb
           /\ SameReceiver("A", app["B"], app'["B"])
  <2>1. FromA!Submit
    BY <1>2, <1>3, <1>5, Zenon DEF SameReceiver, FromA!Submit
  <2> QED
    BY <2>1 DEF FromA!Next
<1>6. CASE /\ StreamDelivers("A", MessagesOf("A", app["B"].rcvd), MessagesOf("A", app'["B"].rcvd),
                            app["A"].submitted)
           /\ SameSender(app["A"], app'["A"]) /\ app'["B"].consumed = app["B"].consumed
  <2>1. StreamDelivers("A", Delivered("A"), Delivered("A")', app["A"].submitted)
    BY <1>2, <1>3, <1>6, Zenon
  <2>2. FromA!Deliver
    BY <2>1, <1>6, Zenon DEF SameSender, StreamDelivers, FromA!Deliver, FromA!InOrder,
                             FromA!Reliable
  <2> QED
    BY <2>2 DEF FromA!Next
<1>7. CASE /\ app["B"].consumed < Len(MessagesOf("A", app["B"].rcvd))
           /\ app'["B"].consumed = app["B"].consumed + 1
           /\ SameSender(app["A"], app'["A"])
           /\ MessagesOf("A", app'["B"].rcvd) = MessagesOf("A", app["B"].rcvd)
  <2>1. FromA!Consume
    BY <1>2, <1>3, <1>7, Zenon DEF SameSender, FromA!Consume
  <2> QED
    BY <2>1 DEF FromA!Next
<1>8. CASE /\ StreamReports("A", app["A"].submitted, MessagesOf("A", app["B"].rcvd),
                           app["B"].consumed, app["A"].sendCb, app'["A"].sendCb)
           /\ app'["A"].submitted = app["A"].submitted
           /\ SameReceiver("A", app["B"], app'["B"])
  <2>1. UNCHANGED <<app["A"].submitted, Delivered("A"), app["B"].consumed>>
    BY <1>2, <1>3, <1>8, Zenon DEF SameReceiver
  <2>2. StreamReports("A", app["A"].submitted, Delivered("A"), app["B"].consumed,
                      app["A"].sendCb, app'["A"].sendCb)
    BY <1>2, <1>8, Zenon
  <2>3. FromA!Report
    BY <2>1, <2>2, Zenon DEF StreamReports, SettlesFrom, UnreportedOf, FromA!Report, FromA!MayReport,
                             FromA!Consumed, FromA!Reliable, FromA!Unreported, FromA!Status
  <2> QED
    BY <2>3 DEF FromA!Next
<1> QED
  BY <1>1, <1>4, <1>5, <1>6, <1>7, <1>8, Zenon DEF StreamNext

\* A stutter is one of the stream of A.
LEMMA StutterFromA ==
  ASSUME UNCHANGED vars
  PROVE  UNCHANGED FromA!vars
<1>1. app' = app
  BY DEF vars
<1>2. Delivered("A")' = Delivered("A")
  BY <1>1 DEF Delivered, MessageOf
<1> QED
  BY <1>1, <1>2 DEF FromA!vars

-----------------------------------------------------------------------------
(* The stream of node B.                                                   *)

\* The states of the stream of B.
LEMMA GivenFromB == Delivered("B") = MessagesOf("B", app["A"].rcvd)
  BY Zenon DEF Delivered, MessagesOf, Peer

\* Nothing is submitted, delivered, consumed or reported at first.
LEMMA InitFromB ==
  ASSUME Init
  PROVE  FromB!Init
<1>1. "A" \in Node /\ "B" \in Node
  BY DEF Node
<1>2. app = [n \in Node |->
               [submitted |-> 0, sendCb |-> [m \in DOMAIN Msgs[n] |-> <<>>],
                rcvd |-> <<>>, held |-> <<>>, consumed |-> 0,
                connectCb |-> <<>>, disconnectCb |-> <<>>]]
  BY DEF Init
<1>3. app["B"].submitted = 0 /\ app["A"].consumed = 0
      /\ app["B"].sendCb = [m \in DOMAIN Msgs["B"] |-> <<>>]
  BY <1>1, <1>2
<1>4. MessagesOf("B", app["A"].rcvd) = <<>>
  <2>1. app["A"].rcvd = <<>>
    BY <1>1, <1>2
  <2> QED
    BY <2>1 DEF MessagesOf
<1> QED
  BY <1>3, <1>4, GivenFromB DEF FromB!Init

\* A step is one of the stream of B.
LEMMA NextFromB ==
  ASSUME Setting, ArdpInv, Next
  PROVE  [FromB!Next]_(FromB!vars)
<1>1. StreamNext("B", app["B"], app'["B"], app["A"], app'["A"])
  BY StreamStep DEF Node, Peer
<1>2. Delivered("B") = MessagesOf("B", app["A"].rcvd)
  BY GivenFromB
<1>3. Delivered("B")' = MessagesOf("B", app'["A"].rcvd)
  BY Zenon DEF Delivered, MessagesOf, Peer
<1>4. CASE SameSender(app["B"], app'["B"]) /\ SameReceiver("B", app["A"], app'["A"])
  BY <1>2, <1>3, <1>4, Zenon DEF SameSender, SameReceiver, FromB!vars
<1>5. CASE /\ app["B"].submitted < Len(Msgs["B"]) /\ app'["B"].submitted = app["B"].submitted + 1
           /\ app'["B"].sendCb = app["B"].sendCb
           /\ SameReceiver("B", app["A"], app'["A"])
  <2>1. FromB!Submit
    BY <1>2, <1>3, <1>5, Zenon DEF SameReceiver, FromB!Submit
  <2> QED
    BY <2>1 DEF FromB!Next
<1>6. CASE /\ StreamDelivers("B", MessagesOf("B", app["A"].rcvd), MessagesOf("B", app'["A"].rcvd),
                            app["B"].submitted)
           /\ SameSender(app["B"], app'["B"]) /\ app'["A"].consumed = app["A"].consumed
  <2>1. StreamDelivers("B", Delivered("B"), Delivered("B")', app["B"].submitted)
    BY <1>2, <1>3, <1>6, Zenon
  <2>2. FromB!Deliver
    BY <2>1, <1>6, Zenon DEF SameSender, StreamDelivers, FromB!Deliver, FromB!InOrder,
                             FromB!Reliable
  <2> QED
    BY <2>2 DEF FromB!Next
<1>7. CASE /\ app["A"].consumed < Len(MessagesOf("B", app["A"].rcvd))
           /\ app'["A"].consumed = app["A"].consumed + 1
           /\ SameSender(app["B"], app'["B"])
           /\ MessagesOf("B", app'["A"].rcvd) = MessagesOf("B", app["A"].rcvd)
  <2>1. FromB!Consume
    BY <1>2, <1>3, <1>7, Zenon DEF SameSender, FromB!Consume
  <2> QED
    BY <2>1 DEF FromB!Next
<1>8. CASE /\ StreamReports("B", app["B"].submitted, MessagesOf("B", app["A"].rcvd),
                           app["A"].consumed, app["B"].sendCb, app'["B"].sendCb)
           /\ app'["B"].submitted = app["B"].submitted
           /\ SameReceiver("B", app["A"], app'["A"])
  <2>1. UNCHANGED <<app["B"].submitted, Delivered("B"), app["A"].consumed>>
    BY <1>2, <1>3, <1>8, Zenon DEF SameReceiver
  <2>2. StreamReports("B", app["B"].submitted, Delivered("B"), app["A"].consumed,
                      app["B"].sendCb, app'["B"].sendCb)
    BY <1>2, <1>8, Zenon
  <2>3. FromB!Report
    BY <2>1, <2>2, Zenon DEF StreamReports, SettlesFrom, UnreportedOf, FromB!Report, FromB!MayReport,
                             FromB!Consumed, FromB!Reliable, FromB!Unreported, FromB!Status
  <2> QED
    BY <2>3 DEF FromB!Next
<1> QED
  BY <1>1, <1>4, <1>5, <1>6, <1>7, <1>8, Zenon DEF StreamNext

\* A stutter is one of the stream of B.
LEMMA StutterFromB ==
  ASSUME UNCHANGED vars
  PROVE  UNCHANGED FromB!vars
<1>1. app' = app
  BY DEF vars
<1>2. Delivered("B")' = Delivered("B")
  BY <1>1 DEF Delivered, MessageOf
<1> QED
  BY <1>1, <1>2 DEF FromB!vars

-----------------------------------------------------------------------------
\* The connection implements MessageStream in both directions: messages are delivered whole,
\* in order and once, and a SendCb that says ok means that the peer's upper layer has consumed it.
THEOREM ArdpStreamSpec == Setting => (Spec => StreamSpec)
<1> SUFFICES ASSUME Setting PROVE Spec => StreamSpec
  OBVIOUS
<1>1. Init => FromA!Init /\ FromB!Init
  BY InitFromA, InitFromB
<1>2. ArdpInv /\ [Next]_vars => [FromA!Next]_(FromA!vars)
  BY NextFromA, StutterFromA
<1>3. ArdpInv /\ [Next]_vars => [FromB!Next]_(FromB!vars)
  BY NextFromB, StutterFromB
<1>4. Spec => []ArdpInv
  BY ArdpInvariant
<1> QED
  BY <1>1, <1>2, <1>3, <1>4, PTL DEF Spec, StreamSpec, FromA!Spec, FromB!Spec
=============================================================================
