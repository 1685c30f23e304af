------------------------------- MODULE ArdpSnd -------------------------------
(* The send side of an ARDP connection: segments, the ring of send buffers, *)
(* acknowledgements, retransmission, expiry and Disconnect.                 *)
(*                                                                          *)
(* A handler of the code runs under one lock from beginning to end, so it   *)
(* is an operator from a step state to a step state                         *)
(*     s.c     the connection record                                        *)
(*     s.a     what the callbacks have told the upper layer                 *)
(*     s.jam   trafficJam of the handle: the socket refuses to write        *)
(*     s.out   the segments that reach the network in this step             *)
(*     s.o     what the socket does with a datagram in this step            *)
(*     s.ok    the status of the last call (TRUE is ER_OK)                  *)
(*     s.broken  assertions of the code that failed                         *)
(* and Ardp.tla makes actions of these.                                     *)
EXTENDS ArdpSeq, ArdpEack, SequencesExt

States == {"CLOSED", "CLOSE_WAIT", "LISTEN", "SYN_SENT", "SYN_RCVD", "OPEN"}

(* SendToSG: the datagram is sent (and may be lost on the way), the write   *)
(* would block, or the socket reports an error.                             *)
Outcome == {"sent", "lost", "block", "error"}

Idx(seq) == seq % SegMax
Ring == 0 .. SegMax - 1
(* The n buffers that start at index i, by their next pointers.             *)
Follow(i, n) == {(i + k) % SegMax : k \in 0 .. n - 1}

FreeSndBuf == [inUse |-> FALSE, seq |-> 0, som |-> 0, fcnt |-> 0,
               ttl |-> "inf", timer |-> FALSE, msg |-> 0]

Check(s, name, holds) ==
    IF holds THEN s ELSE [s EXCEPT !.broken = @ \cup {name}]

----------------------------------------------------------------------------
(* Segments.  Fields that no receiver reads are 0; the payload of a data    *)
(* segment is the message and the number of the fragment.                   *)
NoData == <<>>
WireMask(c) == IF c.eack.sz # 0 THEN c.eack.htnMask ELSE NoEack.mask

\* Mutant: what was received counts as consumed.
SegmentConsumingAll(c, flg, seq, ack) ==
    [src |-> c.local, dst |-> c.foreign, flg |-> flg, seq |-> seq, ack |-> ack,
     lcs |-> c.CUR, acknxt |-> c.UNA, eack |-> NoEack.mask,
     data |-> NoData, som |-> 0, fcnt |-> 0, ttl |-> "inf"]

Segment(c, flg, seq, ack) ==
    [src |-> c.local, dst |-> c.foreign, flg |-> flg, seq |-> seq, ack |-> ack,
     lcs |-> c.rLCS, acknxt |-> c.UNA, eack |-> NoEack.mask,
     data |-> NoData, som |-> 0, fcnt |-> 0, ttl |-> "inf"]

RstSegment(c) ==
    [Segment(c, {"RST"}, 0, 0) EXCEPT !.lcs = 0, !.acknxt = 0]

WithEack(c, seg) ==
    IF c.eack.sz = 0 THEN seg
    ELSE [seg EXCEPT !.flg = @ \cup {"EACK"}, !.eack = WireMask(c)]

Emit(s, seg) == [s EXCEPT !.out = IF s.o = "sent" THEN @ \cup {seg} ELSE @,
                          !.ok = s.o \in {"sent", "lost"}]

(* SendMsgHeader: the ACK timer is cancelled unless the write would block.  *)
SendMsgHeader(s, seg) ==
    LET e == Emit(s, seg)
    IN  IF s.o = "block" THEN [e EXCEPT !.jam = TRUE]
        ELSE [e EXCEPT !.c.ackTimer = FALSE]

Send(s, flg, seq, ack) ==
    SendMsgHeader(s, WithEack(s.c, Segment(s.c, flg, seq, ack)))

SendAck(s) == Send(s, {"ACK"}, s.c.NXT, s.c.CUR)
SendNul(s) == Send(s, {"ACK", "NUL"}, s.c.NXT, s.c.CUR)
SendRst(s) == SendMsgHeader(s, RstSegment(s.c))

(* SendMsgData: header and payload of one send buffer.                      *)
SendMsgData(s, i) ==
    LET b == s.c.sbuf[i]
        seg == [Segment(s.c, {"ACK"}, b.seq, s.c.CUR) EXCEPT
                    !.data = <<b.msg, Minus(b.seq, b.som)>>,
                    !.som = b.som, !.fcnt = b.fcnt, !.ttl = b.ttl]
        e == Emit(s, WithEack(s.c, seg))
    IN  CASE e.ok -> [e EXCEPT !.c.ackTimer = FALSE, !.jam = FALSE]
          [] s.o = "block" -> [e EXCEPT !.jam = TRUE]
          [] OTHER -> e

----------------------------------------------------------------------------
(* FlushMessage: free the buffers of the message that starts in buffer i    *)
(* and report it to the upper layer.                                        *)
FlushMessage(s, i, status) ==
    LET b == s.c.sbuf[i]
        frags == Follow(i, b.fcnt)
        pending == s.c.pending - b.fcnt
    IN  Check(Check([s EXCEPT
                !.c.sbuf = [j \in Ring |-> IF j \in frags THEN FreeSndBuf ELSE @[j]],
                !.c.pending = pending,
                !.a.sendCb[b.msg] = Append(@, status)],
            "no timer on flushed buffer",
            s.c.state = "OPEN" => \A j \in frags : ~s.c.sbuf[j].timer),
            "pending in range", pending \in 0 .. SegMax - 1)

(* FlushSendQueue: every message in the ring is reported as cut off.        *)
FlushSendQueue(s) ==
    LET starts == {i \in Ring : s.c.sbuf[i].inUse /\ s.c.sbuf[i].seq = s.c.sbuf[i].som}
        frags == UNION {Follow(i, s.c.sbuf[i].fcnt) : i \in starts}
        msgs == {s.c.sbuf[i].msg : i \in starts}
    IN  Check([s EXCEPT
                !.c.sbuf = [j \in Ring |-> IF j \in frags THEN FreeSndBuf ELSE @[j]],
                !.c.pending = @ - Cardinality(frags),
                !.a.sendCb = [m \in DOMAIN @ |->
                                IF m \in msgs THEN Append(@[m], "disconnecting") ELSE @[m]]],
            "pending in range", Cardinality(frags) <= s.c.pending)

\* Mutant: pending messages are left to their timers.
FlushesNothing(c, reason) == FALSE

FlushesNow(c, reason) == reason # "ok" /\ c.pending # 0

(* Disconnect: reason is "ok" (ARDP_Disconnect), "reset" (RST received),    *)
(* "invalid" (ER_ARDP_INVALID_RESPONSE), "timeout" or "error" (socket).     *)
(* Only for the first one the callbacks wait for the timer.                 *)
Disconnect(s, reason) ==
    IF s.c.state \in {"CLOSE_WAIT", "CLOSED"} THEN [s EXCEPT !.ok = TRUE]
    ELSE LET closed == [s EXCEPT !.c.state = "CLOSE_WAIT"]
             rst == IF reason # "reset" THEN SendRst(closed)
                    ELSE [closed EXCEPT !.ok = TRUE]
             flushed == IF FlushesNow(s.c, reason) THEN FlushSendQueue(rst) ELSE rst
         IN  [flushed EXCEPT
                !.a.disconnectCb = IF reason # "ok" THEN Append(@, reason) ELSE @,
                !.c.conTimer = "disconnect",
                !.c.reason = reason]

----------------------------------------------------------------------------
(* ARDP_Send accepts a message of fcnt fragments.                           *)
Accepts(c, fcnt) ==
    /\ c.state = "OPEN"
    /\ c.window # 0
    /\ Minus(c.NXT, c.UNA) < SegMax
    /\ fcnt <= c.window
    /\ fcnt <= SegMax - c.pending

(* One turn of the loop of SendData: fragment k of message m, for which the *)
(* socket answers os[k].                                                    *)
SendFragment(s, m, fcnt, ttl, som, k, os) ==
    LET i == (Idx(som) + k - 1) % SegMax
        c == s.c
        filled == [Check(s, "NXT - UNA < SEGMAX", Minus(c.NXT, c.UNA) < SegMax)
                     EXCEPT !.o = os[k],
                            !.c.sbuf[i] = [@ EXCEPT !.seq = c.NXT, !.som = som,
                                            !.fcnt = fcnt, !.ttl = ttl, !.msg = m]]
        sent == IF s.jam THEN filled ELSE SendMsgData(filled, i)
    IN  IF sent.ok \/ sent.jam
        THEN Check([sent EXCEPT !.ok = TRUE,
                        !.c.sbuf[i] = [@ EXCEPT !.inUse = TRUE, !.timer = TRUE],
                        !.c.persist = 0,
                        !.c.pending = @ + 1,
                        !.c.NXT = Plus(@, 1)],
                    "pending in range", c.pending + 1 <= SegMax)
        ELSE [Disconnect(sent, "error") EXCEPT !.ok = FALSE]

SendTurn(t, m, fcnt, ttl, som, k, os) ==
    IF t.ok THEN SendFragment(t, m, fcnt, ttl, som, k, os) ELSE t

SendData(s, m, fcnt, ttl, os) ==
    LET turn[k \in 0 .. fcnt] ==
            IF k = 0 THEN [s EXCEPT !.ok = TRUE]
            ELSE SendTurn(turn[k - 1], m, fcnt, ttl, s.c.NXT, k, os)
    IN  turn[fcnt]

----------------------------------------------------------------------------
(* CancelEackedSegments: bit d of a mask that came with ack stops the       *)
(* retransmission of the segment ack + 1 + d.                               *)
CancelEackedSegments(s, ack, mask) ==
    LET Start(w) == Idx(Plus(ack, 2 + w * WordBits))
        eacked == UNION {{(Start(w) + b) % SegMax : b \in mask[w]} : w \in DOMAIN mask}
    IN  [s EXCEPT !.c.sbuf = [i \in Ring |->
            IF i \in eacked THEN [@[i] EXCEPT !.timer = FALSE] ELSE @[i]]]

\* Mutant: the message is settled when it has arrived.
LastFragmentAcked(b, lcs) == b.seq = Plus(b.som, b.fcnt - 1)

LastFragmentConsumed(b, lcs) == SEQ32_LET(b.seq, lcs) /\ b.seq = Plus(b.som, b.fcnt - 1)

(* One turn of the loop of UpdateSndSegments.                               *)
UpdateBuffer(s, i, ack, lcs) ==
    LET b == s.c.sbuf[i]
        acked == [s EXCEPT !.c.sbuf[i].timer = FALSE]
    IN  IF ~b.inUse \/ SEQ32_LT(ack, b.seq) THEN [s EXCEPT !.ok = FALSE]
        ELSE IF LastFragmentConsumed(b, lcs)
        THEN FlushMessage(acked, Idx(b.som),
                          IF b.ttl # "expired" THEN "ok" ELSE "expired")
        ELSE acked

UpdateTurn(t, i, ack, lcs) == IF t.ok THEN UpdateBuffer(t, i, ack, lcs) ELSE t

(* The loop for the n buffers from index first on.                          *)
UpdateLoop(s, first, n, ack, lcs) ==
    LET turn[k \in 0 .. n] ==
            IF k = 0 THEN [s EXCEPT !.ok = TRUE]
            ELSE UpdateTurn(turn[k - 1], (first + k - 1) % SegMax, ack, lcs)
    IN  turn[n]

(* The number of buffers from index i on that hold expired segments.        *)
ExpiredRun(c, i) ==
    Max({n \in 0 .. SegMax : \A j \in Follow(i, n) :
            c.sbuf[j].inUse /\ c.sbuf[j].ttl = "expired"})

(* The end of UpdateSndSegments: expired segments from index next on count  *)
(* as acknowledged.                                                         *)
SkipExpired(acked, next, lcs) ==
    LET run == ExpiredRun(acked.c, next)
        last == (next + run - 1 + SegMax) % SegMax
    IN  IF ~acked.ok THEN acked
        ELSE [Check(acked, "the search for expired segments ends", run < SegMax)
                EXCEPT !.c.UNA = IF run > 0 THEN Plus(acked.c.sbuf[last].seq, 1) ELSE @,
                       !.c.ackTimer = @ \/ run > 0,
                       !.c.LCS = lcs]

(* UpdateSndSegments: the segments from snd.LCS + 1 to ack have arrived,    *)
(* those up to lcs have been consumed.                                      *)
UpdateSndSegments(s, ack, lcs) ==
    LET first == Idx(Plus(s.c.LCS, 1))
        n == Minus(ack, s.c.LCS)
    IN  IF s.c.pending = 0 THEN [s EXCEPT !.c.LCS = lcs, !.ok = TRUE]
        ELSE SkipExpired(UpdateLoop(s, first, n, ack, lcs), (first + n) % SegMax, lcs)

(* ExpireMessageSnd: the message of buffer i is given up; UNA steps over it *)
(* if it was the first one without acknowledgement.                         *)
ExpireMessageSnd(s, i) ==
    LET b == s.c.sbuf[i]
        frags == Follow(Idx(b.som), b.fcnt)
        atUNA == SEQ32_LET(b.som, s.c.UNA) /\ SEQ32_LT(s.c.UNA, Plus(b.som, b.fcnt))
    IN  [s EXCEPT
            !.c.sbuf = [j \in Ring |->
                IF j \in frags THEN [@[j] EXCEPT !.timer = FALSE, !.ttl = "expired"]
                ELSE @[j]],
            !.c.UNA = IF atUNA THEN Plus(b.som, b.fcnt) ELSE @,
            !.c.ackTimer = @ \/ atUNA]

(* RetransmitTimerHandler of buffer i: the message has been tried for too   *)
(* long, its time to live is over, or it is sent again.                     *)
RetransmitTimedOut(s, i) == Disconnect([s EXCEPT !.c.sbuf[i].timer = FALSE], "timeout")

RetransmitAgain(s, i) ==
    LET sent == SendMsgData(s, i)
    IN  IF s.o # "error" THEN sent
        ELSE Disconnect([sent EXCEPT !.c.sbuf[i].timer = FALSE], "error")

IsDataRetransmitScheduled(c) == Plus(c.UNA, 1) # c.NXT /\ c.UNA # c.NXT

=============================================================================
