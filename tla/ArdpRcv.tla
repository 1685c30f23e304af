------------------------------- MODULE ArdpRcv -------------------------------
(* The receive side of an ARDP connection: the ring of receive buffers,     *)
(* reassembly, expiry and the release of consumed buffers.  Operators map   *)
(* the step states of ArdpSnd.                                              *)
(*                                                                          *)
(* late is the set of receive buffers whose time to live is over when the   *)
(* step looks at them; only buffers with a finite time to live are asked.   *)
EXTENDS ArdpSnd

FreeRcvBuf(seq) == [seq |-> seq, inUse |-> FALSE, delivered |-> FALSE,
                    som |-> 0, fcnt |-> 0, ttl |-> "inf", data |-> NoData]

\* Mutant: only the first buffer is looked at.
IsFirstRcvBufEmpty(c) == ~c.rbuf[0].delivered

IsRcvQueueEmpty(c) == \A i \in Ring : ~c.rbuf[i].delivered

StartAckTimer(s) == [s EXCEPT !.c.ackTimer = TRUE]

(* The number of buffers from index i on, at most n, that have expired      *)
(* without having been delivered.                                           *)
ExpiredRcvRun(c, i, n) ==
    Max({k \in 0 .. n : \A j \in Follow(i, k) :
            c.rbuf[j].ttl = "expired" /\ ~c.rbuf[j].delivered})

(* ReleaseRcvBuffers: fcnt buffers from seq on have been consumed           *)
(* (expired = FALSE) or have expired; expired ones behind them go as well.  *)
ReleaseRcvBuffers(s, seq, fcnt, expired) ==
    LET first == seq = Plus(s.c.rLCS, 1)
        run == ExpiredRcvRun(s.c, (Idx(seq) + fcnt) % SegMax, SegMax - fcnt)
        released == Follow(Idx(seq), fcnt + run)
        lcs == Plus(s.c.rLCS, fcnt + run)
    IN  IF ~first /\ expired THEN s
        ELSE IF ~first \/ (~expired /\ s.c.rbuf[Idx(seq)].seq # seq)
        THEN Check(s, "consumed message is first in the queue", FALSE)
        ELSE StartAckTimer([s EXCEPT
                !.c.rbuf = [j \in Ring |-> IF j \in released THEN FreeRcvBuf(@[j].seq) ELSE @[j]],
                !.c.rLCS = lcs,
                !.c.CUR = IF SEQ32_LT(@, lcs) THEN lcs ELSE @])

(* RecvCb: the upper layer reads the fragments that follow the first one,   *)
(* and has the buffers until it gives them back.                            *)
RecvCb(s, i) ==
    LET b == s.c.rbuf[i]
    IN  [s EXCEPT
            !.a.rcvd = Append(@, [k \in 1 .. b.fcnt |-> s.c.rbuf[(i + k - 1) % SegMax].data]),
            !.a.held = Append(@, i)]

(* One segment of AdvanceRcvQueue; q holds the local variables of the loop. *)
AdvanceOne(q, late) ==
    LET s == Check([q.s EXCEPT !.c.eack = ShiftRcvMsk(@)],
                   "seq - LCS <= SEGMAX", Minus(q.seq, q.s.c.rLCS) <= SegMax)
        b == s.c.rbuf[q.i]
        expiring == ~q.isExpiring /\ b.ttl = "ttl" /\ q.i \in late
        startSeq == IF expiring THEN b.som ELSE q.startSeq
        fcnt == IF expiring THEN b.fcnt ELSE q.fcnt
        lastExpired == q.seq = Plus(startSeq, fcnt - 1)
        marked == IF ~expiring THEN s
                  ELSE [s EXCEPT !.c.rbuf = [j \in Ring |->
                           IF j \in Follow(Idx(b.som), b.fcnt)
                           THEN [@[j] EXCEPT !.ttl = "expired"] ELSE @[j]]]
        dropped == IF lastExpired THEN ReleaseRcvBuffers(marked, startSeq, fcnt, TRUE)
                   ELSE marked
        lastFragment == b.seq = Plus(b.som, b.fcnt - 1)
        delivered == [RecvCb(s, Idx(b.som)) EXCEPT
                        !.c.rbuf = [j \in Ring |->
                            IF j \in Follow(Idx(b.som), b.fcnt)
                            THEN [@[j] EXCEPT !.delivered = TRUE] ELSE @[j]]]
        next == (q.i + 1) % SegMax
        Turn(t, isExpiring) ==
            [s |-> t, i |-> next, seq |-> Plus(q.seq, 1), isExpiring |-> isExpiring,
             startSeq |-> startSeq, fcnt |-> fcnt,
             more |-> isExpiring \/ (t.c.rbuf[next].inUse /\ ~t.c.rbuf[next].delivered)]
    IN  IF q.isExpiring \/ expiring THEN Turn(dropped, ~lastExpired)
        ELSE IF lastFragment THEN Turn(delivered, FALSE)
        ELSE Turn(s, FALSE)

AdvanceTurn(q, late) == IF q.more THEN AdvanceOne(q, late) ELSE q

(* The end of the loop: CUR becomes the last segment in order.              *)
Advanced(end) ==
    LET cur == Minus(end.seq, 1)
    IN  StartAckTimer([Check(end.s, "seq - LCS <= SEGMAX", ~end.more)
                        EXCEPT !.c.CUR = IF SEQ32_LT(@, cur) THEN cur ELSE @])

(* AdvanceRcvQueue: the segment in buffer i is the next one in order.       *)
AdvanceRcvQueue(s, i, late) ==
    LET start == [s |-> s, i |-> i, seq |-> s.c.rbuf[i].seq, isExpiring |-> FALSE,
                  startSeq |-> 0, fcnt |-> 0, more |-> TRUE]
        turn[k \in 0 .. SegMax + 1] ==
            IF k = 0 THEN start ELSE AdvanceTurn(turn[k - 1], late)
    IN  Advanced(turn[SegMax + 1])

(* The queue advances if the segment in buffer i is there and not delivered. *)
AdvanceIfReady(s, i, late) ==
    IF s.c.rbuf[i].inUse /\ ~s.c.rbuf[i].delivered THEN AdvanceRcvQueue(s, i, late) ELSE s

(* FlushExpiredRcvMessages: the sender has given up everything before       *)
(* acknxt.                                                                  *)
FlushExpiredRcvMessages(s, acknxt, late) ==
    LET c == s.c
        b == c.rbuf[Idx(c.CUR)]
        between == ~b.inUse \/ b.seq = Plus(b.som, b.fcnt - 1)
        startSeq == IF between THEN Plus(c.CUR, 1) ELSE b.som
        start == IF between THEN (Idx(c.CUR) + 1) % SegMax ELSE Idx(b.som)
        n == Minus(acknxt, startSeq)
        gone == Follow(start, n)
        shifts == Minus(acknxt, Plus(c.CUR, 1))
        marked == [s EXCEPT
                    !.c.rbuf = [j \in Ring |->
                        IF j \in gone THEN [@[j] EXCEPT !.ttl = "expired"] ELSE @[j]],
                    !.c.eack = FoldLeft(LAMBDA e, k : ShiftRcvMsk(e), @, [k \in 1 .. shifts |-> k]),
                    !.c.CUR = Minus(acknxt, 1)]
        checked == Check(marked, "no delivered message expires",
                         \A j \in gone : ~c.rbuf[j].delivered)
    IN  StartAckTimer(
            IF between /\ c.eack.sz = 0 /\ c.rLCS = c.CUR
            THEN [s EXCEPT !.c.rLCS = Minus(acknxt, 1), !.c.CUR = Minus(acknxt, 1)]
            ELSE AdvanceIfReady(ReleaseRcvBuffers(checked, startSeq, n, TRUE),
                                (start + n) % SegMax, late))

\* Mutant: only a delivered segment is recognised.
HoldsDelivered(b, seg) == b.seq = seg.seq /\ b.delivered

HoldsSegment(b, seg) == b.seq = seg.seq

(* The segment is put into its buffer; one ahead of a gap is announced.     *)
KeepSegment(s, seg) ==
    [s EXCEPT !.ok = TRUE,
        !.c.rbuf[Idx(seg.seq)] = [seq |-> seg.seq, inUse |-> TRUE, delivered |-> FALSE,
                                  som |-> seg.som, fcnt |-> seg.fcnt, ttl |-> seg.ttl,
                                  data |-> seg.data]]

AnnounceSegment(s, gap) == [s EXCEPT !.c.eack = AddRcvMsk(@, gap)]

(* AddRcvBuffer: keep a data segment, in order or ahead of a gap.           *)
AddRcvBuffer(s, seg, late) ==
    LET i == Idx(seg.seq)
        b == s.c.rbuf[i]
    IN  IF HoldsSegment(b, seg) THEN [s EXCEPT !.ok = TRUE]
        ELSE IF b.inUse THEN [Check(s, "buffer in use overwritten", FALSE) EXCEPT !.ok = FALSE]
        ELSE IF seg.seq = Plus(s.c.CUR, 1) THEN AdvanceRcvQueue(KeepSegment(s, seg), i, late)
        ELSE AnnounceSegment(KeepSegment(s, seg), Minus(seg.seq, Plus(s.c.CUR, 1)))

=============================================================================
