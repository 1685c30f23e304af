-------------------------------- MODULE Ardp --------------------------------
(* ARDP, the reliable datagram protocol under the UDP transport: a node     *)
(* that connects ("A"), a node that accepts ("B"), and a network that       *)
(* loses, duplicates, delays and reorders datagrams.  Each operation of the *)
(* upper layer, each received datagram and each timer is one action; all    *)
(* times are abstracted to "a timer that is set may fire".                  *)
EXTENDS ArdpRcv

CONSTANTS
    Iss,                \* the initial sequence number of each node
    Msgs,               \* for each node the messages its upper layer submits
    ConnectRetries,     \* udp_connect_retries
    KeepaliveRetries,   \* udp_keepalive_retries
    PersistRetries,     \* totalAppTimeout / persistInterval + 1
    Closers,            \* the nodes whose upper layer may call ARDP_Disconnect
    Idle,               \* the nodes whose connection may be idle for a probe interval
    Outcomes,           \* for each node what its socket may answer
    Duplicates,         \* the nodes to which the network duplicates datagrams
    NetMax,             \* bound: for each node the datagrams on their way to it
    MaxRecords          \* bound: connection records a node ever makes

Node == {"A", "B"}
Peer(n) == IF n = "A" THEN "B" ELSE "A"

ASSUME IssAssumption == Iss \in [Node -> Seqs]
ASSUME ConfigAssumption ==
    /\ ConnectRetries \in Nat
    /\ KeepaliveRetries \in Nat \ {0} /\ PersistRetries \in Nat \ {0}
ASSUME BoundAssumption == NetMax \in [Node -> Nat] /\ MaxRecords \in Nat
ASSUME OutcomesAssumption == Outcomes \in [Node -> SUBSET Outcome]
ASSUME MsgsAssumption == Msgs \in [Node -> Seq([fcnt : 1 .. SegMax, ttl : {"inf", "ttl"}])]

VARIABLES
    conn,       \* the connection record of each node
    app,        \* what the upper layer of each node was told
    jam,        \* trafficJam of each handle
    net,        \* the datagrams on their way to each node
    records,    \* number of connection records made, the source of port numbers
    broken      \* assertions of the code that have failed

vars == <<conn, app, jam, net, records, broken>>

NoConn == [state |-> "NONE"]
Exists(n) == conn[n] # NoConn

Init ==
    /\ conn = [n \in Node |-> NoConn]
    /\ app = [n \in Node |->
                [submitted |-> 0, sendCb |-> [m \in DOMAIN Msgs[n] |-> <<>>],
                 rcvd |-> <<>>, held |-> <<>>, consumed |-> 0,
                 connectCb |-> <<>>, disconnectCb |-> <<>>]]
    /\ jam = [n \in Node |-> FALSE]
    /\ net = [n \in Node |-> {}]
    /\ records = [n \in Node |-> 0]
    /\ broken = {}

(* NewConnRecord and InitConnRecord.                                        *)
NewConn(n, foreign, passive, state) ==
    [state |-> state, passive |-> passive, local |-> records[n] + 1, foreign |-> foreign,
     NXT |-> Plus(Iss[n], 1), UNA |-> Iss[n], LCS |-> Iss[n], pending |-> 0,
     sbuf |-> [i \in Ring |-> FreeSndBuf], window |-> 0,
     CUR |-> 0, rLCS |-> 0, rbuf |-> [i \in Ring |-> FreeRcvBuf(0)], eack |-> NoEack,
     conTimer |-> "off", retry |-> 0, reason |-> "none",
     ackTimer |-> FALSE, persist |-> 0, probe |-> 0]

----------------------------------------------------------------------------
(* A step of node n: the step state it begins with, and what it leaves.     *)
Step(n, o) == [c |-> conn[n], a |-> app[n], jam |-> jam[n], out |-> {}, o |-> o,
               ok |-> TRUE, broken |-> broken]

Finish(n, step, arrived) ==
    \E s \in {step} :
        /\ conn' = [conn EXCEPT ![n] = s.c]
        /\ app' = [app EXCEPT ![n] = s.a]
        /\ jam' = [jam EXCEPT ![n] = s.jam]
        /\ net' = [net EXCEPT ![n] = @ \ arrived, ![Peer(n)] = @ \cup s.out]
        /\ Cardinality(net[Peer(n)] \cup s.out) <= NetMax[Peer(n)]
        /\ broken' = s.broken

Commit(n, s) == Finish(n, s, {}) /\ UNCHANGED records

ConnectCb(s, status) == [s EXCEPT !.a.connectCb = Append(@, status)]

(* DoSendSyn: a SYN, or SYN and ACK from the passive side.                  *)
DoSendSyn(s, n) ==
    Emit(s, [Segment(s.c, {"SYN"} \cup (IF s.c.passive THEN {"ACK"} ELSE {}),
                     Iss[n], IF s.c.passive THEN s.c.CUR ELSE 0)
                EXCEPT !.lcs = 0, !.acknxt = 0])

\* Mutant: only the active side repeats its SYN.
SendSynOnce(s, n) ==
    LET sent == DoSendSyn(s, n)
    IN  IF sent.ok /\ ~s.c.passive
        THEN [sent EXCEPT !.c.conTimer = "connect", !.c.retry = ConnectRetries + 1]
        ELSE sent

(* SendSyn: the connect timer runs only if the datagram was sent.           *)
SendSyn(s, n) ==
    LET sent == DoSendSyn(s, n)
    IN  IF sent.ok THEN [sent EXCEPT !.c.conTimer = "connect", !.c.retry = ConnectRetries + 1]
        ELSE sent

(* UnmarshalSynSegment                                                      *)
UnmarshalSyn(s, seg) ==
    [s EXCEPT !.c.foreign = seg.src, !.c.CUR = seg.seq, !.c.rLCS = seg.seq,
              !.c.window = SegMax]

(* The connection is OPEN: PostInitRcv and the timers.                      *)
Open(s) ==
    [s EXCEPT !.c.state = "OPEN", !.c.UNA = Plus(s.c.LCS, 1), !.c.rLCS = s.c.CUR,
              !.c.rbuf = [i \in Ring |-> FreeRcvBuf(s.c.CUR)],
              !.c.conTimer = "off", !.c.retry = 0, !.c.ackTimer = FALSE,
              !.c.persist = 0, !.c.probe = KeepaliveRetries]

----------------------------------------------------------------------------
(* The upper layer.                                                         *)

(* ARDP_Connect.  If the SYN cannot be sent the record is deleted again and *)
(* nothing has happened.                                                    *)
ARDP_Connect ==
    /\ ~Exists("A") /\ records["A"] < MaxRecords
    /\ \E o \in Outcomes["A"] \cap {"sent", "lost"} :
          LET s == SendSyn([Step("A", o) EXCEPT !.c = NewConn("A", 0, FALSE, "SYN_SENT"),
                                                !.a.connectCb = <<>>, !.a.disconnectCb = <<>>],
                           "A")
          IN  Finish("A", s, {})
    /\ records' = [records EXCEPT !["A"] = @ + 1]

(* ARDP_Send of the next message; a refused call changes nothing.           *)
ARDP_Send(n) ==
    /\ Exists(n)
    /\ app[n].submitted < Len(Msgs[n])
    /\ LET m == app[n].submitted + 1
           fcnt == Msgs[n][m].fcnt
       IN  /\ Accepts(conn[n], fcnt)
           /\ \E os \in [1 .. fcnt -> Outcomes[n]] :
                 LET s == SendData(Step(n, "sent"), m, fcnt, Msgs[n][m].ttl, os)
                 IN  Commit(n, [s EXCEPT !.a.submitted = m])

(* ARDP_RecvReady: the upper layer has consumed the oldest message it holds.*)
ARDP_RecvReady(n) ==
    /\ Exists(n) /\ app[n].held # <<>>
    /\ LET i == Head(app[n].held)
           b == conn[n].rbuf[i]
           s == [Step(n, "sent") EXCEPT !.a.held = Tail(@), !.a.consumed = @ + 1]
       IN  \/ /\ conn[n].state = "OPEN"
              /\ Commit(n, ReleaseRcvBuffers(s, b.seq, b.fcnt, FALSE))
           \/ /\ conn[n].state \in {"CLOSED", "CLOSE_WAIT"}
              /\ Commit(n, [s EXCEPT !.c.rbuf = [j \in Ring |->
                        IF j \in Follow(i, b.fcnt)
                        THEN [@[j] EXCEPT !.inUse = FALSE, !.delivered = FALSE] ELSE @[j]]])

(* The transport calls it after ConnectCb only: an endpoint that was not    *)
(* started forgets its connection (EarlyExit in UDPTransport.cc), and on a  *)
(* connection that is closing or closed the call has no effect.             *)
ARDP_Disconnect(n) ==
    /\ n \in Closers /\ Exists(n) /\ conn[n].state = "OPEN"
    /\ \E o \in Outcomes[n] : Commit(n, Disconnect(Step(n, o), "ok"))

(* ARDP_ReleaseConnection, after ConnectCb has reported a failure.          *)
ARDP_ReleaseConnection(n) ==
    /\ Exists(n) /\ conn[n].state = "CLOSED" /\ conn[n].conTimer = "off"
    /\ Finish(n, [Step(n, "sent") EXCEPT !.c = NoConn], {})
    /\ UNCHANGED records

----------------------------------------------------------------------------
(* A received segment.                                                      *)

\* Mutant: the SYN of a segment does not count.
DLENPayload(seg) == seg.data # NoData

DLEN(seg) == seg.data # NoData \/ "SYN" \in seg.flg

(* The sequence checks of Receive for a segment without SYN.                *)
Valid(c, seg) ==
    /\ ~SEQ32_LT(c.NXT, seg.ack)
    /\ ~SEQ32_LT(seg.ack, seg.lcs)
    /\ ~SEQ32_LT(seg.seq, seg.acknxt)
    /\ Minus(seg.seq, seg.acknxt) <= (IF DLEN(seg) THEN SegMax - 1 ELSE SegMax)
    /\ DLEN(seg) => seg.fcnt \in 1 .. SegMax /\ Minus(seg.seq, seg.som) < seg.fcnt

(* seg.WINDOW: a 16 bit value, so a too old lcs makes it very large.        *)
WINDOW(c, seg) ==
    Minus(SegMax, Minus(c.NXT, Plus(seg.lcs, 1)))

(* ARDP_Accept does not look at the status of SendSyn.                      *)
ARDP_Accept(s, n) == SendSyn([s EXCEPT !.c.state = "SYN_RCVD"], n)

(* AcceptCb in LISTEN calls ARDP_Accept (accept) or refuses.                *)
MachineListen(s, n, seg, accept) ==
    LET syn == UnmarshalSyn(s, seg)
    IN  IF accept THEN ARDP_Accept(syn, n)
        ELSE [SendRst(syn) EXCEPT !.c = NoConn]

MachineSynSent(s, seg) ==
    LET Fail(t, status) ==
            ConnectCb([t EXCEPT !.c.state = "CLOSED", !.c.conTimer = "off", !.c.retry = 0], status)
        open == ConnectCb(SendAck(Open(UnmarshalSyn(s, seg))), "ok")
    IN  CASE "RST" \in seg.flg -> Fail(s, "reset")
          [] {"SYN", "ACK"} \subseteq seg.flg /\ seg.ack # s.c.LCS ->
                Fail(UnmarshalSyn(s, seg), "invalid")
          [] {"SYN", "ACK"} \subseteq seg.flg /\ seg.ack = s.c.LCS ->
                IF s.o = "error" THEN Fail(open, "error") ELSE open
          [] OTHER -> s

MachineSynRcvd(s, seg) ==
    CASE "RST" \in seg.flg -> Disconnect(s, "reset")
      [] "RST" \notin seg.flg /\ ~IN_RANGE(Plus(s.c.CUR, 1), SegMax, seg.seq) -> SendAck(s)
      [] OTHER ->
            IF "SYN" \in seg.flg \/ "EACK" \in seg.flg \/ seg.ack # s.c.LCS
            THEN Disconnect(s, "invalid")
            ELSE ConnectCb(IF "NUL" \in seg.flg THEN SendAck(Open(s)) ELSE Open(s), "ok")

(* The acknowledgements that a segment carries.                             *)
AckPart(s, seg) ==
    LET needUpdate == \/ IN_RANGE(s.c.UNA, Minus(s.c.NXT, s.c.UNA) + 1, seg.ack)
                      \/ s.c.LCS # seg.lcs
        una == IF needUpdate THEN [s EXCEPT !.c.UNA = Plus(seg.ack, 1)] ELSE s
        eacked == IF "EACK" \in seg.flg THEN CancelEackedSegments(una, seg.ack, seg.eack)
                  ELSE una
    IN  IF needUpdate THEN UpdateSndSegments(eacked, seg.ack, seg.lcs) ELSE eacked

(* A payload is acknowledged later or now: ackNow stands for ackPending     *)
(* having reached its limit while the ACK timer runs.                       *)
Acknowledge(s, ackNow) ==
    IF ~s.ok THEN s
    ELSE IF ~s.c.ackTimer THEN StartAckTimer(s)
    ELSE IF ackNow THEN [SendAck(s) EXCEPT !.ok = TRUE]
    ELSE s

(* The payload of a segment, if it has one: kept, a duplicate, or refused.  *)
DataPart(s, seg, late, duplicate) ==
    IF duplicate \/ SEQ32_LT(seg.seq, Plus(s.c.CUR, 1)) THEN s ELSE AddRcvBuffer(s, seg, late)

(* The rest of a segment after its acknowledgements: a NUL is answered.     *)
TakePart(s, seg, late, ackNow, duplicate) ==
    IF "NUL" \in seg.flg THEN [SendAck(s) EXCEPT !.ok = TRUE, !.c.ackTimer = s.o = "block"]
    ELSE IF ~DLEN(seg) THEN s
    ELSE Acknowledge(DataPart(s, seg, late, duplicate), ackNow)

(* The persist timer and the window, at the end of a segment.               *)
WindowPart(s, window) ==
    LET idle == ~IsDataRetransmitScheduled(s.c)
    IN  [s EXCEPT
            !.c.persist = IF idle /\ window < SegMax /\ @ = 0 THEN PersistRetries
                          ELSE IF @ # 0 /\ (window >= SegMax \/ ~idle) THEN 0
                          ELSE @,
            !.c.window = window]

(* The end of a segment: a payload that cannot be kept, like a bad          *)
(* acknowledgement before it, ends the connection.                          *)
Settled(s, window) == IF ~s.ok THEN Disconnect(s, "error") ELSE WindowPart(s, window)

PayloadPart(s, seg, late, ackNow, duplicate, window) ==
    IF ~s.ok THEN Disconnect(s, "invalid")
    ELSE Settled(TakePart(s, seg, late, ackNow, duplicate), window)

MachineOpen(s, seg, late, ackNow) ==
    LET c == s.c
        inWindow == IN_RANGE(Plus(c.rLCS, 1), IF DLEN(seg) THEN SegMax ELSE SegMax + 1, seg.seq)
        duplicate == /\ ~inWindow /\ DLEN(seg)
                     /\ IN_RANGE(Minus(Plus(c.CUR, 1), SegMax), SegMax, seg.seq)
        flushed == IF SEQ32_LT(Plus(c.CUR, 1), seg.acknxt)
                   THEN FlushExpiredRcvMessages(s, seg.acknxt, late) ELSE s
    IN  IF "RST" \in seg.flg THEN Disconnect(s, "reset")
        ELSE IF ~inWindow /\ ~duplicate THEN Disconnect(s, "invalid")
        ELSE IF "SYN" \in seg.flg
             THEN IF duplicate /\ ~c.passive /\ "ACK" \in seg.flg /\ seg.ack = Iss["A"]
                  THEN SendAck(s) ELSE Disconnect(s, "invalid")
        ELSE PayloadPart(AckPart(flushed, seg), seg, late, ackNow, duplicate, WINDOW(c, seg))

(* ARDP_Run takes a segment for an existing connection from the socket.     *)
Machine(s, seg, late, ackNow) ==
    LET seen == [s EXCEPT !.c.probe = KeepaliveRetries]
    IN  IF {"RST", "SYN"} \cap seg.flg = {} /\ ~Valid(s.c, seg) THEN Disconnect(seen, "invalid")
        ELSE CASE s.c.state = "SYN_SENT" -> MachineSynSent(seen, seg)
               [] s.c.state = "SYN_RCVD" -> MachineSynRcvd(seen, seg)
               [] s.c.state = "OPEN" -> MachineOpen(seen, seg, late, ackNow)

(* The buffers whose time to live may be over when seg is looked at.        *)
MayBeLate(n, seg) ==
    {i \in Ring : conn[n].rbuf[i].ttl = "ttl"} \cup
        (IF seg.ttl = "ttl" THEN {Idx(seg.seq)} ELSE {})

(* The record with the ports of the segment, or a half open one.            *)
FindConn(n, seg) ==
    Exists(n) /\ seg.dst = conn[n].local /\ conn[n].foreign \in {seg.src, 0}

(* The datagram is taken from the network, or a duplicate of it stays.      *)
Taken(seg, keep) == IF keep THEN {} ELSE {seg}

ReceiveSegment(n) ==
    \E seg \in net[n], o \in Outcomes[n], keep \in BOOLEAN :
        /\ keep => n \in Duplicates
        /\ FindConn(n, seg)
        /\ \/ /\ conn[n].state \notin {"CLOSED", "CLOSE_WAIT"}
              /\ \E late \in SUBSET MayBeLate(n, seg), ackNow \in BOOLEAN :
                    LET s == Machine(Step(n, o), seg, late, ackNow)
                    IN  Finish(n, s, Taken(seg, keep))
           \/ /\ conn[n].state \in {"CLOSED", "CLOSE_WAIT"}
              /\ LET s == Step(n, o)
                     t == IF "NUL" \in seg.flg THEN Emit(s, RstSegment(s.c)) ELSE s
                 IN  Finish(n, t, Taken(seg, keep))
        /\ UNCHANGED records

IsDuplicateConnRequest(n, seg) == Exists(n) /\ conn[n].foreign = seg.src

(* A segment with destination 0: a SYN, or the RST of a connection that has *)
(* not seen a SYN from here.  A repeated SYN is ignored.                    *)
ReceiveRequest ==
    \E seg \in net["B"], o \in Outcomes["B"], keep, accept \in BOOLEAN :
        /\ keep => "B" \in Duplicates
        /\ seg.dst = 0
        /\ \/ /\ IsDuplicateConnRequest("B", seg)
              /\ Finish("B", Step("B", o), Taken(seg, keep))
              /\ UNCHANGED records
           \/ /\ ~Exists("B") /\ records["B"] < MaxRecords
              /\ "RST" \notin seg.flg
              /\ LET s == MachineListen(
                            [Step("B", o) EXCEPT !.c = NewConn("B", seg.src, TRUE, "LISTEN"),
                                                 !.a.connectCb = <<>>, !.a.disconnectCb = <<>>],
                            "B", seg, accept)
                 IN  Finish("B", s, Taken(seg, keep))
              /\ records' = [records EXCEPT !["B"] = @ + 1]
           \/ /\ ~Exists("B") /\ "RST" \in seg.flg
              /\ LET s == Emit(Step("B", o), [seg EXCEPT !.src = 0, !.dst = seg.src])
                 IN  Finish("B", s, Taken(seg, keep))
              /\ UNCHANGED records

(* A segment for a connection that does not exist is dropped, and so is a   *)
(* request beyond the bound on connection records.                          *)
Discard(n) ==
    \E seg \in net[n] :
        /\ \/ seg.dst # 0 /\ ~FindConn(n, seg)
           \/ seg.dst = 0 /\ ~Exists(n) /\ records[n] = MaxRecords
        /\ net' = [net EXCEPT ![n] = @ \ {seg}]
        /\ UNCHANGED <<conn, app, jam, records, broken>>

----------------------------------------------------------------------------
(* Timers, from CheckConnTimers and CheckTimers.                            *)

(* The RST that gives up is answered by the socket on its own.             *)
ConnectTimerHandler(n) ==
    /\ Exists(n) /\ conn[n].conTimer = "connect"
    /\ \E o, answer \in Outcomes[n] :
          LET s == Step(n, o)
              again == DoSendSyn(s, n)
              failed == SendRst(ConnectCb([Step(n, answer) EXCEPT !.c.state = "CLOSED"], "timeout"))
          IN  IF s.c.retry > 1 /\ o # "error"
              THEN Commit(n, [again EXCEPT !.c.retry = @ - 1])
              ELSE Commit(n, [failed EXCEPT !.c.conTimer = "off", !.c.retry = 0])

Running(n) == Exists(n) /\ conn[n].state = "OPEN" /\ conn[n].conTimer = "off"

AckTimerHandler(n) ==
    /\ Running(n) /\ conn[n].ackTimer
    /\ \E o \in Outcomes[n] : Commit(n, SendAck(Step(n, o)))

\* Mutant: the probes are not counted.
SendProbeUncounted(s) == SendNul(s)

(* The body of ProbeTimerHandler when nothing was heard for an interval.    *)
SendProbe(s) ==
    LET nul == SendNul(s)
    IN  CASE s.c.probe = 0 -> Disconnect(s, "timeout")
          [] s.c.probe # 0 /\ nul.ok -> [nul EXCEPT !.c.probe = @ - 1]
          [] s.c.probe # 0 /\ s.o = "error" -> Disconnect(nul, "error")
          [] OTHER -> nul

ProbeTimerHandler(n) ==
    /\ n \in Idle /\ Running(n)
    /\ \E o \in Outcomes[n] : Commit(n, SendProbe(Step(n, o)))

PersistTimerHandler(n) ==
    /\ Running(n) /\ conn[n].persist # 0
    /\ conn[n].window < SegMax /\ ~IsDataRetransmitScheduled(conn[n])
    /\ \E o \in Outcomes[n] :
          LET s == Step(n, o)
              nul == SendNul(s)
          IN  Commit(n, IF s.c.persist = 1 THEN Disconnect(s, "timeout")
                        ELSE IF nul.ok THEN [nul EXCEPT !.c.persist = @ - 1]
                        ELSE nul)

(* A data timer, also of a connection that is going away: the segment has   *)
(* been tried for too long, its time to live is over, or it is sent again.  *)
DataTimerFires(n, i, o) ==
    Check(Step(n, o), "flushed buffer is not sent", conn[n].sbuf[i].inUse)

DataTimerSet(n, i) == Exists(n) /\ ~jam[n] /\ conn[n].sbuf[i].timer

RetransmitGivesUp(n, i) ==
    /\ DataTimerSet(n, i)
    /\ \E o \in Outcomes[n] : Commit(n, RetransmitTimedOut(DataTimerFires(n, i, o), i))

RetransmitExpires(n, i) ==
    /\ DataTimerSet(n, i) /\ conn[n].sbuf[i].ttl # "inf"
    /\ Commit(n, ExpireMessageSnd(DataTimerFires(n, i, "sent"), i))

RetransmitsAgain(n, i) ==
    /\ DataTimerSet(n, i)
    /\ \E o \in Outcomes[n] : Commit(n, RetransmitAgain(DataTimerFires(n, i, o), i))

RetransmitTimerHandler(n, i) ==
    \/ RetransmitGivesUp(n, i)
    \/ RetransmitExpires(n, i)
    \/ RetransmitsAgain(n, i)

DisconnectTimerHandler(n) ==
    /\ Exists(n) /\ conn[n].conTimer = "disconnect"
    /\ LET s == [Step(n, "sent") EXCEPT !.c.state = "CLOSED"]
           flushed == IF s.c.pending # 0 THEN FlushSendQueue(s) ELSE s
           told == IF s.c.reason # "ok" THEN s
                   ELSE [flushed EXCEPT !.a.disconnectCb = Append(@, "ok"), !.c.reason = "done"]
       IN  Finish(n, IF IsRcvQueueEmpty(s.c) THEN [told EXCEPT !.c = NoConn] ELSE told, {})
    /\ UNCHANGED records

(* ARDP_Run with sockWrite.                                                 *)
SocketWritable(n) ==
    /\ jam[n]
    /\ jam' = [jam EXCEPT ![n] = FALSE]
    /\ UNCHANGED <<conn, app, net, records, broken>>

----------------------------------------------------------------------------
Upper(n) ==
    \/ ARDP_Send(n)
    \/ ARDP_RecvReady(n)
    \/ ARDP_Disconnect(n)
    \/ ARDP_ReleaseConnection(n)

Timers(n) ==
    \/ ConnectTimerHandler(n)
    \/ AckTimerHandler(n)
    \/ ProbeTimerHandler(n)
    \/ PersistTimerHandler(n)
    \/ \E i \in Ring : RetransmitTimerHandler(n, i)
    \/ DisconnectTimerHandler(n)
    \/ SocketWritable(n)

Next ==
    \/ ARDP_Connect
    \/ ReceiveRequest
    \/ \E n \in Node : Upper(n) \/ Timers(n) \/ ReceiveSegment(n) \/ Discard(n)

Spec == Init /\ [][Next]_vars

(* What the scheduling of ARDP_Run guarantees: the socket is read until it  *)
(* is empty, the connect, probe and disconnect timers are handled when they *)
(* are due, and a data timer is not set again for ever                      *)
(* (totalDataRetryTimeout).  The upper layer gives back what it holds.      *)
FairNode(n) ==
    /\ []<>(net[n] = {})
    /\ WF_vars(ARDP_RecvReady(n))
    /\ WF_vars(ConnectTimerHandler(n))
    /\ WF_vars(ProbeTimerHandler(n))
    /\ WF_vars(DisconnectTimerHandler(n))
    /\ \A i \in Ring : WF_vars(RetransmitGivesUp(n, i))

LiveSpec == Spec /\ \A n \in Node : FairNode(n)

----------------------------------------------------------------------------
(* Properties.                                                              *)

Reasons == {"none", "ok", "reset", "invalid", "timeout", "error", "done"}
BufferTypeOK(c) ==
    /\ \A i \in Ring :
          /\ c.sbuf[i] \in [inUse : BOOLEAN, seq : Seqs, som : Seqs, fcnt : 0 .. SegMax,
                            ttl : {"inf", "ttl", "expired"}, timer : BOOLEAN, msg : Nat]
          /\ c.rbuf[i].seq \in Seqs /\ c.rbuf[i].som \in Seqs /\ c.rbuf[i].fcnt \in 0 .. SegMax
          /\ c.rbuf[i].ttl \in {"inf", "ttl", "expired"}
    /\ c.eack.sz \in 0 .. Words

(* TypeOK: a node has no connection record, or one whose counters are       *)
(* sequence numbers and whose window, retry counts and rings are in bounds. *)
TypeOK ==
    /\ \A n \in Node : Exists(n) =>
          LET c == conn[n]
          IN  /\ c.state \in States /\ c.reason \in Reasons
              /\ {c.NXT, c.UNA, c.LCS, c.CUR, c.rLCS, c.window} \subseteq Seqs
              /\ c.pending \in 0 .. SegMax /\ c.retry \in 0 .. ConnectRetries + 1
              /\ c.conTimer \in {"off", "connect", "disconnect"} /\ c.ackTimer \in BOOLEAN
              /\ c.persist \in 0 .. PersistRetries /\ c.probe \in 0 .. KeepaliveRetries
              /\ BufferTypeOK(c)
    /\ \A n \in Node : Cardinality(net[n]) <= NetMax[n] /\ records[n] \in 0 .. MaxRecords
    /\ jam \in [Node -> BOOLEAN]

(* AssertionsHold: none of the assertions in ArdpProtocol.cc about buffers, *)
(* timers and pending counts fails.                                         *)
AssertionsHold == broken = {}

(* The message a delivery consists of, 0 if it is not exactly the fragments *)
(* of one message in their order.                                           *)
MessageOf(n, frags) ==
    LET m == frags[1][1]
    IN  IF frags = [k \in 1 .. Msgs[n][m].fcnt |-> <<m, k - 1>>] THEN m ELSE 0

Delivered(n) == [k \in DOMAIN app[Peer(n)].rcvd |-> MessageOf(n, app[Peer(n)].rcvd[k])]

FromA == INSTANCE MessageStream WITH
    Msgs <- Msgs["A"], submitted <- app["A"].submitted, delivered <- Delivered("A"),
    consumed <- app["B"].consumed, reported <- app["A"].sendCb

FromB == INSTANCE MessageStream WITH
    Msgs <- Msgs["B"], submitted <- app["B"].submitted, delivered <- Delivered("B"),
    consumed <- app["A"].consumed, reported <- app["B"].sendCb

(* StreamSpec: SendCb, RecvCb and RecvReady implement a message stream in   *)
(* each direction: whole messages, in order, at most once, none lost but    *)
(* expired ones, each reported to its sender once and in order, as sent     *)
(* only if it was consumed.                                                 *)
StreamSpec == FromA!Spec /\ FromB!Spec

(* HeldIntact: the buffers of a message that RecvCb handed out keep its     *)
(* data, and the record exists, until ARDP_RecvReady gives them back.       *)
HeldIntact ==
    \A n \in Node : \A k \in DOMAIN app[n].held :
        /\ Exists(n)
        /\ LET i == app[n].held[k]
               frags == app[n].rcvd[app[n].consumed + k]
           IN  \A j \in DOMAIN frags :
                  LET b == conn[n].rbuf[(i + j - 1) % SegMax]
                  IN  b.delivered /\ b.data = frags[j]

(* QuietAfterDisconnect: after DisconnectCb the upper layer gets no further *)
(* RecvCb, SendCb or DisconnectCb of the connection, and no message of it   *)
(* is still without its SendCb.                                             *)
QuietAfterDisconnect ==
    [][\A n \in Node :
        /\ app[n].disconnectCb # <<>> /\ records'[n] = records[n] =>
              /\ app'[n].rcvd = app[n].rcvd
              /\ app'[n].sendCb = app[n].sendCb
              /\ app'[n].disconnectCb = app[n].disconnectCb
        /\ app[n].disconnectCb = <<>> /\ app'[n].disconnectCb # <<>> =>
              \A m \in 1 .. app'[n].submitted : app'[n].sendCb[m] # <<>>]_vars

(* Agreement: two open ends of a connection agree on where the stream is:   *)
(* consumed as the sender knows, consumed, received, sent, in this order,   *)
(* and no more is under way than the receiver has buffers for.              *)
Agreement ==
    \A n \in Node :
        LET c == conn[n]
            r == conn[Peer(n)]
            Offset(seq) == Minus(seq, Iss[n])
        IN  Exists(n) /\ Exists(Peer(n)) /\ c.state = "OPEN" /\ r.state = "OPEN" =>
                /\ c.foreign = r.local
                /\ Offset(c.LCS) <= Offset(r.rLCS)
                /\ Offset(r.rLCS) <= Offset(r.CUR)
                /\ Offset(r.CUR) < Offset(c.NXT)
                /\ Offset(c.NXT) <= Offset(r.rLCS) + 1 + SegMax

(* EackExact: the EACK mask that an open connection sends announces exactly *)
(* the segments it has buffered beyond the first missing one.               *)
EackExact ==
    \A n \in Node :
        LET c == conn[n]
        IN  Exists(n) /\ c.state = "OPEN" =>
                Announced(WireMask(c)) =
                    {d \in 1 .. SegMax - 1 :
                        LET b == c.rbuf[Idx(Plus(c.CUR, 1 + d))]
                        IN  b.inUse /\ b.seq = Plus(c.CUR, 1 + d)}

(* CancelledHasArrived: CancelEackedSegments stops the retransmission only  *)
(* of segments that the peer has received.                                  *)
CancelledHasArrived ==
    \A n \in Node : \A i \in Ring :
        Exists(n) /\ Exists(Peer(n)) =>
            LET b == conn[n].sbuf[i]
                r == conn[Peer(n)]
                stopped == b.inUse /\ ~b.timer /\ b.ttl # "expired"
            IN  conn[n].state = "OPEN" /\ r.state = "OPEN" /\ stopped =>
                    SEQ32_LET(b.seq, r.CUR) \/ (r.rbuf[i].inUse /\ r.rbuf[i].seq = b.seq)

(* NeverInvalid: two nodes that run this code never disconnect because one  *)
(* takes the other's segment for an invalid response.                       *)
NeverInvalid == \A n \in Node : "invalid" \notin ToSet(app[n].disconnectCb)

(* HalfOpenEnds: a connection that was accepted does not stay half open;    *)
(* it opens or is given up.                                                 *)
HalfOpenEnds ==
    (Exists("B") /\ conn["B"].state = "SYN_RCVD")
        ~> ~(Exists("B") /\ conn["B"].state = "SYN_RCVD")

(* SendCompletes: every message that ARDP_Send accepts gets its SendCb.     *)
SendCompletes ==
    \A n \in Node : \A m \in DOMAIN Msgs[n] :
        (app[n].submitted >= m) ~> (app[n].sendCb[m] # <<>>)

=============================================================================
