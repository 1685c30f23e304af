---------------------------- MODULE MessageStream ----------------------------
(* What a reliable datagram link promises the two upper layers, for the     *)
(* messages of one direction: they are delivered whole, in order and at     *)
(* most once; only a message with a finite time to live may be skipped; and *)
(* the sender is told the fate of each message once, in order.              *)
EXTENDS Naturals, Sequences

CONSTANT Msgs           \* the messages that the sender submits, in order

VARIABLES
    submitted,          \* how many of them have been submitted
    delivered,          \* the messages that were delivered
    consumed,           \* how many of those the receiver has consumed
    reported            \* for each message the statuses its sender was told

vars == <<submitted, delivered, consumed, reported>>

Status == {"ok", "expired", "disconnecting"}

Reliable(m) == Msgs[m].ttl = "inf"
Unreported == {m \in DOMAIN Msgs : reported[m] = <<>>}
Consumed(m) == \E k \in 1 .. consumed : delivered[k] = m

Init ==
    /\ submitted = 0
    /\ delivered = <<>>
    /\ consumed = 0
    /\ reported = [m \in DOMAIN Msgs |-> <<>>]

(* d is a delivery of submitted messages in order, without gaps but for     *)
(* messages that may expire.                                                *)
InOrder(d) ==
    \A k \in DOMAIN d :
        LET previous == IF k = 1 THEN 0 ELSE d[k - 1]
        IN  /\ d[k] \in previous + 1 .. submitted
            /\ \A m \in previous + 1 .. d[k] - 1 : ~Reliable(m)

Submit ==
    /\ submitted < Len(Msgs)
    /\ submitted' = submitted + 1
    /\ UNCHANGED <<delivered, consumed, reported>>

(* One datagram may complete several messages.                              *)
Deliver ==
    /\ delivered' # delivered
    /\ \E k \in 1 .. Len(Msgs) : \E ms \in [1 .. k -> DOMAIN Msgs] : delivered' = delivered \o ms
    /\ InOrder(delivered')
    /\ UNCHANGED <<submitted, consumed, reported>>

Consume ==
    /\ consumed < Len(delivered)
    /\ consumed' = consumed + 1
    /\ UNCHANGED <<submitted, delivered, reported>>

(* Success is reported of a reliable message when the receiver has consumed *)
(* it, expiry only of a message that may expire.                            *)
MayReport(m, status) ==
    /\ status = "ok" /\ Reliable(m) => Consumed(m)
    /\ status = "expired" => ~Reliable(m)

(* One datagram, or the end of the connection, may settle several messages. *)
Report ==
    /\ reported' # reported
    /\ \E first \in Unreported, last \in 1 .. submitted, status \in [DOMAIN Msgs -> Status] :
          /\ \A m \in Unreported : first <= m
          /\ \A m \in first .. last : MayReport(m, status[m])
          /\ reported' = [m \in DOMAIN Msgs |->
                            IF m \in first .. last THEN <<status[m]>> ELSE reported[m]]
    /\ UNCHANGED <<submitted, delivered, consumed>>

Next == Submit \/ Deliver \/ Consume \/ Report

Spec == Init /\ [][Next]_vars

=============================================================================
