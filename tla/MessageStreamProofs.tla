------------------------ MODULE MessageStreamProofs ------------------------
(***************************************************************************)
(* What the message stream promises to its two upper layers, derived from  *)
(* its specification for any sequence of messages.  Ardp is shown to       *)
(* implement that specification (StreamSpec), so these hold of ARDP_Send,  *)
(* RecvCb and SendCb wherever that refinement does.                        *)
(***************************************************************************)
EXTENDS MessageStream, WellFoundedInduction, SequenceTheorems, TLAPS

\* Messages come out in the order of submission, none of them twice.
Ordered == \A i, j \in DOMAIN delivered : i < j => delivered[i] < delivered[j]

\* Whatever was delivered, every reliable message before it was delivered as well.
NothingLost ==
  \A k \in DOMAIN delivered : \A m \in 1 .. delivered[k] :
      Reliable(m) => \E j \in 1 .. k : delivered[j] = m

\* The fate of a message is reported once, after its submission and in the order of submission;
\* success of a reliable message means that the receiver has consumed it.
FateKnown ==
  \A m \in DOMAIN Msgs : reported[m] # <<>> =>
      /\ Len(reported[m]) = 1
      /\ m <= submitted
      /\ \A l \in 1 .. m : reported[l] # <<>>
      /\ Reliable(m) => reported[m] # <<"expired">>
      /\ Reliable(m) /\ reported[m] = <<"ok">> => Consumed(m)

\* The inductive invariant: the deliveries are in order, and reports are a prefix of what was
\* submitted.
StreamInv ==
  /\ submitted \in 0 .. Len(Msgs)
  /\ delivered \in Seq(DOMAIN Msgs)
  /\ InOrder(delivered)
  /\ consumed \in 0 .. Len(delivered)
  /\ reported \in [DOMAIN Msgs -> {<<>>} \union {<<s>> : s \in Status}]
  /\ FateKnown

-----------------------------------------------------------------------------
\* A set of natural numbers has a smallest one.
LEMMA SmallestNat ==
  ASSUME NEW S \in SUBSET Nat, S # {}
  PROVE  \E k \in S : \A j \in S : k <= j
<1>1. PICK x \in S : \A y \in S : ~(<<y, x>> \in OpToRel(<, Nat))
  BY NatLessThanWellFounded, WFMin
<1>2. \A y \in S : <<y, x>> \in OpToRel(<, Nat) <=> <<y, x>> \in {ss \in Nat \X Nat : ss[1] < ss[2]}
  BY Zenon DEF OpToRel
<1>3. \A y \in S : ~(y < x)
  BY <1>1, <1>2
<1> QED
  BY <1>3

\* In a delivery in order each message comes after the one before it.
LEMMA InOrderSteps ==
  ASSUME NEW M, Msgs \in Seq(M), StreamInv, NEW k \in DOMAIN delivered
  PROVE  /\ delivered[k] \in Nat \ {0}
         /\ k > 1 => /\ k - 1 \in DOMAIN delivered
                     /\ delivered[k - 1] < delivered[k]
                     /\ \A m \in delivered[k - 1] + 1 .. delivered[k] - 1 : ~Reliable(m)
         /\ k = 1 => \A m \in 1 .. delivered[k] - 1 : ~Reliable(m)
<1>1. /\ DOMAIN delivered = 1 .. Len(delivered) /\ Len(delivered) \in Nat
      /\ DOMAIN Msgs = 1 .. Len(Msgs) /\ Len(Msgs) \in Nat
      /\ \A i \in DOMAIN delivered : delivered[i] \in DOMAIN Msgs
      /\ submitted \in Nat
  BY DEF StreamInv
<1> DEFINE previous == IF k = 1 THEN 0 ELSE delivered[k - 1]
<1>2. /\ delivered[k] \in previous + 1 .. submitted
      /\ \A m \in previous + 1 .. delivered[k] - 1 : ~Reliable(m)
  BY DEF StreamInv, InOrder
<1>3. CASE k = 1
  BY <1>1, <1>2, <1>3
<1>4. CASE k # 1
  <2>1. k - 1 \in DOMAIN delivered /\ previous = delivered[k - 1]
    BY <1>1, <1>4
  <2> QED
    BY <1>1, <1>2, <1>4, <2>1
<1> QED
  BY <1>3, <1>4

\* A delivery in order is strictly increasing.
LEMMA OrderedFollows ==
  ASSUME NEW M, Msgs \in Seq(M), StreamInv
  PROVE  Ordered
<1> SUFFICES ASSUME NEW i \in DOMAIN delivered, NEW j \in DOMAIN delivered, i < j,
                    ~(delivered[i] < delivered[j])
             PROVE  FALSE
  BY DEF Ordered
<1>0. DOMAIN delivered = 1 .. Len(delivered) /\ Len(delivered) \in Nat
  BY DEF StreamInv
<1> DEFINE Bad == {b \in Nat : b \in DOMAIN delivered /\ i < b /\ ~(delivered[i] < delivered[b])}
<1>1. Bad \in SUBSET Nat /\ Bad # {}
  BY <1>0
<1>2. PICK b \in Bad : \A c \in Bad : b <= c
  <2> HIDE DEF Bad
  <2> QED
    BY <1>1, SmallestNat
<1>3. b \in DOMAIN delivered /\ b \in Nat /\ i < b /\ i \in Nat \ {0} /\ b > 1
  BY <1>0
<1>4. b - 1 \in DOMAIN delivered /\ delivered[b - 1] < delivered[b]
  BY <1>3, InOrderSteps
<1>5. delivered[i] \in Nat /\ delivered[b - 1] \in Nat /\ delivered[b] \in Nat
  BY <1>3, <1>4, InOrderSteps
<1>6. CASE b - 1 = i
  BY <1>4, <1>6
<1>7. CASE b - 1 # i
  <2>1. b - 1 \notin Bad
    <3> HIDE DEF Bad
    <3> QED
      BY <1>2, <1>3
  <2>2. delivered[i] < delivered[b - 1]
    BY <2>1, <1>3, <1>4, <1>7
  <2> QED
    BY <2>2, <1>4, <1>5
<1> QED
  BY <1>6, <1>7

\* A delivery in order skips no reliable message.
LEMMA NothingLostFollows ==
  ASSUME NEW M, Msgs \in Seq(M), StreamInv
  PROVE  NothingLost
<1> SUFFICES ASSUME NEW k \in DOMAIN delivered, NEW m \in 1 .. delivered[k], Reliable(m),
                    ~ \E j \in 1 .. k : delivered[j] = m
             PROVE  FALSE
  BY DEF NothingLost
<1>0. DOMAIN delivered = 1 .. Len(delivered) /\ Len(delivered) \in Nat
  BY DEF StreamInv
<1> DEFINE Past == {b \in Nat : b \in 1 .. k /\ m <= delivered[b]}
<1>1. Past \in SUBSET Nat /\ Past # {}
  <2>1. delivered[k] \in Nat
    BY InOrderSteps
  <2>2. k \in Past
    BY <1>0, <2>1
  <2> QED
    BY <2>2
<1>2. PICK b \in Past : \A c \in Past : b <= c
  <2> HIDE DEF Past
  <2> QED
    BY <1>1, SmallestNat
<1>3. b \in DOMAIN delivered /\ b \in 1 .. k /\ b \in Nat \ {0} /\ m <= delivered[b]
  BY <1>0
<1>4. m < delivered[b] /\ m \in Nat \ {0} /\ delivered[b] \in Nat
  <2>1. delivered[b] \in Nat /\ delivered[k] \in Nat
    BY <1>3, InOrderSteps
  <2>2. m \in Nat \ {0}
    BY <2>1
  <2>3. delivered[b] # m
    BY <1>3
  <2> QED
    BY <2>1, <2>2, <2>3, <1>3
<1>5. CASE b = 1
  <2>1. m \in 1 .. delivered[b] - 1
    BY <1>4
  <2> QED
    BY <2>1, <1>3, <1>5, InOrderSteps
<1>6. CASE b # 1
  <2>1. /\ b - 1 \in DOMAIN delivered /\ b - 1 \in 1 .. k
        /\ delivered[b - 1] \in Nat
        /\ \A l \in delivered[b - 1] + 1 .. delivered[b] - 1 : ~Reliable(l)
    <3>1. PICK n \in Nat : DOMAIN delivered = 1 .. n
      BY <1>0
    <3>2. k \in 1 .. n
      BY <3>1
    <3>3. b - 1 \in 1 .. k
      <4>1. b \in 1 .. k /\ b # 1
        BY <1>3, <1>6
      <4> QED
        BY <3>2, <4>1
    <3>4. b - 1 \in DOMAIN delivered
      BY <3>1, <3>2, <3>3
    <3>5. delivered[b - 1] \in Nat
      BY <3>4, InOrderSteps
    <3>6. b \in DOMAIN delivered /\ b > 1
      BY <1>3, <1>6
    <3>7. \A l \in delivered[b - 1] + 1 .. delivered[b] - 1 : ~Reliable(l)
      BY <3>6, InOrderSteps
    <3> QED
      BY <3>3, <3>4, <3>5, <3>7
  <2>2. b - 1 \notin Past
    <3> HIDE DEF Past
    <3> QED
      BY <1>2, <1>3
  <2>3. delivered[b - 1] < m
    BY <2>1, <2>2, <1>3, <1>4
  <2>4. m \in delivered[b - 1] + 1 .. delivered[b] - 1
    BY <2>1, <2>3, <1>4
  <2> QED
    BY <2>1, <2>4
<1> QED
  BY <1>5, <1>6

-----------------------------------------------------------------------------
\* The invariant holds at the beginning.
LEMMA StreamInit ==
  ASSUME NEW M, Msgs \in Seq(M), Init
  PROVE  StreamInv
<1>1. Len(Msgs) \in Nat
  OBVIOUS
<1>2. delivered \in Seq(DOMAIN Msgs) /\ Len(delivered) = 0 /\ DOMAIN delivered = {}
  BY DEF Init
<1>3. InOrder(delivered)
  BY <1>2 DEF InOrder
<1>4. FateKnown
  BY DEF Init, FateKnown
<1>5. reported \in [DOMAIN Msgs -> {<<>>} \union {<<s>> : s \in Status}]
  BY DEF Init
<1> QED
  BY <1>1, <1>2, <1>3, <1>4, <1>5 DEF StreamInv, Init

\* Reports of the messages first to last, of which first is the oldest without one, leave the
\* reports before them alone and settle nothing twice.
LEMMA ReportStep ==
  ASSUME NEW M, Msgs \in Seq(M), StreamInv, Report
  PROVE  /\ reported' \in [DOMAIN Msgs -> {<<>>} \union {<<s>> : s \in Status}]
         /\ FateKnown'
         /\ \A m \in DOMAIN Msgs : reported[m] # <<>> => reported'[m] = reported[m]
<1>0. /\ DOMAIN Msgs = 1 .. Len(Msgs) /\ Len(Msgs) \in Nat
      /\ submitted \in 0 .. Len(Msgs)
      /\ reported \in [DOMAIN Msgs -> {<<>>} \union {<<s>> : s \in Status}]
      /\ FateKnown
  BY DEF StreamInv
<1>1. PICK first \in Unreported, last \in 1 .. submitted, status \in [DOMAIN Msgs -> Status] :
         /\ \A m \in Unreported : first <= m
         /\ \A m \in first .. last : MayReport(m, status[m])
         /\ reported' = [m \in DOMAIN Msgs |->
                           IF m \in first .. last THEN <<status[m]>> ELSE reported[m]]
  BY DEF Report
<1>2. first \in DOMAIN Msgs /\ reported[first] = <<>> /\ first \in Nat /\ last \in Nat
  BY <1>0 DEF Unreported
<1>3. \A m \in DOMAIN Msgs : m < first => reported[m] # <<>>
  BY <1>0, <1>1, <1>2 DEF Unreported
<1>4. \A m \in DOMAIN Msgs : m >= first => reported[m] = <<>>
  BY <1>0, <1>2 DEF FateKnown
<1>5. reported' \in [DOMAIN Msgs -> {<<>>} \union {<<s>> : s \in Status}]
  BY <1>0, <1>1
<1>6. ASSUME NEW m \in DOMAIN Msgs, reported[m] # <<>> PROVE reported'[m] = reported[m]
  <2>1. m \notin first .. last
    BY <1>4, <1>6, <1>0
  <2> QED
    BY <2>1, <1>1
<1>7. UNCHANGED <<submitted, delivered, consumed>>
  BY DEF Report
<1>8. ASSUME NEW m \in DOMAIN Msgs, reported'[m] # <<>>
      PROVE  /\ Len(reported'[m]) = 1
             /\ m <= submitted
             /\ \A l \in 1 .. m : reported'[l] # <<>>
             /\ Reliable(m) => reported'[m] # <<"expired">>
             /\ Reliable(m) /\ reported'[m] = <<"ok">> => Consumed(m)
  <2>0. m \in Nat \ {0} /\ \A l \in 1 .. m : l \in DOMAIN Msgs /\ l \in Nat
    BY <1>0
  <2>1. CASE m \in first .. last
    <3>1. reported'[m] = <<status[m]>> /\ MayReport(m, status[m])
      BY <2>1, <1>1
    <3>2. \A l \in 1 .. m : reported'[l] # <<>>
      <4>1. SUFFICES ASSUME NEW l \in 1 .. m PROVE reported'[l] # <<>>
        OBVIOUS
      <4>2. CASE l < first
        BY <4>2, <1>3, <1>6, <2>0
      <4>3. CASE ~(l < first)
        <5>1. l \in first .. last
          BY <4>3, <2>0, <2>1, <1>2
        <5>2. reported'[l] = <<status[l]>>
          BY <5>1, <1>1, <2>0
        <5> QED
          BY <5>2
      <4> QED
        BY <4>2, <4>3
    <3>3. m <= submitted
      BY <2>1, <1>0
    <3>4. /\ Reliable(m) => status[m] # "expired"
          /\ Reliable(m) /\ status[m] = "ok" => Consumed(m)
      BY <3>1 DEF MayReport
    <3> QED
      BY <3>1, <3>2, <3>3, <3>4
  <2>2. CASE m \notin first .. last
    <3>1. reported'[m] = reported[m]
      BY <2>2, <1>1
    <3>2. /\ Len(reported[m]) = 1
          /\ m <= submitted
          /\ \A l \in 1 .. m : reported[l] # <<>>
          /\ Reliable(m) => reported[m] # <<"expired">>
          /\ Reliable(m) /\ reported[m] = <<"ok">> => Consumed(m)
      BY <3>1, <1>8, <1>0 DEF FateKnown
    <3>3. \A l \in 1 .. m : reported'[l] # <<>>
      BY <3>2, <1>6, <2>0
    <3> QED
      BY <3>1, <3>2, <3>3
  <2> QED
    BY <2>1, <2>2
<1>9. FateKnown'
  BY <1>7, <1>8 DEF FateKnown, Reliable, Consumed
<1> QED
  BY <1>5, <1>6, <1>9

\* Every step keeps the invariant, and no report is changed.
LEMMA StreamStep ==
  ASSUME NEW M, Msgs \in Seq(M), StreamInv, [Next]_vars
  PROVE  /\ StreamInv'
         /\ \A m \in DOMAIN Msgs : reported[m] # <<>> => reported'[m] = reported[m]
<1>0. /\ DOMAIN Msgs = 1 .. Len(Msgs) /\ Len(Msgs) \in Nat
      /\ submitted \in 0 .. Len(Msgs)
      /\ delivered \in Seq(DOMAIN Msgs) /\ InOrder(delivered)
      /\ consumed \in 0 .. Len(delivered)
      /\ DOMAIN delivered = 1 .. Len(delivered) /\ Len(delivered) \in Nat
      /\ reported \in [DOMAIN Msgs -> {<<>>} \union {<<s>> : s \in Status}]
      /\ FateKnown
  BY DEF StreamInv
<1>1. CASE Submit
  <2>1. submitted' = submitted + 1 /\ submitted' \in 0 .. Len(Msgs)
        /\ UNCHANGED <<delivered, consumed, reported>>
    BY <1>0, <1>1 DEF Submit
  <2>2. InOrder(delivered)'
    <3> SUFFICES ASSUME NEW k \in DOMAIN delivered
                 PROVE  LET previous == IF k = 1 THEN 0 ELSE delivered[k - 1]
                        IN  /\ delivered[k] \in previous + 1 .. submitted'
                            /\ \A m \in previous + 1 .. delivered[k] - 1 : ~Reliable(m)
      BY <2>1 DEF InOrder, Reliable
    <3> DEFINE previous == IF k = 1 THEN 0 ELSE delivered[k - 1]
    <3>1. /\ delivered[k] \in previous + 1 .. submitted
          /\ \A m \in previous + 1 .. delivered[k] - 1 : ~Reliable(m)
      BY <1>0 DEF InOrder
    <3>2. previous \in Int
      BY <1>0
    <3> HIDE DEF previous
    <3>3. delivered[k] \in previous + 1 .. submitted'
      BY <3>1, <3>2, <2>1, <1>0
    <3> QED
      BY <3>1, <3>3 DEF previous
  <2>3. FateKnown'
    <3> SUFFICES ASSUME NEW m \in DOMAIN Msgs, reported[m] # <<>>
                 PROVE  /\ Len(reported[m]) = 1
                        /\ m <= submitted + 1
                        /\ \A l \in 1 .. m : reported[l] # <<>>
                        /\ Reliable(m) => reported[m] # <<"expired">>
                        /\ Reliable(m) /\ reported[m] = <<"ok">> => Consumed(m)
      BY <2>1 DEF FateKnown, Reliable, Consumed
    <3> QED
      BY <1>0 DEF FateKnown
  <2> QED
    BY <1>0, <2>1, <2>2, <2>3 DEF StreamInv
<1>2. CASE Deliver
  <2>1. UNCHANGED <<submitted, consumed, reported>> /\ InOrder(delivered')
    BY <1>2 DEF Deliver
  <2>n. PICK n \in 1 .. Len(Msgs) : \E ms \in [1 .. n -> DOMAIN Msgs] : delivered' = delivered \o ms
    BY <1>2 DEF Deliver
  <2>2. PICK ms \in [1 .. n -> DOMAIN Msgs] : delivered' = delivered \o ms
    BY <2>n
  <2>3. ms \in Seq(DOMAIN Msgs)
    BY <1>0
  <2>4. /\ delivered' \in Seq(DOMAIN Msgs)
        /\ Len(delivered') = Len(delivered) + Len(ms) /\ Len(ms) \in Nat
        /\ \A k \in 1 .. Len(delivered) : delivered'[k] = delivered[k]
    BY <2>2, <2>3, <1>0
  <2>5. InOrder(delivered)'
    BY <2>1 DEF InOrder, Reliable
  <2>6. \A m \in DOMAIN Msgs : Consumed(m) => Consumed(m)'
    <3>1. 1 .. consumed \subseteq 1 .. Len(delivered) /\ consumed' = consumed
      BY <2>1, <1>0
    <3> QED
      BY <3>1, <2>4 DEF Consumed
  <2>7. FateKnown'
    BY <1>0, <2>1, <2>6 DEF FateKnown, Reliable
  <2> QED
    BY <1>0, <2>1, <2>4, <2>5, <2>7 DEF StreamInv
<1>3. CASE Consume
  <2>1. consumed' = consumed + 1 /\ consumed' \in 0 .. Len(delivered)
        /\ UNCHANGED <<submitted, delivered, reported>>
    BY <1>0, <1>3 DEF Consume
  <2>2. InOrder(delivered)'
    BY <2>1, <1>0 DEF InOrder, Reliable
  <2>3. \A m \in DOMAIN Msgs : Consumed(m) => Consumed(m)'
    BY <2>1, <1>0 DEF Consumed
  <2>4. FateKnown'
    BY <1>0, <2>1, <2>3 DEF FateKnown, Reliable
  <2> QED
    BY <1>0, <2>1, <2>2, <2>4 DEF StreamInv
<1>4. CASE Report
  <2>1. UNCHANGED <<submitted, delivered, consumed>>
    BY <1>4 DEF Report
  <2>2. InOrder(delivered)'
    BY <2>1, <1>0 DEF InOrder, Reliable
  <2> QED
    BY <1>0, <1>4, <2>1, <2>2, ReportStep DEF StreamInv
<1>5. CASE UNCHANGED vars
  <2>1. UNCHANGED <<submitted, delivered, consumed, reported>>
    BY <1>5 DEF vars
  <2>2. InOrder(delivered)' /\ FateKnown'
    BY <2>1, <1>0 DEF InOrder, FateKnown, Reliable, Consumed
  <2> QED
    BY <1>0, <2>1, <2>2 DEF StreamInv
<1> QED
  BY <1>1, <1>2, <1>3, <1>4, <1>5 DEF Next

-----------------------------------------------------------------------------
\* StreamCorrect: messages are delivered in the order of ARDP_Send and none twice; none without
\* a time to live is skipped; SendCb tells a fate only once a message is submitted, and success of a
\* reliable message only after it was consumed.
THEOREM StreamCorrect ==
  ASSUME NEW M, Msgs \in Seq(M)
  PROVE  Spec => [](Ordered /\ NothingLost /\ FateKnown)
<1>1. Init => StreamInv
  BY StreamInit
<1>2. StreamInv /\ [Next]_vars => StreamInv'
  BY StreamStep
<1>3. StreamInv => Ordered /\ NothingLost /\ FateKnown
  BY OrderedFollows, NothingLostFollows DEF StreamInv
<1> QED
  BY <1>1, <1>2, <1>3, PTL DEF Spec

\* FateIsFinal: SendCb is called at most once for a message; what it said is never taken back.
THEOREM FateIsFinal ==
  ASSUME NEW M, Msgs \in Seq(M)
  PROVE  Spec => [][\A m \in DOMAIN Msgs : reported[m] # <<>> => reported'[m] = reported[m]]_vars
<1>1. Init => StreamInv
  BY StreamInit
<1>2. StreamInv /\ [Next]_vars => StreamInv'
  BY StreamStep
<1>3. StreamInv /\ [Next]_vars =>
          [\A m \in DOMAIN Msgs : reported[m] # <<>> => reported'[m] = reported[m]]_vars
  BY StreamStep
<1> QED
  BY <1>1, <1>2, <1>3, PTL DEF Spec

=============================================================================
