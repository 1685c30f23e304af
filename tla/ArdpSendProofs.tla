--------------------------- MODULE ArdpSendProofs ---------------------------
(***************************************************************************)
(* Proofs about an ARDP connection, for any width of the sequence numbers, *)
(* any number of buffers and any width of a mask word.                     *)
(*                                                                         *)
(* First what holds of every configuration: comparisons across the wrap,   *)
(* the buffers of a window, the EACK mask of what was received out of      *)
(* order.  Then the inductive invariant of a whole connection, ArdpInv:    *)
(*                                                                         *)
(*   Types    what every variable is;                                      *)
(*   Nodes    a node's ring of buffers holds the fragments between UNA     *)
(*            and NXT of the messages the application was not told about,  *)
(*            its receive ring the ones between CUR and the end of the     *)
(*            peer's window (SndAt, RcvAt), and its state says how far     *)
(*            the other side can be (Ctl, AppOK);                          *)
(*   Nets     what a segment on its way may say about its sender, which    *)
(*            has gone on since (SegOK);                                   *)
(*   Record, Phase  which connection record there is, and since when.      *)
(*                                                                         *)
(* A handler is followed in between with Good, what it leaves true at      *)
(* every call, and Moves, what it may have changed.  This module has the   *)
(* parts of the handlers that send, flush and take acknowledgements;       *)
(* ArdpProofs receives, opens and closes, and draws the conclusions.       *)
(*                                                                         *)
(* A sequence number of a message is a position, its distance to the first *)
(* number of the connection.  First(n, m), the position of the first       *)
(* fragment of message m of node n, is defined by CHOOSE from Layout.      *)
(***************************************************************************)
EXTENDS Ardp, WellFoundedInduction, FiniteSetTheorems, SequenceTheorems, TLAPS

USE SeqSpaceAssumption, SegMaxAssumption, WordBitsAssumption

-----------------------------------------------------------------------------
(* Sequence numbers.                                                       *)

\* The unsigned difference undoes the unsigned sum, and the other way round.
LEMMA PlusMinus ==
  ASSUME NEW a \in Seqs, NEW b \in Seqs
  PROVE  /\ Plus(a, b) \in Seqs
         /\ Minus(a, b) \in Seqs
         /\ Minus(Plus(a, b), a) = b
         /\ Plus(b, Minus(a, b)) = a
  BY DEF Plus, Minus, Seqs

\* RangeExact: IN_RANGE (ArdpProtocol.cc:294) accepts exactly the sz numbers that start with
\* beg, also when they lie on both sides of the wrap.
THEOREM RangeExact ==
  ASSUME NEW beg \in Seqs, NEW sz \in Seqs, NEW p \in Seqs
  PROVE  IN_RANGE(beg, sz, p) <=> Minus(p, beg) < sz
  BY DEF IN_RANGE, Plus, Minus, Seqs

\* OrderExact: for two numbers that are less than half the sequence space ahead of a third,
\* SEQ32_LT (ArdpProtocol.cc:286) says which of them comes first.
THEOREM OrderExact ==
  ASSUME NEW base \in Seqs, NEW a \in Seqs, NEW b \in Seqs,
         Minus(a, base) < SeqSpace \div 2, Minus(b, base) < SeqSpace \div 2
  PROVE  SEQ32_LT(a, b) <=> Minus(a, base) < Minus(b, base)
  BY DEF SEQ32_LT, Minus, Seqs

\* Quotient and remainder of a division as the code uses them.
LEMMA DivMod ==
  ASSUME NEW a \in Nat, NEW n \in Nat \ {0}
  PROVE  /\ a \div n \in Nat
         /\ a % n \in 0 .. n - 1
         /\ a = (a \div n) * n + (a % n)
  BY SMTT(30)

\* Multiples of n that are less than n apart are equal.
LEMMA MultiplesApart ==
  ASSUME NEW n \in Nat \ {0}, NEW i \in Int, NEW j \in Int,
         i * n - j * n < n, j * n - i * n < n
  PROVE  i = j
<1>1. CASE i > j
  <2>1. (i - j) * n >= n
    BY <1>1, SMTT(30)
  <2> QED
    BY <2>1, SMTT(30)
<1>2. CASE j > i
  <2>1. (j - i) * n >= n
    BY <1>2, SMTT(30)
  <2> QED
    BY <2>1, SMTT(30)
<1> QED
  BY <1>1, <1>2

\* Two segments of a window fall on different buffers, if the number of buffers divides the
\* sequence space.
LEMMA BuffersAcross ==
  ASSUME SegMax < SeqSpace, SeqSpace % SegMax = 0,
         NEW beg \in Seqs, NEW p \in Seqs, NEW q \in Seqs,
         IN_RANGE(beg, SegMax, p), IN_RANGE(beg, SegMax, q),
         Idx(p) = Idx(q)
  PROVE  p = q
<1>1. /\ Minus(p, beg) < SegMax
      /\ Minus(q, beg) < SegMax
  <2>1. SegMax \in Seqs
    BY DEF Seqs
  <2> QED
    BY <2>1, RangeExact
<1>2. PICK i \in Nat, j \in Nat, k \in Nat, r \in 0 .. SegMax - 1 :
         p = i * SegMax + r /\ q = j * SegMax + r /\ SeqSpace = k * SegMax
  <2>0. p \in Nat /\ q \in Nat
    BY DEF Seqs
  <2>1. /\ p \div SegMax \in Nat /\ p % SegMax \in 0 .. SegMax - 1
        /\ p = (p \div SegMax) * SegMax + (p % SegMax)
    BY <2>0, DivMod
  <2>2. /\ q \div SegMax \in Nat
        /\ q = (q \div SegMax) * SegMax + (q % SegMax)
    BY <2>0, DivMod
  <2>3. /\ SeqSpace \div SegMax \in Nat
        /\ SeqSpace = (SeqSpace \div SegMax) * SegMax + (SeqSpace % SegMax)
    BY DivMod
  <2>4. p % SegMax = q % SegMax
    BY DEF Idx
  <2>5. SeqSpace = (SeqSpace \div SegMax) * SegMax
    <3> DEFINE prod == (SeqSpace \div SegMax) * SegMax
    <3>1. SeqSpace = prod + 0 /\ prod \in Int
      BY <2>3
    <3> HIDE DEF prod
    <3>2. SeqSpace = prod
      BY <3>1
    <3> QED
      BY <3>2 DEF prod
  <2> QED
    BY <2>1, <2>2, <2>4, <2>5, <2>3
<1>3. \/ p - q < SegMax /\ q - p < SegMax
      \/ (p + SeqSpace) - q < SegMax /\ q - (p + SeqSpace) < SegMax
      \/ (q + SeqSpace) - p < SegMax /\ p - (q + SeqSpace) < SegMax
  BY <1>1 DEF Minus, Seqs
<1>4. CASE p - q < SegMax /\ q - p < SegMax
  <2>1. i * SegMax - j * SegMax < SegMax /\ j * SegMax - i * SegMax < SegMax
    BY <1>2, <1>4, SMTT(30)
  <2>2. i = j
    BY <2>1, MultiplesApart
  <2> QED
    BY <2>2, <1>2
<1>5. CASE (p + SeqSpace) - q < SegMax /\ q - (p + SeqSpace) < SegMax
  <2>1. (i + k) * SegMax = i * SegMax + k * SegMax
    BY SMTT(30)
  <2>2. (i + k) * SegMax - j * SegMax < SegMax /\ j * SegMax - (i + k) * SegMax < SegMax
    BY <1>2, <1>5, <2>1, SMTT(30)
  <2>3. i + k = j
    BY <2>2, MultiplesApart
  <2>4. q = p + SeqSpace
    BY <2>1, <2>3, <1>2, SMTT(30)
  <2> QED
    BY <2>4 DEF Seqs
<1>6. CASE (q + SeqSpace) - p < SegMax /\ p - (q + SeqSpace) < SegMax
  <2>1. (j + k) * SegMax = j * SegMax + k * SegMax
    BY SMTT(30)
  <2>2. (j + k) * SegMax - i * SegMax < SegMax /\ i * SegMax - (j + k) * SegMax < SegMax
    BY <1>2, <1>6, <2>1, SMTT(30)
  <2>3. j + k = i
    BY <2>2, MultiplesApart
  <2>4. p = q + SeqSpace
    BY <2>1, <2>3, <1>2, SMTT(30)
  <2> QED
    BY <2>4 DEF Seqs
<1> QED
  BY <1>3, <1>4, <1>5, <1>6

\* BuffersDistinct: two different segments that the receive window (or the send window) admits
\* never fall on the same buffer, as long as the window does not lie across the wrap of the
\* sequence numbers; across the wrap, if the number of buffers divides the sequence space.
THEOREM BuffersDistinct ==
  ASSUME SegMax < SeqSpace,
         NEW beg \in Seqs, NEW p \in Seqs, NEW q \in Seqs,
         beg + SegMax <= SeqSpace \/ SeqSpace % SegMax = 0,
         IN_RANGE(beg, SegMax, p), IN_RANGE(beg, SegMax, q),
         Idx(p) = Idx(q)
  PROVE  p = q
<1>1. CASE SeqSpace % SegMax = 0
  BY <1>1, BuffersAcross
<1>2. CASE beg + SegMax <= SeqSpace
  <2>1. Minus(p, beg) < SegMax /\ Minus(q, beg) < SegMax
    <3>1. SegMax \in Seqs
      BY DEF Seqs
    <3> QED
      BY <3>1, RangeExact
  <2>2. p - q < SegMax /\ q - p < SegMax /\ p \in Nat /\ q \in Nat
    BY <2>1, <1>2 DEF Minus, Seqs
  <2>3. PICK i \in Nat, j \in Nat, r \in 0 .. SegMax - 1 : p = i * SegMax + r /\ q = j * SegMax + r
    <3>1. /\ p \div SegMax \in Nat /\ p % SegMax \in 0 .. SegMax - 1
          /\ p = (p \div SegMax) * SegMax + (p % SegMax)
      BY <2>2, DivMod
    <3>2. /\ q \div SegMax \in Nat
          /\ q = (q \div SegMax) * SegMax + (q % SegMax)
      BY <2>2, DivMod
    <3>3. p % SegMax = q % SegMax
      BY DEF Idx
    <3> QED
      BY <3>1, <3>2, <3>3
  <2>4. i * SegMax - j * SegMax < SegMax /\ j * SegMax - i * SegMax < SegMax
    BY <2>2, <2>3, SMTT(30)
  <2>5. i = j
    BY <2>4, MultiplesApart
  <2> QED
    BY <2>3, <2>5
<1> QED
  BY <1>1, <1>2

-----------------------------------------------------------------------------
(* The EACK mask.                                                          *)

Bits == 0 .. WordBits - 1
WordIds == 0 .. Words - 1

\* A mask whose size is that of its last word with a bit.
WellFormed(e) ==
  /\ e \in [mask : [WordIds -> SUBSET Bits], htnMask : [WordIds -> SUBSET Bits], sz : 0 .. Words]
  /\ \A w \in WordIds : w >= e.sz => e.mask[w] = {}
  /\ e.sz > 0 => e.mask[e.sz - 1] # {}

\* The number of words is one at least.
LEMMA WordsType == Words \in Nat \ {0}
<1> DEFINE n == SegMax + WordBits - 1
<1>1. n \in Nat /\ n >= WordBits
  OBVIOUS
<1>2. /\ n \div WordBits \in Nat
      /\ n % WordBits \in 0 .. WordBits - 1
      /\ n = (n \div WordBits) * WordBits + (n % WordBits)
  BY <1>1, DivMod
<1>3. n \div WordBits # 0
  <2>1. SUFFICES ASSUME n \div WordBits = 0 PROVE FALSE
    OBVIOUS
  <2>2. (n \div WordBits) * WordBits = 0
    BY <2>1
  <2> QED
    BY <1>1, <1>2, <2>2
<1> QED
  BY <1>2, <1>3 DEF Words

\* The word and the bit of a segment that the receiver can buffer, as AddRcvMsk computes them.
LEMMA BitPlace ==
  ASSUME NEW delta \in 1 .. SegMax
  PROVE  LET w == (delta - 1) \div WordBits
             b == (delta - 1) - w * WordBits
         IN  w \in WordIds /\ b \in Bits /\ w * WordBits + b + 1 = delta
<1> DEFINE w == (delta - 1) \div WordBits
           r == (delta - 1) % WordBits
           n == SegMax + WordBits - 1
<1>1. w \in Nat /\ r \in Bits /\ delta - 1 = w * WordBits + r
  <2>1. delta - 1 \in Nat
    OBVIOUS
  <2> QED
    BY <2>1, DivMod DEF Bits
<1>2. /\ Words \in Nat /\ n % WordBits \in Bits
      /\ n = Words * WordBits + (n % WordBits)
  <2>1. n \in Nat
    OBVIOUS
  <2> QED
    BY <2>1, DivMod DEF Words, Bits
<1> HIDE DEF w, r
<1>3. w < Words
  <2>1. SUFFICES ASSUME w >= Words PROVE FALSE
    BY <1>1, <1>2
  <2>2. w * WordBits >= Words * WordBits
    BY <2>1, <1>1, <1>2, SMTT(30)
  <2>3. PICK x \in Int, y \in Int : x = w * WordBits /\ y = Words * WordBits
    BY <1>1, <1>2
  <2>4. delta - 1 >= x /\ n <= y + WordBits - 1 /\ x >= y
    BY <1>1, <1>2, <2>2, <2>3 DEF Bits
  <2> QED
    BY <2>4
<1>4. (delta - 1) - w * WordBits = r
  <2>1. PICK x \in Int : x = w * WordBits
    BY <1>1
  <2> QED
    BY <2>1, <1>1 DEF Bits
<1>5. w * WordBits + r + 1 = delta
  <2>1. PICK x \in Int : x = w * WordBits
    BY <1>1
  <2> QED
    BY <2>1, <1>1 DEF Bits
<1> QED
  BY <1>1, <1>2, <1>3, <1>4, <1>5 DEF WordIds, w

\* The first bit of a word, as a number, and that of the next word.
LEMMA PlaceInt ==
  ASSUME NEW w \in WordIds
  PROVE  /\ w \in Int /\ w * WordBits \in Int
         /\ (w + 1) * WordBits = w * WordBits + WordBits
         /\ (w - 1) * WordBits = w * WordBits - WordBits
  BY SMTT(30) DEF WordIds

\* A set of natural numbers has a smallest one.
LEMMA SmallestNat ==
  ASSUME NEW S \in SUBSET Nat, S # {}
  PROVE  \E k \in S : \A j \in S : k <= j
<1>1. PICK x \in S : \A y \in S : ~(<<y, x>> \in OpToRel(<, Nat))
  BY NatLessThanWellFounded, WFMin
<1>2. \A y \in S : <<y, x>> \in OpToRel(<, Nat) <=> <<y, x>> \in {ss \in Nat \X Nat : ss[1] < ss[2]}
  BY Zenon DEF OpToRel
<1>3. \A y \in S : ~(y < x)
  BY <1>1, <1>2
<1> QED
  BY <1>3

\* What a mask announces, in the words of a quantifier.
LEMMA AnnouncedBits ==
  ASSUME NEW mask \in [WordIds -> SUBSET Bits], NEW d
  PROVE  d \in Announced(mask) <=>
             \E w \in WordIds : \E b \in mask[w] : d = w * WordBits + b + 1
<1>1. DOMAIN mask = WordIds
  OBVIOUS
<1>2. d \in Announced(mask) <=>
          \E w \in DOMAIN mask : \E b \in mask[w] : d = w * WordBits + b + 1
  <2>1. d \in Announced(mask) <=>
            \E w \in DOMAIN mask : d \in {w * WordBits + b + 1 : b \in mask[w]}
    <3> DEFINE Of(w) == {w * WordBits + b + 1 : b \in mask[w]}
    <3>1. Announced(mask) = UNION {Of(w) : w \in DOMAIN mask}
      BY Zenon DEF Announced
    <3> HIDE DEF Of
    <3>2. d \in Announced(mask) <=> \E w \in DOMAIN mask : d \in Of(w)
      BY <3>1
    <3> QED
      BY <3>2 DEF Of
  <2> QED
    BY <2>1, Zenon
<1> QED
  BY <1>1, <1>2

\* An empty mask announces nothing and is well formed.
LEMMA NoEackWellFormed == WellFormed(NoEack) /\ Announced(NoEack.mask) = {}
<1>1. NoEack.mask \in [WordIds -> SUBSET Bits] /\ NoEack.htnMask \in [WordIds -> SUBSET Bits]
      /\ NoEack.sz = 0
  BY WordsType DEF NoEack, WordIds
<1>2. \A w \in WordIds : NoEack.mask[w] = {}
  BY DEF NoEack, WordIds
<1>3. Announced(NoEack.mask) = {}
  BY <1>1, <1>2, AnnouncedBits
<1>4. NoEack \in [mask : [WordIds -> SUBSET Bits], htnMask : [WordIds -> SUBSET Bits],
                  sz : 0 .. Words]
  BY <1>1, WordsType DEF NoEack
<1> QED
  BY <1>1, <1>2, <1>3, <1>4 DEF WellFormed

\* AddAnnounces: AddRcvMsk adds the segment to what the mask announces, nothing else, and
\* keeps its size right.
THEOREM AddAnnounces ==
  ASSUME NEW e, WellFormed(e), NEW delta \in 1 .. SegMax
  PROVE  /\ WellFormed(AddRcvMsk(e, delta))
         /\ Announced(AddRcvMsk(e, delta).mask) = Announced(e.mask) \cup {delta}
         /\ e.htnMask = e.mask => AddRcvMsk(e, delta).htnMask = AddRcvMsk(e, delta).mask
<1> DEFINE w == (delta - 1) \div WordBits
           b == (delta - 1) - w * WordBits
           f == AddRcvMsk(e, delta)
<1>1. w \in WordIds /\ b \in Bits /\ w * WordBits + b + 1 = delta
  BY BitPlace
<1>2. /\ f.mask = [e.mask EXCEPT ![w] = e.mask[w] \cup {b}]
      /\ f.htnMask = [e.htnMask EXCEPT ![w] = e.mask[w] \cup {b}]
      /\ f.sz = IF e.sz < w + 1 THEN w + 1 ELSE e.sz
      /\ f = [mask |-> f.mask, htnMask |-> f.htnMask, sz |-> f.sz]
  BY DEF AddRcvMsk
<1> HIDE DEF w, b, f
<1>3. /\ e.mask \in [WordIds -> SUBSET Bits] /\ e.htnMask \in [WordIds -> SUBSET Bits]
      /\ e.sz \in 0 .. Words
      /\ \A v \in WordIds : v >= e.sz => e.mask[v] = {}
      /\ e.sz > 0 => e.mask[e.sz - 1] # {}
  BY DEF WellFormed
<1>4. /\ f.mask \in [WordIds -> SUBSET Bits] /\ f.htnMask \in [WordIds -> SUBSET Bits]
      /\ f.sz \in 0 .. Words
  <2>1. f.mask \in [WordIds -> SUBSET Bits] /\ f.htnMask \in [WordIds -> SUBSET Bits]
    BY <1>1, <1>2, <1>3
  <2>2. f.sz \in 0 .. Words
    BY <1>1, <1>2, <1>3, WordsType DEF WordIds
  <2> QED
    BY <2>1, <2>2
<1>5. WellFormed(f)
  <2>1. f \in [mask : [WordIds -> SUBSET Bits], htnMask : [WordIds -> SUBSET Bits], sz : 0 .. Words]
    BY <1>2, <1>4
  <2>2. \A v \in WordIds : v >= f.sz => f.mask[v] = {}
    BY <1>1, <1>2, <1>3 DEF WordIds
  <2>3. f.sz > 0 => f.mask[f.sz - 1] # {}
    <3>1. CASE e.sz < w + 1
      <4>0. f.sz = w + 1
        BY <3>1, <1>2
      <4>1. f.sz - 1 = w /\ w \in DOMAIN e.mask
        BY <4>0, <1>1, <1>3, WordsType DEF WordIds
      <4>2. f.mask[w] = e.mask[w] \cup {b}
        BY <4>1, <1>2
      <4> QED
        BY <4>1, <4>2
    <3>2. CASE ~(e.sz < w + 1)
      <4>0. e.sz \in 0 .. Words /\ w \in 0 .. Words - 1 /\ f.sz = e.sz
        BY <3>2, <1>1, <1>2, <1>3 DEF WordIds
      <4>1. f.sz = e.sz /\ e.sz > 0 /\ e.sz - 1 \in WordIds
        BY <3>2, <4>0, WordsType DEF WordIds
      <4>2. e.mask[e.sz - 1] \subseteq f.mask[e.sz - 1]
        BY <4>1, <1>1, <1>2, <1>3
      <4> QED
        BY <4>1, <4>2, <1>3
    <3> QED
      BY <3>1, <3>2
  <2> QED
    BY <2>1, <2>2, <2>3 DEF WellFormed
<1>6. \A d : d \in Announced(f.mask) <=> d \in Announced(e.mask) \cup {delta}
  <2> SUFFICES ASSUME NEW d
               PROVE  d \in Announced(f.mask) <=> d \in Announced(e.mask) \cup {delta}
    OBVIOUS
  <2>1. /\ f.mask[w] = e.mask[w] \cup {b}
        /\ \A v \in WordIds \ {w} : f.mask[v] = e.mask[v]
    BY <1>1, <1>2, <1>3
  <2>2. ASSUME d \in Announced(f.mask) PROVE d \in Announced(e.mask) \cup {delta}
    <3>1. PICK v \in WordIds, c \in Bits : c \in f.mask[v] /\ d = v * WordBits + c + 1
      BY <2>2, <1>4, AnnouncedBits
    <3>2. CASE v = w /\ c = b
      BY <3>1, <3>2, <1>1
    <3>3. CASE ~(v = w /\ c = b)
      <4>1. c \in e.mask[v]
        BY <3>1, <3>3, <2>1
      <4> QED
        BY <4>1, <3>1, <1>3, AnnouncedBits
    <3> QED
      BY <3>2, <3>3
  <2>3. ASSUME d \in Announced(e.mask) PROVE d \in Announced(f.mask)
    <3>1. PICK v \in WordIds, c \in Bits : c \in e.mask[v] /\ d = v * WordBits + c + 1
      BY <2>3, <1>3, AnnouncedBits
    <3>2. c \in f.mask[v]
      BY <3>1, <2>1
    <3> QED
      BY <3>1, <3>2, <1>4, AnnouncedBits
  <2>4. delta \in Announced(f.mask)
    <3>1. b \in f.mask[w]
      BY <2>1
    <3> QED
      BY <3>1, <1>1, <1>4, AnnouncedBits
  <2> QED
    BY <2>2, <2>3, <2>4
<1>7. e.htnMask = e.mask => f.htnMask = f.mask
  BY <1>2
<1> QED
  BY <1>5, <1>6, <1>7 DEF f

\* What ShiftLeft of a word of the mask holds.
LEMMA ShiftLeftBits ==
  ASSUME NEW word \in SUBSET Bits
  PROVE  /\ ShiftLeft(word) \in SUBSET Bits
         /\ \A b \in Bits : b \in ShiftLeft(word) <=> b + 1 \in word
         /\ word # {} /\ ShiftLeft(word) = {} => word = {0}
<1>1. \A b \in Int : b \in ShiftLeft(word) <=> b + 1 \in word \ {0}
  <2>1. word \subseteq Int
    BY DEF Bits
  <2> QED
    BY <2>1 DEF ShiftLeft
<1>2. \A x \in ShiftLeft(word) : x \in Bits
  BY <1>1 DEF ShiftLeft, Bits
<1>3. ASSUME word # {}, ShiftLeft(word) = {} PROVE word = {0}
  <2>1. \A c \in word : c = 0
    <3>1. SUFFICES ASSUME NEW c \in word, c # 0 PROVE FALSE
      OBVIOUS
    <3>2. c - 1 \in ShiftLeft(word)
      BY <3>1 DEF ShiftLeft
    <3> QED
      BY <3>2, <1>3
  <2> QED
    BY <2>1, <1>3
<1> QED
  BY <1>1, <1>2, <1>3 DEF Bits

\* A word that is not empty is changed by the shift: it loses its last bit, or moves it.
LEMMA ShiftLeftChanges ==
  ASSUME NEW word \in SUBSET Bits, word # {}
  PROVE  \E b \in word : b \notin ShiftLeft(word)
<1> DEFINE Behind == {k \in Nat : WordBits - k \in word}
<1>1. Behind \in SUBSET Nat /\ Behind # {}
  <2>1. PICK b \in word : TRUE
    OBVIOUS
  <2>2. WordBits - (WordBits - b) = b /\ WordBits - b \in Nat
    BY DEF Bits
  <2> QED
    BY <2>2
<1>2. PICK k \in Behind : \A j \in Behind : k <= j
  BY <1>1, SmallestNat
<1>3. WordBits - k \in word /\ k \in Nat
  OBVIOUS
<1>4. (WordBits - k) + 1 \notin word
  <2>1. SUFFICES ASSUME (WordBits - k) + 1 \in word PROVE FALSE
    OBVIOUS
  <2>2. k - 1 \in Nat /\ WordBits - (k - 1) = (WordBits - k) + 1
    BY <2>1, <1>3 DEF Bits
  <2>3. k - 1 \in Behind
    BY <2>1, <2>2
  <2> QED
    BY <2>3, <1>2, <1>3
<1> QED
  BY <1>3, <1>4, ShiftLeftBits

\* The words of a well formed mask after ShiftRcvMsk.
LEMMA ShiftedWords ==
  ASSUME NEW e, WellFormed(e), e.sz # 0
  PROVE  LET f == ShiftRcvMsk(e)
         IN  /\ f.mask = [w \in WordIds |-> IF w < e.sz THEN Shifted(e, w) ELSE e.mask[w]]
             /\ f.htnMask = [w \in WordIds |-> IF w \in Refreshed(e) THEN Shifted(e, w)
                                               ELSE e.htnMask[w]]
             /\ f.sz = ShiftedSize(e)
             /\ f = [mask |-> f.mask, htnMask |-> f.htnMask, sz |-> f.sz]
<1>1. DOMAIN e.mask = WordIds /\ DOMAIN e.htnMask = WordIds
  BY DEF WellFormed
<1> QED
  BY <1>1 DEF ShiftRcvMsk

\* The bits of a shifted word.
LEMMA ShiftedBits ==
  ASSUME NEW e, WellFormed(e), NEW w \in WordIds
  PROVE  /\ Shifted(e, w) \in SUBSET Bits
         /\ \A b \in Bits : b \in Shifted(e, w) <=>
                \/ b + 1 \in e.mask[w]
                \/ b = WordBits - 1 /\ w + 1 < e.sz /\ 0 \in e.mask[w + 1]
<1>1. e.mask[w] \in SUBSET Bits
  BY DEF WellFormed
<1>2. WordBits - 1 \in Bits
  BY DEF Bits
<1> QED
  BY <1>1, <1>2, ShiftLeftBits DEF Shifted

\* The size that the loop of ShiftRcvMsk computes: the last word keeps a bit, or its only bit
\* moves to the word before it.
LEMMA ShiftedSizeIs ==
  ASSUME NEW e, WellFormed(e), e.sz # 0
  PROVE  ShiftedSize(e) = IF ShiftLeft(e.mask[e.sz - 1]) # {} THEN e.sz ELSE e.sz - 1
<1> DEFINE nonEmpty == {w \in 1 .. e.sz - 1 : e.mask[w] # {}}
<1>1. e.sz \in Nat \ {0} /\ e.mask[e.sz - 1] # {}
  BY WordsType DEF WellFormed
<1>2. CASE e.sz = 1
  <2>1. nonEmpty = {}
    BY <1>2
  <2> QED
    BY <2>1, <1>2 DEF ShiftedSize
<1>3. CASE e.sz # 1
  <2>1. e.sz - 1 \in nonEmpty /\ \A w \in nonEmpty : w <= e.sz - 1 /\ w \in Int
    BY <1>1, <1>3
  <2>2. Max(nonEmpty) = e.sz - 1
    <3>1. \E x \in nonEmpty : \A y \in nonEmpty : x >= y
      BY <1>1, <2>1
    <3>2. Max(nonEmpty) \in nonEmpty /\ \A y \in nonEmpty : Max(nonEmpty) >= y
      <4> HIDE DEF nonEmpty
      <4> QED
        BY <3>1, Zenon DEF Max
    <3> HIDE DEF nonEmpty
    <3>3. PICK m : m = Max(nonEmpty)
      OBVIOUS
    <3>4. m \in nonEmpty /\ m >= e.sz - 1
      BY <3>2, <3>3, <2>1
    <3>5. m = e.sz - 1
      BY <3>4, <2>1, <1>1
    <3> QED
      BY <3>3, <3>5
  <2>3. nonEmpty # {}
    BY <2>1
  <2>4. ShiftedSize(e) = IF ShiftLeft(e.mask[e.sz - 1]) # {} THEN (e.sz - 1) + 1 ELSE e.sz - 1
    BY <2>2, <2>3, Zenon DEF ShiftedSize
  <2> QED
    BY <2>4, <1>1
<1> QED
  BY <1>2, <1>3

\* ShiftAnnounces: when rcv.CUR moves to the next segment, ShiftRcvMsk moves everything that
\* the mask announces by one, forgets the segment that is now in order, and keeps the size right.
THEOREM ShiftAnnounces ==
  ASSUME NEW e, WellFormed(e)
  PROVE  /\ WellFormed(ShiftRcvMsk(e))
         /\ \A d \in Nat \ {0} :
                d \in Announced(ShiftRcvMsk(e).mask) <=> d + 1 \in Announced(e.mask)
<1>0. /\ e.mask \in [WordIds -> SUBSET Bits] /\ e.htnMask \in [WordIds -> SUBSET Bits]
      /\ e.sz \in 0 .. Words /\ Words \in Nat
      /\ \A v \in WordIds : v >= e.sz => e.mask[v] = {}
      /\ e.sz > 0 => e.mask[e.sz - 1] # {}
  BY WordsType DEF WellFormed
<1>1. CASE e.sz = 0
  <2>1. ShiftRcvMsk(e) = e
    BY <1>1 DEF ShiftRcvMsk
  <2>2. \A v \in WordIds : e.mask[v] = {}
    BY <1>0, <1>1 DEF WordIds
  <2>3. \A d : d \notin Announced(e.mask)
    BY <1>0, <2>2, AnnouncedBits
  <2> QED
    BY <2>1, <2>3
<1>2. CASE e.sz # 0
  <2> DEFINE f == ShiftRcvMsk(e)
  <2>1. /\ f.mask = [w \in WordIds |-> IF w < e.sz THEN Shifted(e, w) ELSE e.mask[w]]
        /\ f.htnMask = [w \in WordIds |-> IF w \in Refreshed(e) THEN Shifted(e, w)
                                          ELSE e.htnMask[w]]
        /\ f.sz = ShiftedSize(e)
        /\ f = [mask |-> f.mask, htnMask |-> f.htnMask, sz |-> f.sz]
    BY <1>2, ShiftedWords
  <2> HIDE DEF f
  <2>2. f.mask \in [WordIds -> SUBSET Bits] /\ f.htnMask \in [WordIds -> SUBSET Bits]
    BY <2>1, <1>0, ShiftedBits
  <2>3. f.sz = IF ShiftLeft(e.mask[e.sz - 1]) # {} THEN e.sz ELSE e.sz - 1
    BY <2>1, <1>2, ShiftedSizeIs
  <2>4. e.sz - 1 \in WordIds /\ e.mask[e.sz - 1] # {}
    BY <1>0, <1>2 DEF WordIds
  <2>5. WellFormed(f)
    <3>1. f \in [mask : [WordIds -> SUBSET Bits], htnMask : [WordIds -> SUBSET Bits], sz : 0 .. Words]
      BY <2>1, <2>2, <2>3, <1>0, <1>2
    <3>2. ASSUME NEW v \in WordIds, v >= f.sz PROVE f.mask[v] = {}
      <4>1. CASE v >= e.sz
        BY <4>1, <2>1, <1>0 DEF WordIds
      <4>2. CASE v < e.sz
        <5>1. v = e.sz - 1 /\ ShiftLeft(e.mask[v]) = {}
          BY <4>2, <3>2, <2>3, <1>0 DEF WordIds
        <5>2. ~(v + 1 < e.sz)
          BY <5>1, <1>0
        <5> QED
          BY <5>1, <5>2, <4>2, <2>1 DEF Shifted
      <4> QED
        BY <4>1, <4>2, <1>0 DEF WordIds
    <3>3. ASSUME f.sz > 0 PROVE f.mask[f.sz - 1] # {}
      <4>1. CASE ShiftLeft(e.mask[e.sz - 1]) # {}
        <5>1. f.sz = e.sz /\ e.sz - 1 \in WordIds
          BY <4>1, <2>3, <2>4
        <5>2. f.mask[e.sz - 1] = Shifted(e, e.sz - 1) /\ ~((e.sz - 1) + 1 < e.sz)
          BY <5>1, <2>1, <1>0
        <5> QED
          BY <4>1, <5>1, <5>2 DEF Shifted
      <4>2. CASE ShiftLeft(e.mask[e.sz - 1]) = {}
        <5>1. f.sz = e.sz - 1 /\ f.sz - 1 \in WordIds /\ f.sz - 1 < e.sz
          BY <4>2, <2>3, <3>3, <1>0 DEF WordIds
        <5>2. 0 \in e.mask[f.sz]
          <6>1. e.mask[e.sz - 1] \in SUBSET Bits
            BY <2>4, <1>0
          <6>2. e.mask[e.sz - 1] = {0}
            BY <6>1, <4>2, <2>4, ShiftLeftBits
          <6> QED
            BY <6>2, <5>1
        <5>3. WordBits - 1 \in Shifted(e, f.sz - 1)
          <6>1. (f.sz - 1) + 1 = f.sz /\ f.sz < e.sz /\ WordBits - 1 \in Bits
            BY <5>1, <1>0 DEF Bits
          <6> QED
            BY <6>1, <5>1, <5>2, ShiftedBits
        <5> QED
          BY <5>1, <5>3, <2>1
      <4> QED
        BY <4>1, <4>2
    <3> QED
      BY <3>1, <3>2, <3>3 DEF WellFormed
  <2>6. ASSUME NEW d \in Nat \ {0}, d \in Announced(f.mask)
        PROVE  d + 1 \in Announced(e.mask)
    <3>1. PICK v \in WordIds, c \in Bits : c \in f.mask[v] /\ d = v * WordBits + c + 1
      BY <2>6, <2>2, AnnouncedBits
    <3>2. c \in Bits
      BY <3>1, <2>2
    <3>3. v < e.sz /\ c \in Shifted(e, v)
      BY <3>1, <2>1, <1>0 DEF WordIds
    <3>4. CASE c + 1 \in e.mask[v]
      <4>1. d + 1 = v * WordBits + (c + 1) + 1
        BY <3>1, <3>2, PlaceInt DEF Bits
      <4> QED
        BY <4>1, <3>4, <1>0, AnnouncedBits
    <3>5. CASE c = WordBits - 1 /\ v + 1 < e.sz /\ 0 \in e.mask[v + 1]
      <4>1. v + 1 \in WordIds
        BY <3>5, <1>0 DEF WordIds
      <4>2. d + 1 = (v + 1) * WordBits + 0 + 1
        BY <3>1, <3>5, PlaceInt
      <4> QED
        BY <4>1, <4>2, <3>5, <1>0, AnnouncedBits
    <3> QED
      BY <3>2, <3>3, <3>4, <3>5, ShiftedBits
  <2>7. ASSUME NEW d \in Nat \ {0}, d + 1 \in Announced(e.mask)
        PROVE  d \in Announced(f.mask)
    <3>1. PICK v \in WordIds, c \in Bits : c \in e.mask[v] /\ d + 1 = v * WordBits + c + 1
      BY <2>7, <1>0, AnnouncedBits
    <3>2. c \in Bits /\ v < e.sz
      BY <3>1, <1>0 DEF WordIds
    <3>3. CASE c # 0
      <4>1. c - 1 \in Bits /\ (c - 1) + 1 = c
        BY <3>2, <3>3 DEF Bits
      <4>2. c - 1 \in f.mask[v]
        BY <4>1, <3>1, <3>2, <2>1, ShiftedBits
      <4>3. d = v * WordBits + (c - 1) + 1
        BY <3>1, <3>2, PlaceInt DEF Bits
      <4> QED
        BY <4>2, <4>3, <2>2, AnnouncedBits
    <3>4. CASE c = 0
      <4>1. d = v * WordBits
        BY <3>1, <3>4, PlaceInt
      <4>2. v # 0
        <5>1. SUFFICES ASSUME v = 0 PROVE FALSE
          OBVIOUS
        <5>2. v * WordBits = 0
          BY <5>1
        <5> QED
          BY <5>2, <4>1
      <4>3. v - 1 \in WordIds /\ (v - 1) + 1 = v /\ v - 1 < e.sz
        BY <4>2, <3>2, <1>0 DEF WordIds
      <4>4. WordBits - 1 \in f.mask[v - 1]
        <5>1. WordBits - 1 \in Bits
          BY DEF Bits
        <5> QED
          BY <5>1, <4>3, <3>1, <3>2, <3>4, <2>1, ShiftedBits
      <4>5. d = (v - 1) * WordBits + (WordBits - 1) + 1
        BY <4>1, <4>3, PlaceInt
      <4> QED
        BY <4>3, <4>4, <4>5, <2>2, AnnouncedBits
    <3> QED
      BY <3>3, <3>4
  <2> QED
    BY <2>5, <2>6, <2>7 DEF f
<1> QED
  BY <1>1, <1>2

\* CopyExact: after ShiftRcvMsk the copy of the mask that goes into the header equals the mask
\* exactly if no empty word hid a non-empty one before it from the loop (ArdpProtocol.cc:1983).
THEOREM CopyExact ==
  ASSUME NEW e, WellFormed(e), e.htnMask = e.mask
  PROVE  ShiftRcvMsk(e).htnMask = ShiftRcvMsk(e).mask <=>
             \A w \in WordIds : w + 1 < e.sz /\ e.mask[w + 1] = {} => e.mask[w] = {}
<1>0. /\ e.mask \in [WordIds -> SUBSET Bits] /\ e.sz \in Nat
      /\ \A v \in WordIds : v >= e.sz => e.mask[v] = {}
      /\ WordIds \subseteq Int
  BY WordsType DEF WellFormed, WordIds
<1>1. CASE e.sz = 0
  <2>1. ShiftRcvMsk(e) = e
    BY <1>1 DEF ShiftRcvMsk
  <2> QED
    BY <2>1, <1>0, <1>1 DEF WordIds
<1>2. CASE e.sz # 0
  <2> DEFINE f == ShiftRcvMsk(e)
  <2>1. /\ f.mask = [w \in WordIds |-> IF w < e.sz THEN Shifted(e, w) ELSE e.mask[w]]
        /\ f.htnMask = [w \in WordIds |-> IF w \in Refreshed(e) THEN Shifted(e, w)
                                          ELSE e.mask[w]]
    BY <1>2, ShiftedWords
  <2> HIDE DEF f
  <2>2. \A w \in WordIds : w \in Refreshed(e) <=>
            w < e.sz /\ ~(w + 1 < e.sz /\ e.mask[w + 1] = {})
    BY <1>0 DEF Refreshed, WordIds
  <2>3. f.htnMask = f.mask <=>
            \A w \in WordIds : w + 1 < e.sz /\ e.mask[w + 1] = {} =>
                Shifted(e, w) = e.mask[w]
    <3>1. f.htnMask = f.mask <=> \A w \in WordIds : f.htnMask[w] = f.mask[w]
      BY <2>1
    <3>2. \A w \in WordIds : f.htnMask[w] = f.mask[w] <=>
              (w + 1 < e.sz /\ e.mask[w + 1] = {} => Shifted(e, w) = e.mask[w])
      <4> SUFFICES ASSUME NEW w \in WordIds
                   PROVE  f.htnMask[w] = f.mask[w] <=>
                          (w + 1 < e.sz /\ e.mask[w + 1] = {} => Shifted(e, w) = e.mask[w])
        OBVIOUS
      <4>1. /\ f.mask[w] = IF w < e.sz THEN Shifted(e, w) ELSE e.mask[w]
            /\ f.htnMask[w] = IF w \in Refreshed(e) THEN Shifted(e, w) ELSE e.mask[w]
        BY <2>1
      <4>2. w \in Int /\ (w + 1 < e.sz => w < e.sz)
        BY <1>0
      <4>3. CASE w < e.sz /\ w + 1 < e.sz /\ e.mask[w + 1] = {}
        BY <4>1, <4>3, <2>2
      <4>4. CASE w < e.sz /\ ~(w + 1 < e.sz /\ e.mask[w + 1] = {})
        BY <4>1, <4>4, <2>2
      <4>5. CASE ~(w < e.sz)
        BY <4>1, <4>2, <4>5, <2>2
      <4> QED
        BY <4>3, <4>4, <4>5
    <3> QED
      BY <3>1, <3>2
  <2>4. ASSUME NEW w \in WordIds, w + 1 < e.sz, e.mask[w + 1] = {}
        PROVE  Shifted(e, w) = e.mask[w] <=> e.mask[w] = {}
    <3>1. e.mask[w] \in SUBSET Bits
      BY <1>0
    <3>2. Shifted(e, w) = ShiftLeft(e.mask[w])
      BY <2>4 DEF Shifted
    <3>3. e.mask[w] # {} => ShiftLeft(e.mask[w]) # e.mask[w]
      BY <3>1, ShiftLeftChanges
    <3>4. e.mask[w] = {} => ShiftLeft(e.mask[w]) = {}
      BY DEF ShiftLeft
    <3> QED
      BY <3>2, <3>3, <3>4
  <2> QED
    BY <2>3, <2>4 DEF f
<1> QED
  BY <1>1, <1>2

\* With one or two mask words, that is up to 64 buffers, the copy is always exact.
LEMMA TwoWordsExact ==
  ASSUME Words <= 2, NEW e, WellFormed(e), e.htnMask = e.mask
  PROVE  ShiftRcvMsk(e).htnMask = ShiftRcvMsk(e).mask
<1>1. ASSUME NEW w \in WordIds, w + 1 < e.sz PROVE e.mask[w + 1] # {}
  <2>1. e.sz = 2 /\ w = 0
    BY <1>1, WordsType DEF WellFormed, WordIds
  <2> QED
    BY <2>1 DEF WellFormed
<1> QED
  BY <1>1, CopyExact

Half == SeqSpace \div 2

Layout(L) ==
  /\ L \in [Node -> [Nat -> Nat]]
  /\ \A n \in Node :
        LET total == L[n][Len(Msgs[n]) + 1]
        IN  /\ L[n][1] = 1
            /\ \A m \in DOMAIN Msgs[n] : L[n][m + 1] = L[n][m] + Msgs[n][m].fcnt
            /\ total + SegMax < Half
            /\ SeqSpace % SegMax = 0 \/ Iss[n] + total + SegMax < SeqSpace

Start == CHOOSE L : Layout(L)
First(n, m) == Start[n][m]

Pos(n, q) == Minus(q, Iss[n])
SeqAt(n, x) == Plus(Iss[n], x)
Slot(n, x) == Idx(SeqAt(n, x))

Flags == {"SYN", "ACK", "RST", "NUL", "EACK"}
Ttl == {"inf", "ttl", "expired"}
Data == {NoData} \cup (Nat \X Nat)
SndBuf == [inUse : BOOLEAN, seq : Seqs, som : Seqs, fcnt : 0 .. SegMax, ttl : Ttl,
           timer : BOOLEAN, msg : Nat]
RcvBuf == [seq : Seqs, inUse : BOOLEAN, delivered : BOOLEAN, som : Seqs, fcnt : 0 .. SegMax,
           ttl : Ttl, data : Data]
Eack == [mask : [WordIds -> SUBSET Bits], htnMask : [WordIds -> SUBSET Bits], sz : 0 .. Words]
Conn == [state : States, passive : BOOLEAN, local : Nat, foreign : Nat,
         NXT : Seqs, UNA : Seqs, LCS : Seqs, pending : 0 .. SegMax,
         sbuf : [Ring -> SndBuf], window : Seqs,
         CUR : Seqs, rLCS : Seqs, rbuf : [Ring -> RcvBuf], eack : Eack,
         conTimer : {"off", "connect", "disconnect"}, retry : 0 .. ConnectRetries + 1,
         reason : Reasons, ackTimer : BOOLEAN, persist : 0 .. PersistRetries,
         probe : 0 .. KeepaliveRetries]
Segs == [src : Nat, dst : Nat, flg : SUBSET Flags, seq : Seqs, ack : Seqs, lcs : Seqs,
        acknxt : Seqs, eack : [WordIds -> SUBSET Bits], data : Data, som : Seqs,
        fcnt : 0 .. SegMax, ttl : Ttl]
Statuses == Reasons \ {"none", "done"}

\* The record of what the upper layer of node n was told.
AppT(n, a) ==
  /\ a = [submitted |-> a.submitted, sendCb |-> a.sendCb, rcvd |-> a.rcvd, held |-> a.held,
          consumed |-> a.consumed, connectCb |-> a.connectCb, disconnectCb |-> a.disconnectCb]
  /\ a.submitted \in 0 .. Len(Msgs[n]) /\ a.consumed \in Nat
  /\ a.sendCb = [m \in DOMAIN Msgs[n] |-> a.sendCb[m]]
  /\ a.rcvd \in Seq(Seq(Nat \X Nat)) /\ a.held \in Seq(Ring)
  /\ a.connectCb \in Seq(Statuses) /\ a.disconnectCb \in Seq(Statuses)

Allowed == {"NXT - UNA < SEGMAX", "no timer on flushed buffer"}

\* A step state without the record it starts from.
Shape(s) ==
  s = [c |-> s.c, a |-> s.a, jam |-> s.jam, out |-> s.out, o |-> s.o, ok |-> s.ok,
       broken |-> s.broken]

StepT(n, s) ==
  /\ Shape(s)
  /\ s.c \in Conn /\ AppT(n, s.a) /\ s.jam \in BOOLEAN
  /\ s.out \in SUBSET Segs /\ IsFiniteSet(s.out)
  /\ s.o \in Outcome \ {"error"} /\ s.ok \in BOOLEAN
  /\ s.broken \subseteq Allowed

-----------------------------------------------------------------------------
(* The sender.                                                             *)

EndOf(n, a) == First(n, a.submitted + 1)

SndBufAt(n, b, x) ==
  /\ b.inUse /\ b.seq = SeqAt(n, x) /\ b.ttl = "inf"
  /\ b.msg \in 1 .. Len(Msgs[n]) /\ b.som = SeqAt(n, First(n, b.msg))
  /\ b.fcnt = Msgs[n][b.msg].fcnt
  /\ First(n, b.msg) <= x /\ x < First(n, b.msg + 1)

InUse(c) == {i \in Ring : c.sbuf[i].inUse}

\* The ring holds the segments of the positions P.
RingHolds(n, c, P) ==
  /\ \A x \in P : SndBufAt(n, c.sbuf[Slot(n, x)], x)
  /\ \A i \in Ring : c.sbuf[i].inUse => \E x \in P : i = Slot(n, x)
  /\ \A i \in Ring : c.sbuf[i].timer => c.sbuf[i].inUse
  /\ c.pending = Cardinality(InUse(c))

Reported == {<<"ok">>, <<"disconnecting">>}
CbAt(n, a, f) ==
  \A m \in 1 .. Len(Msgs[n]) :
      IF m < f THEN a.sendCb[m] \in Reported ELSE a.sendCb[m] = <<>>

\* NXT and the acknowledgements, when the messages before f are settled, those
\* before q + 1 consumed, and X is the next position.
SndNumbers(n, c, a, q, f, X) ==
  /\ c.NXT = SeqAt(n, X)
  /\ Pos(n, c.UNA) <= X
  /\ Pos(n, c.LCS) < X
  /\ Pos(n, c.LCS) < First(n, q + 1)
  /\ f <= a.submitted => Pos(n, c.LCS) < First(n, f + 1) - 1
  /\ X - First(n, f) <= SegMax
  /\ c.state = "OPEN" => f <= q + 1

SndAt(n, c, a, q, f) ==
  /\ RingHolds(n, c, First(n, f) .. EndOf(n, a) - 1)
  /\ SndNumbers(n, c, a, q, f, EndOf(n, a))
  /\ CbAt(n, a, f)

SndOK(n, c, a, q) == \E f \in 1 .. a.submitted + 1 : SndAt(n, c, a, q, f)

-----------------------------------------------------------------------------
(* The receiver; p is the sender, sub the number of messages submitted.     *)

FragsOf(p, m) == [k \in 1 .. Msgs[p][m].fcnt |-> <<m, k - 1>>]

RcvBufAt(p, b, x) ==
  /\ b.inUse /\ b.seq = SeqAt(p, x)
  /\ \E m \in 1 .. Len(Msgs[p]) :
        /\ b.data = <<m, x - First(p, m)>> /\ b.som = SeqAt(p, First(p, m))
        /\ b.fcnt = Msgs[p][m].fcnt
        /\ First(p, m) <= x /\ x < First(p, m + 1)

RcvApp(p, a, sub) ==
  /\ Len(a.rcvd) <= sub
  /\ a.rcvd = [k \in 1 .. Len(a.rcvd) |-> FragsOf(p, k)]
  /\ a.consumed <= Len(a.rcvd)
  /\ a.held = [k \in 1 .. Len(a.rcvd) - a.consumed |-> Slot(p, First(p, a.consumed + k))]

RcvHeld(p, c, a) ==
  LET W == First(p, a.consumed + 1) - 1
      D == First(p, Len(a.rcvd) + 1)
  IN  /\ D - 1 - W <= SegMax
      /\ \A x \in W + 1 .. D - 1 :
            LET b == c.rbuf[Slot(p, x)] IN b.delivered /\ RcvBufAt(p, b, x)

\* The open receiver that has everything up to C in order.
RcvAt(p, c, a, sub, C) ==
  LET r == Len(a.rcvd)
      W == First(p, a.consumed + 1) - 1
      D == First(p, r + 1)
  IN  /\ Pos(p, c.rLCS) = W
      /\ D - 1 <= C /\ C <= W + SegMax
      /\ IF r < sub THEN C < First(p, r + 2) - 1 ELSE C = D - 1
      /\ \A x \in W + 1 .. W + SegMax :
            LET b == c.rbuf[Slot(p, x)]
            IN  /\ x < D <=> b.delivered
                /\ x <= C => b.inUse
                /\ b.inUse => RcvBufAt(p, b, x) /\ x < First(p, sub + 1)
      /\ \A i \in Ring : c.rbuf[i].ttl = "inf"
      /\ WellFormed(c.eack)
      /\ Words <= 2 => c.eack.htnMask = c.eack.mask
      /\ \A d \in Nat \ {0} : d \in Announced(c.eack.mask) <=>
              C + 1 + d <= W + SegMax /\ c.rbuf[Slot(p, C + 1 + d)].inUse

-----------------------------------------------------------------------------
(* A node: its connection c and upper layer a, and those of its peer, r, b. *)

Est(n, c) == c.UNA # Iss[n]
Closed(c) == c.state \in {"CLOSE_WAIT", "CLOSED"}
Knows(n, c) == c # NoConn /\ (n = "B" \/ Est(n, c))

Ctl(n, c, a) ==
  /\ c.local = 1
  /\ c.passive = (n = "B")
  /\ c.state \in (IF n = "A" THEN {"SYN_SENT"} ELSE {"SYN_RCVD"}) \cup {"OPEN", "CLOSE_WAIT", "CLOSED"}
  /\ c.state \in {"SYN_SENT", "SYN_RCVD"} => ~Est(n, c) /\ c.eack = NoEack
  /\ c.state = "OPEN" => Est(n, c) /\ c.reason = "none" /\ c.conTimer = "off"
  /\ n = "A" /\ ~Est(n, c) => c.foreign = 0
  /\ n = "B" \/ Est(n, c) => c.foreign = 1
  /\ ~Est(n, c) => a.submitted = 0 /\ a.rcvd = <<>>
  /\ n = "B" /\ ~Est(n, c) => c.CUR = Iss["A"] /\ c.rLCS = Iss["A"]
  /\ c.conTimer = "connect" => c.state \in {"SYN_SENT", "SYN_RCVD"}
  /\ c.conTimer = "disconnect" => Closed(c)
  /\ Closed(c) /\ c.conTimer = "off" => ~Est(n, c)
  /\ c.reason \in {"none", "ok"} => a.disconnectCb = <<>>
  /\ c.reason # "none" => Closed(c)
  /\ c.reason \notin {"none", "ok"} => c.pending = 0

RcvOK(n, c, a, sub) ==
  LET p == Peer(n)
  IN  /\ RcvHeld(p, c, a)
      /\ n = "B" \/ Est(n, c) =>
            /\ Pos(p, c.rLCS) <= Pos(p, c.CUR)
            /\ Pos(p, c.CUR) < First(p, sub + 1)
            /\ Pos(p, c.rLCS) < First(p, a.consumed + 1)
      /\ c.state = "OPEN" =>
            /\ RcvAt(p, c, a, sub, Pos(p, c.CUR))
            /\ Pos(p, c.CUR) < Pos(p, c.rLCS) + SegMax =>
                  ~c.rbuf[Slot(p, Pos(p, c.CUR) + 1)].inUse

AppOK(n, a, b) ==
  /\ RcvApp(Peer(n), a, b.submitted)
  /\ \E f \in 1 .. a.submitted + 1 : CbAt(n, a, f)
  /\ a.disconnectCb # <<>> => \A m \in 1 .. a.submitted : a.sendCb[m] # <<>>
  /\ EndOf(n, a) <= First(n, b.consumed + 1) + SegMax

ConnOK(n, c, a, r, b) ==
  /\ Ctl(n, c, a)
  /\ SndOK(n, c, a, b.consumed)
  /\ RcvOK(n, c, a, b.submitted)
  /\ Knows(Peer(n), r) => Pos(n, c.UNA) <= Pos(n, r.CUR) + 1

NodeOK(n, c, a, r, b) ==
  /\ AppOK(n, a, b)
  /\ IF c = NoConn THEN a.held = <<>> ELSE ConnOK(n, c, a, r, b)

-----------------------------------------------------------------------------
(* Segments from node n.                                                    *)

IsRst(seg) == seg.flg = {"RST"}
IsSyn(n, seg) ==
  /\ seg.flg = (IF n = "A" THEN {"SYN"} ELSE {"SYN", "ACK"})
  /\ seg.src = 1 /\ seg.seq = Iss[n] /\ seg.data = NoData
  /\ n = "A" => seg.dst = 0
  /\ n = "B" => seg.ack = Iss["A"]
Normal(seg) == {"RST", "SYN"} \cap seg.flg = {}
DataOK(n, seg, X) ==
  /\ Pos(n, seg.seq) < X
  /\ seg.ttl = "inf"
  /\ \E m \in 1 .. Len(Msgs[n]) :
        /\ seg.data = <<m, Pos(n, seg.seq) - First(n, m)>>
        /\ seg.som = SeqAt(n, First(n, m)) /\ seg.fcnt = Msgs[n][m].fcnt
        /\ First(n, m) <= Pos(n, seg.seq) /\ Pos(n, seg.seq) < First(n, m + 1)
IsNormal(n, seg, c, a, r, b) ==
  LET p == Peer(n)
  IN  /\ Normal(seg) /\ seg.src = 1 /\ seg.dst = 1
      /\ Pos(n, seg.seq) \in 1 .. EndOf(n, a)
      /\ seg.data # NoData => DataOK(n, seg, EndOf(n, a))
      /\ Pos(p, seg.lcs) <= Pos(p, seg.ack) /\ Pos(p, seg.ack) < EndOf(p, b)
      /\ Pos(p, seg.lcs) < First(p, a.consumed + 1)
      /\ c # NoConn => Pos(p, seg.ack) <= Pos(p, c.CUR)
      /\ Pos(n, seg.acknxt) <= EndOf(n, a)
      /\ Knows(p, r) => Pos(n, seg.acknxt) <= Pos(n, r.CUR) + 1
SegOK(n, seg, c, a, r, b) == IsRst(seg) \/ IsSyn(n, seg) \/ IsNormal(n, seg, c, a, r, b)

-----------------------------------------------------------------------------
(* The invariant.                                                           *)

NotOpened == records["A"] = 0 \/ (conn["A"] # NoConn /\ ~Est("A", conn["A"]))

Types ==
  /\ conn = [n \in Node |-> conn[n]] /\ \A n \in Node : conn[n] # NoConn => conn[n] \in Conn
  /\ app = [n \in Node |-> app[n]] /\ \A n \in Node : AppT(n, app[n])
  /\ jam \in [Node -> BOOLEAN]
  /\ net = [n \in Node |-> net[n]]
  /\ \A n \in Node : net[n] \subseteq Segs /\ IsFiniteSet(net[n]) /\ Cardinality(net[n]) <= NetMax[n]
  /\ records \in [Node -> {0, 1}]
  /\ broken \subseteq Allowed

Nodes == \A n \in Node : NodeOK(n, conn[n], app[n], conn[Peer(n)], app[Peer(n)])
Nets == \A n \in Node : \A seg \in net[Peer(n)] :
            SegOK(n, seg, conn[n], app[n], conn[Peer(n)], app[Peer(n)])
Record == \A n \in Node :
            /\ conn[n] # NoConn => records[n] = 1
            /\ records[n] = 0 => app[n].submitted = 0 /\ app[n].rcvd = <<>> /\ app[n].disconnectCb = <<>>
Phase ==
  /\ NotOpened => /\ app["A"].submitted = 0 /\ app["B"].submitted = 0
                  /\ conn["B"] # NoConn => ~Est("B", conn["B"])
                  /\ \A n \in Node : \A seg \in net[n] : ~Normal(seg)
  /\ records["B"] = 0 => /\ app["A"].submitted = 0 /\ app["B"].submitted = 0
                         /\ conn["A"] # NoConn => ~Est("A", conn["A"])
                         /\ \A seg \in net["A"] : IsRst(seg)
                         /\ \A seg \in net["B"] : ~Normal(seg)

ArdpInv == Types /\ Nodes /\ Nets /\ Record /\ Phase

-----------------------------------------------------------------------------
(* What a handler of node n may do to c and a.                              *)

Core(c, d) ==
  /\ c.state = d.state /\ c.passive = d.passive /\ c.local = d.local /\ c.foreign = d.foreign
  /\ c.NXT = d.NXT /\ c.UNA = d.UNA /\ c.LCS = d.LCS /\ c.pending = d.pending
  /\ c.sbuf = d.sbuf
  /\ c.CUR = d.CUR /\ c.rLCS = d.rLCS /\ c.rbuf = d.rbuf /\ c.eack = d.eack
  /\ c.conTimer = d.conTimer /\ c.reason = d.reason

\* The settled messages of n: reported now, as sent only if consumed.
CbMoves(n, a, e, q) ==
  \A m \in 1 .. Len(Msgs[n]) :
      \/ e.sendCb[m] = a.sendCb[m]
      \/ /\ a.sendCb[m] = <<>>
         /\ e.sendCb[m] = <<"disconnecting">> \/ (e.sendCb[m] = <<"ok">> /\ m <= q)

Moves(n, c, a, d, e, q) ==
  /\ e.submitted = a.submitted /\ e.consumed = a.consumed
  /\ Len(a.rcvd) <= Len(e.rcvd)
  /\ CbMoves(n, a, e, q)
  /\ Est(n, c) => Est(n, d)
  /\ Knows(n, c) => Pos(Peer(n), c.CUR) <= Pos(Peer(n), d.CUR)
  /\ a.disconnectCb # <<>> =>
        e.rcvd = a.rcvd /\ e.sendCb = a.sendCb /\ e.disconnectCb = a.disconnectCb

\* Nothing but the ring of send buffers differs.
Beside(c, d) ==
  /\ c.state = d.state /\ c.passive = d.passive /\ c.local = d.local /\ c.foreign = d.foreign
  /\ c.NXT = d.NXT /\ c.UNA = d.UNA /\ c.LCS = d.LCS
  /\ c.CUR = d.CUR /\ c.rLCS = d.rLCS /\ c.rbuf = d.rbuf /\ c.eack = d.eack
  /\ c.conTimer = d.conTimer /\ c.reason = d.reason

\* Nothing but sendCb differs, which is that of x.
SettledApp(a, e, x) ==
  /\ e.submitted = a.submitted /\ e.sendCb = x /\ e.rcvd = a.rcvd /\ e.held = a.held
  /\ e.consumed = a.consumed /\ e.connectCb = a.connectCb /\ e.disconnectCb = a.disconnectCb

\* Nothing but connectCb differs.
SameApp(a, e) ==
  /\ e.submitted = a.submitted /\ e.sendCb = a.sendCb /\ e.rcvd = a.rcvd /\ e.held = a.held
  /\ e.consumed = a.consumed /\ e.disconnectCb = a.disconnectCb

PeerT(n, r, b) == (r = NoConn \/ r \in Conn) /\ AppT(Peer(n), b)

Good(n, s, r, b) ==
  /\ StepT(n, s) /\ PeerT(n, r, b)
  /\ AppOK(n, s.a, b) /\ ConnOK(n, s.c, s.a, r, b)
  /\ \A seg \in s.out : SegOK(n, seg, s.c, s.a, r, b)

\* The positions of the messages R.
Posns(n, R) ==
  {x \in 0 .. First(n, Len(Msgs[n]) + 1) : \E m \in R : First(n, m) <= x /\ x < First(n, m + 1)}

CbLoose(n, a, f, F) ==
  \A m \in 1 .. Len(Msgs[n]) :
      IF m < f THEN a.sendCb[m] \in Reported
      ELSE IF m \in F THEN a.sendCb[m] = <<"ok">>
      ELSE a.sendCb[m] = <<>>

\* Some messages after the first unsettled one are settled: in the middle of
\* UpdateSndSegments.
LooseAt(n, c, a, q, f, F) ==
  /\ F \subseteq f .. a.submitted /\ F \subseteq 1 .. q
  /\ RingHolds(n, c, Posns(n, (f .. a.submitted) \ F))
  /\ SndNumbers(n, c, a, q, f, EndOf(n, a))
  /\ CbLoose(n, a, f, F)

Loose(n, s, r, b) ==
  /\ StepT(n, s) /\ PeerT(n, r, b)
  /\ RcvApp(Peer(n), s.a, b.submitted)
  /\ s.a.disconnectCb = <<>>
  /\ EndOf(n, s.a) <= First(n, b.consumed + 1) + SegMax
  /\ Ctl(n, s.c, s.a)
  /\ \E f \in 1 .. s.a.submitted + 1 : \E F : LooseAt(n, s.c, s.a, b.consumed, f, F)
  /\ RcvOK(n, s.c, s.a, b.submitted)
  /\ Knows(Peer(n), r) => Pos(n, s.c.UNA) <= Pos(n, r.CUR) + 1
  /\ \A seg \in s.out : SegOK(n, seg, s.c, s.a, r, b)

\* g is a segment of the connection c that carries what buffer b holds.
DataSeg(g, c, b) ==
  /\ g \in Segs /\ {"RST", "SYN"} \cap g.flg = {}
  /\ g.src = c.local /\ g.dst = c.foreign /\ g.ack = c.CUR /\ g.lcs = c.rLCS /\ g.acknxt = c.UNA
  /\ g.seq = b.seq /\ g.data = <<b.msg, Minus(b.seq, b.som)>>
  /\ g.som = b.som /\ g.fcnt = b.fcnt /\ g.ttl = b.ttl

\* What the loop of SendData leaves alone.
Filling(c, d) ==
  /\ d.state = c.state /\ d.passive = c.passive /\ d.local = c.local /\ d.foreign = c.foreign
  /\ d.UNA = c.UNA /\ d.LCS = c.LCS
  /\ d.CUR = c.CUR /\ d.rLCS = c.rLCS /\ d.rbuf = c.rbuf /\ d.eack = c.eack
  /\ d.conTimer = c.conTimer /\ d.reason = c.reason

\* b is the buffer for position x, which is in message m.
Fragment(n, b, m, x) ==
  /\ b.seq = SeqAt(n, x) /\ b.som = SeqAt(n, First(n, m)) /\ b.fcnt = Msgs[n][m].fcnt
  /\ b.ttl = "inf" /\ b.msg = m

\* SendData, begun in s, has put k fragments of message m into the ring.
Sending(n, s, t, f, m, k) ==
  /\ StepT(n, t) /\ t.ok /\ t.a = s.a /\ Filling(s.c, t.c)
  /\ t.c.NXT = SeqAt(n, First(n, m) + k)
  /\ RingHolds(n, t.c, First(n, f) .. (First(n, m) + k) - 1)
  /\ \A g \in t.out : \E b : \E x \in First(n, m) .. (First(n, m) + k) - 1 :
        DataSeg(g, s.c, b) /\ Fragment(n, b, m, x)

Reliable == \A n \in Node : \A m \in 1 .. Len(Msgs[n]) : Msgs[n][m].ttl = "inf"

\* The messages have places in the sequence space: a first number each, and less than half of
\* the space in all; the sequence number counter wraps only if SegMax divides the space,
\* since the buffer of a number is its remainder (ArdpProtocol.cc:1588).
Fits == \E L : Layout(L)
Count(n) == Len(Msgs[n])
Total(n) == First(n, Count(n) + 1)

\* The layout that Start stands for.
LEMMA StartIs ==
  ASSUME Fits
  PROVE  Layout(Start)
  BY Zenon DEF Fits, Start

\* The positions of the messages of a node.
LEMMA FirstIs ==
  ASSUME Fits, NEW n \in Node
  PROVE  /\ Count(n) \in Nat
         /\ DOMAIN Msgs[n] = 1 .. Count(n)
         /\ \A m \in Nat : First(n, m) \in Nat
         /\ First(n, 1) = 1
         /\ \A m \in 1 .. Count(n) :
               /\ Msgs[n][m].fcnt \in 1 .. SegMax
               /\ First(n, m + 1) = First(n, m) + Msgs[n][m].fcnt
         /\ Total(n) \in Nat
         /\ Total(n) + SegMax < Half
         /\ SeqSpace % SegMax = 0 \/ Iss[n] + Total(n) + SegMax < SeqSpace
         /\ Half \in Nat /\ Half + Half = SeqSpace
         /\ Iss[n] \in Seqs
<1>1. Layout(Start)
  BY StartIs
<1>2. Msgs[n] \in Seq([fcnt : 1 .. SegMax, ttl : {"inf", "ttl"}])
  BY MsgsAssumption
<1>3. Count(n) \in Nat /\ DOMAIN Msgs[n] = 1 .. Count(n)
  BY <1>2 DEF Count
<1>4. Start[n] \in [Nat -> Nat]
  BY <1>1 DEF Layout
<1>5. \A m \in Nat : First(n, m) \in Nat
  BY <1>4 DEF First
<1>6. ASSUME NEW m \in 1 .. Count(n)
      PROVE  /\ Msgs[n][m].fcnt \in 1 .. SegMax
             /\ First(n, m + 1) = First(n, m) + Msgs[n][m].fcnt
  <2>1. Msgs[n][m] \in [fcnt : 1 .. SegMax, ttl : {"inf", "ttl"}]
    <3>1. m \in 1 .. Len(Msgs[n])
      BY <1>6 DEF Count
    <3> QED
      BY <3>1, <1>2, ElementOfSeq
  <2> QED
    BY <2>1, <1>1, <1>3, <1>6 DEF Layout, First
<1>7. Total(n) \in Nat
  BY <1>3, <1>5 DEF Total
<1>8. First(n, 1) = 1 /\ Total(n) + SegMax < Half
      /\ (SeqSpace % SegMax = 0 \/ Iss[n] + Total(n) + SegMax < SeqSpace)
  BY <1>1 DEF Layout, First, Total, Count
<1>9. Half \in Nat /\ Half + Half = SeqSpace
  <2>1. SeqSpace = (SeqSpace \div 2) * 2 + (SeqSpace % 2) /\ SeqSpace \div 2 \in Nat
    BY DivMod
  <2> QED
    BY <2>1 DEF Half
<1> QED
  BY <1>3, <1>5, <1>6, <1>7, <1>8, <1>9, IssAssumption

\* Messages lie one behind the other.
LEMMA FirstMono ==
  ASSUME Fits, NEW n \in Node, NEW i \in 1 .. Count(n) + 1, NEW j \in 1 .. Count(n) + 1, i <= j
  PROVE  /\ First(n, i) \in Nat /\ First(n, j) \in Nat
         /\ First(n, i) >= 1 /\ First(n, j) <= Total(n)
         /\ First(n, i) + (j - i) <= First(n, j)
<1>1. /\ Count(n) \in Nat /\ First(n, 1) = 1
      /\ \A m \in Nat : First(n, m) \in Nat
      /\ \A m \in 1 .. Count(n) : First(n, m + 1) >= First(n, m) + 1
  <2>1. /\ Count(n) \in Nat /\ First(n, 1) = 1
        /\ \A m \in Nat : First(n, m) \in Nat
    BY FirstIs
  <2>2. ASSUME NEW m \in 1 .. Count(n) PROVE First(n, m + 1) >= First(n, m) + 1
    <3>1. Msgs[n][m].fcnt \in 1 .. SegMax /\ First(n, m + 1) = First(n, m) + Msgs[n][m].fcnt
      BY FirstIs
    <3> HIDE DEF First
    <3>2. PICK k \in 1 .. SegMax : k = Msgs[n][m].fcnt
      BY <3>1
    <3>3. m \in Nat /\ First(n, m) \in Nat
      BY <2>1
    <3> QED
      BY <3>1, <3>2, <3>3
  <2> QED
    BY <2>1, <2>2
<1>2. ASSUME NEW a \in 1 .. Count(n) + 1, NEW b \in 1 .. Count(n) + 1, a <= b
      PROVE  First(n, a) + (b - a) <= First(n, b)
  <2> DEFINE Bad == {k \in Nat : a + k <= Count(n) + 1 /\ ~(First(n, a) + k <= First(n, a + k))}
  <2>1. SUFFICES ASSUME ~(First(n, a) + (b - a) <= First(n, b)) PROVE FALSE
    OBVIOUS
  <2>2. b - a \in Bad
    <3>1. b - a \in Nat /\ a + (b - a) = b
      BY <1>2, <1>1
    <3> QED
      BY <3>1, <2>1, <1>1
  <2>3. PICK k \in Bad : \A l \in Bad : k <= l
    BY <2>2, SmallestNat
  <2>4. k # 0
    BY <1>1
  <2>5. k - 1 \in Nat /\ k - 1 \notin Bad
    BY <2>3, <2>4
  <2>6. First(n, a) + (k - 1) <= First(n, a + (k - 1))
    BY <2>5, <2>3, <1>1
  <2>7. a + (k - 1) \in 1 .. Count(n) /\ (a + (k - 1)) + 1 = a + k
    BY <2>3, <2>4, <1>1
  <2>8. /\ First(n, a + k) >= First(n, a + (k - 1)) + 1
        /\ First(n, a + k) \in Nat /\ First(n, a + (k - 1)) \in Nat /\ First(n, a) \in Nat
    BY <2>7, <1>1
  <2> QED
    BY <2>6, <2>8, <2>3
<1>3. First(n, i) \in Nat /\ First(n, j) \in Nat /\ Total(n) \in Nat
  BY <1>1 DEF Total
<1>4. First(n, i) + (j - i) <= First(n, j)
  BY <1>2
<1>5. First(n, 1) + (i - 1) <= First(n, i)
  BY <1>2, <1>1
<1>6. First(n, j) + ((Count(n) + 1) - j) <= First(n, Count(n) + 1)
  BY <1>2, <1>1
<1> QED
  BY <1>1, <1>3, <1>4, <1>5, <1>6 DEF Total

\* The fragments of message m.
LEMMA Message ==
  ASSUME Fits, NEW n \in Node, NEW m \in 1 .. Count(n)
  PROVE  /\ First(n, m) \in Nat \ {0}
         /\ Msgs[n][m].fcnt \in 1 .. SegMax
         /\ First(n, m + 1) = First(n, m) + Msgs[n][m].fcnt
         /\ First(n, m + 1) <= Total(n)
<1>1. Count(n) \in Nat /\ m + 1 \in 1 .. Count(n) + 1 /\ m \in 1 .. Count(n) + 1 /\ m <= m + 1
  <2>1. Count(n) \in Nat
    BY FirstIs
  <2> QED
    BY <2>1
<1>2. /\ First(n, m) \in Nat /\ First(n, m) >= 1 /\ First(n, m + 1) <= Total(n)
  BY <1>1, FirstMono
<1> QED
  BY <1>2, FirstIs

\* A position belongs to one message only.
LEMMA OneMessage ==
  ASSUME Fits, NEW n \in Node, NEW i \in 1 .. Count(n), NEW j \in 1 .. Count(n), NEW x \in Int,
         First(n, i) <= x, x < First(n, i + 1), First(n, j) <= x, x < First(n, j + 1)
  PROVE  i = j
<1>0. Count(n) \in Nat
  BY FirstIs
<1>1. ASSUME i < j PROVE FALSE
  <2>1. i + 1 \in 1 .. Count(n) + 1 /\ j \in 1 .. Count(n) + 1 /\ i + 1 <= j
    BY <1>0, <1>1
  <2>2. First(n, i + 1) \in Nat /\ First(n, j) \in Nat /\ First(n, i + 1) <= First(n, j)
    BY <2>1, FirstMono
  <2> QED
    BY <2>2
<1>2. ASSUME j < i PROVE FALSE
  <2>1. j + 1 \in 1 .. Count(n) + 1 /\ i \in 1 .. Count(n) + 1 /\ j + 1 <= i
    BY <1>0, <1>2
  <2>2. First(n, j + 1) \in Nat /\ First(n, i) \in Nat /\ First(n, j + 1) <= First(n, i)
    BY <2>1, FirstMono
  <2> QED
    BY <2>2
<1> QED
  BY <1>0, <1>1, <1>2

\* Sequence numbers and positions.
LEMMA PosOf ==
  ASSUME Fits, NEW n \in Node, NEW q \in Seqs
  PROVE  /\ Pos(n, q) \in 0 .. SeqSpace - 1
         /\ SeqAt(n, Pos(n, q)) = q
<1>1. Iss[n] \in Seqs
  BY IssAssumption
<1> QED
  BY <1>1 DEF Pos, SeqAt, Plus, Minus, Seqs

\* A position is that of its own number.
LEMMA AtPos ==
  ASSUME Fits, NEW n \in Node, NEW x \in 0 .. SeqSpace - 1
  PROVE  /\ SeqAt(n, x) \in Seqs
         /\ Pos(n, SeqAt(n, x)) = x
<1>1. Iss[n] \in Seqs
  BY IssAssumption
<1> QED
  BY <1>1 DEF Pos, SeqAt, Plus, Minus, Seqs

\* A number k further on has a position k further on.
LEMMA PosPlus ==
  ASSUME Fits, NEW n \in Node, NEW q \in Seqs, NEW k \in Nat, Pos(n, q) + k < SeqSpace
  PROVE  /\ Plus(q, k) \in Seqs
         /\ Pos(n, Plus(q, k)) = Pos(n, q) + k
<1>1. Iss[n] \in Seqs
  BY IssAssumption
<1> QED
  BY <1>1 DEF Pos, Plus, Minus, Seqs

\* A difference of two numbers is that of their positions.
LEMMA PosMinus ==
  ASSUME Fits, NEW n \in Node, NEW q \in Seqs, NEW r \in Seqs
  PROVE  /\ Minus(q, r) \in Seqs
         /\ Minus(q, r) = IF Pos(n, q) >= Pos(n, r) THEN Pos(n, q) - Pos(n, r)
                          ELSE (Pos(n, q) + SeqSpace) - Pos(n, r)
<1>1. Iss[n] \in Seqs
  BY IssAssumption
<1> QED
  BY <1>1 DEF Pos, Minus, Seqs

\* A number k before has a position k before.
LEMMA PosBefore ==
  ASSUME Fits, NEW n \in Node, NEW q \in Seqs, NEW k \in Nat, k <= Pos(n, q)
  PROVE  /\ Minus(q, k) \in Seqs
         /\ Pos(n, Minus(q, k)) = Pos(n, q) - k
<1>1. Iss[n] \in Seqs
  BY IssAssumption
<1> QED
  BY <1>1 DEF Pos, Minus, Seqs

\* Two numbers of the stream compare as their positions do.
LEMMA PosLT ==
  ASSUME Fits, NEW n \in Node, NEW q \in Seqs, NEW r \in Seqs, Pos(n, q) < Half, Pos(n, r) < Half
  PROVE  SEQ32_LT(q, r) <=> Pos(n, q) < Pos(n, r)
<1>1. Iss[n] \in Seqs
  BY IssAssumption
<1> QED
  BY <1>1, OrderExact DEF Pos, Half

\* Numbers with one position are equal.
LEMMA PosEq ==
  ASSUME Fits, NEW n \in Node, NEW q \in Seqs, NEW r \in Seqs
  PROVE  Pos(n, q) = Pos(n, r) <=> q = r
<1>1. Iss[n] \in Seqs
  BY IssAssumption
<1> QED
  BY <1>1 DEF Pos, Minus, Seqs

\* A remainder is unique.
LEMMA ModUnique ==
  ASSUME NEW M \in Nat \ {0}, NEW i \in Int, NEW j \in Int,
         NEW r \in 0 .. M - 1, NEW t \in 0 .. M - 1, i * M + r = j * M + t
  PROVE  r = t
<1>1. PICK u \in Int, v \in Int : u = i * M /\ v = j * M
  BY SMTT(30)
<1>2. u + r = v + t
  BY <1>1
<1>3. u - v < M /\ v - u < M
  BY <1>2
<1>4. i * M - j * M < M /\ j * M - i * M < M
  BY <1>1, <1>3
<1>5. i = j
  BY <1>4, MultiplesApart
<1>6. u = v
  BY <1>5, <1>1
<1> QED
  BY <1>2, <1>6

\* Quotient and remainder, without naming the division.
LEMMA Quotient ==
  ASSUME NEW M \in Nat \ {0}, NEW a \in Nat
  PROVE  \E i \in Nat : a = i * M + (a % M) /\ a % M \in 0 .. M - 1
  BY DivMod

\* Products with a sum.
LEMMA ProductSum ==
  ASSUME NEW M \in Nat, NEW i \in Int, NEW j \in Int
  PROVE  i * M \in Int /\ j * M \in Int /\ (i + j) * M = i * M + j * M
  BY SMTT(30)

\* Taking the remainder before the sum changes nothing, nor do multiples.
LEMMA ModSum ==
  ASSUME NEW M \in Nat \ {0}, NEW a \in Nat, NEW k \in Nat
  PROVE  /\ ((a % M) + k) % M = (a + k) % M
         /\ (a + k) % M \in 0 .. M - 1
<1>1. PICK i \in Nat : a = i * M + (a % M) /\ a % M \in 0 .. M - 1
  BY Quotient
<1>2. PICK b \in Nat, c \in Nat : b = (a % M) + k /\ c = a + k
  BY <1>1
<1>3. PICK j \in Nat : b = j * M + (b % M) /\ b % M \in 0 .. M - 1
  BY Quotient
<1>4. PICK l \in Nat : c = l * M + (c % M) /\ c % M \in 0 .. M - 1
  BY Quotient
<1>5. /\ i * M \in Int /\ j * M \in Int /\ (i + j) * M = i * M + j * M
      /\ l * M \in Int
  BY ProductSum
<1>6. PICK u \in Int, v \in Int, w \in Int : u = i * M /\ v = j * M /\ w = l * M
  BY <1>5
<1>7. PICK ra \in 0 .. M - 1, rb \in 0 .. M - 1, rc \in 0 .. M - 1 :
         ra = a % M /\ rb = b % M /\ rc = c % M
  BY <1>1, <1>3, <1>4
<1>8. a = u + ra /\ b = v + rb /\ c = w + rc /\ b = ra + k /\ c = a + k
  BY <1>1, <1>2, <1>3, <1>4, <1>6, <1>7
<1>9. (u + v) + rb = w + rc
  BY <1>8
<1>10. (i + j) * M + rb = l * M + rc
  BY <1>5, <1>6, <1>9
<1>11. rb = rc
  <2>1. i + j \in Int /\ l \in Int
    OBVIOUS
  <2> QED
    BY <2>1, <1>10, ModUnique
<1> QED
  BY <1>11, <1>2, <1>7

\* A multiple of M does not change the remainder.
LEMMA ModMultiple ==
  ASSUME NEW M \in Nat \ {0}, NEW a \in Nat, NEW s \in Nat, s % M = 0, s <= a
  PROVE  (a - s) % M = a % M
<1>1. PICK d \in Nat : d = a - s /\ d + s = a
  OBVIOUS
<1>2. PICK i \in Nat : a = i * M + (a % M) /\ a % M \in 0 .. M - 1
  BY Quotient
<1>3. PICK j \in Nat : s = j * M + (s % M)
  BY Quotient
<1>4. PICK l \in Nat : d = l * M + (d % M) /\ d % M \in 0 .. M - 1
  BY Quotient
<1>5. /\ l * M \in Int /\ j * M \in Int /\ (l + j) * M = l * M + j * M
      /\ i * M \in Int
  BY ProductSum
<1>6. PICK u \in Int, v \in Int, w \in Int : u = i * M /\ v = j * M /\ w = l * M
  BY <1>5
<1>7. PICK ra \in 0 .. M - 1, rd \in 0 .. M - 1 : ra = a % M /\ rd = d % M
  BY <1>2, <1>4
<1>8. a = u + ra /\ s = v + 0 /\ d = w + rd
  BY <1>2, <1>3, <1>4, <1>6, <1>7
<1>9. (w + v) + rd = u + ra
  BY <1>1, <1>8
<1>10. (l + j) * M + rd = i * M + ra
  BY <1>5, <1>6, <1>9
<1>11. rd = ra
  <2>1. l + j \in Int /\ i \in Int
    OBVIOUS
  <2> QED
    BY <2>1, <1>10, ModUnique
<1> QED
  BY <1>11, <1>1, <1>7

\* The buffer of a position.
LEMMA SlotIs ==
  ASSUME Fits, NEW n \in Node, NEW x \in 0 .. Total(n) + SegMax
  PROVE  /\ Slot(n, x) = (Iss[n] + x) % SegMax
         /\ Slot(n, x) \in Ring
         /\ Iss[n] + x \in Nat
<1>0. /\ Total(n) \in Nat /\ Total(n) + SegMax < Half /\ Half \in Nat /\ Half + Half = SeqSpace
      /\ SeqSpace % SegMax = 0 \/ Iss[n] + Total(n) + SegMax < SeqSpace
      /\ Iss[n] \in Seqs
  BY FirstIs
<1>1. Iss[n] + x \in Nat
  BY <1>0 DEF Seqs
<1>2. (Iss[n] + x) % SegMax \in Ring
  BY <1>1, Quotient DEF Ring
<1>3. CASE Iss[n] + x < SeqSpace
  <2>1. SeqAt(n, x) = Iss[n] + x
    BY <1>3 DEF SeqAt, Plus
  <2>2. Slot(n, x) = (Iss[n] + x) % SegMax
    BY <2>1, Zenon DEF Slot, Idx
  <2> QED
    BY <1>1, <1>2, <2>2
<1>4. CASE ~(Iss[n] + x < SeqSpace)
  <2>1. SeqSpace % SegMax = 0
    BY <1>0, <1>4 DEF Seqs
  <2>2. SeqSpace \in Nat /\ SeqSpace <= Iss[n] + x
    BY <1>4, <1>1
  <2>3. ((Iss[n] + x) - SeqSpace) % SegMax = (Iss[n] + x) % SegMax
    BY <2>1, <2>2, <1>1, ModMultiple
  <2>4. SeqAt(n, x) = (Iss[n] + x) - SeqSpace
    BY <1>0, <1>1, <1>4 DEF SeqAt, Plus, Seqs
  <2>5. Slot(n, x) = (Iss[n] + x) % SegMax
    BY <2>3, <2>4, Zenon DEF Slot, Idx
  <2> QED
    BY <1>1, <1>2, <2>5
<1> QED
  BY <1>3, <1>4

\* The buffers that follow one another by their next pointers.
LEMMA SlotNext ==
  ASSUME Fits, NEW n \in Node, NEW x \in Nat, NEW k \in Nat, x + k <= Total(n) + SegMax
  PROVE  (Slot(n, x) + k) % SegMax = Slot(n, x + k)
<1>0. Total(n) \in Nat
  BY FirstIs
<1>1. /\ Slot(n, x) = (Iss[n] + x) % SegMax /\ Iss[n] + x \in Nat
  BY <1>0, SlotIs
<1>2. Slot(n, x + k) = (Iss[n] + (x + k)) % SegMax
  BY <1>0, SlotIs
<1>3. (((Iss[n] + x) % SegMax) + k) % SegMax = ((Iss[n] + x) + k) % SegMax
  BY <1>1, ModSum
<1>4. (Iss[n] + x) + k = Iss[n] + (x + k)
  <2>1. Iss[n] \in Int
    BY IssAssumption DEF Seqs
  <2> QED
    BY <2>1
<1> QED
  BY <1>1, <1>2, <1>3, <1>4

\* Positions that are less than a ring apart have buffers of their own.
LEMMA SlotDistinct ==
  ASSUME Fits, NEW n \in Node, NEW x \in 0 .. Total(n) + SegMax, NEW y \in 0 .. Total(n) + SegMax,
         x - y < SegMax, y - x < SegMax, Slot(n, x) = Slot(n, y)
  PROVE  x = y
<1>0. Total(n) \in Nat /\ Iss[n] \in Nat
  BY FirstIs DEF Seqs
<1> DEFINE a == Iss[n] + x
           b == Iss[n] + y
<1>1. a \in Nat /\ b \in Nat /\ a - b = x - y
  BY <1>0
<1>2. Slot(n, x) = a % SegMax /\ Slot(n, y) = b % SegMax
  BY SlotIs
<1>3. a - b < SegMax /\ b - a < SegMax
  BY <1>1
<1> HIDE DEF a, b
<1>4. PICK i \in Nat : a = i * SegMax + (a % SegMax) /\ a % SegMax \in 0 .. SegMax - 1
  BY <1>1, Quotient
<1>5. PICK j \in Nat : b = j * SegMax + (b % SegMax)
  BY <1>1, Quotient
<1>6. PICK u \in Int, v \in Int : u = i * SegMax /\ v = j * SegMax
  BY ProductSum
<1>7. PICK r \in 0 .. SegMax - 1 : r = a % SegMax /\ r = b % SegMax
  BY <1>2, <1>4
<1>8. a = u + r /\ b = v + r
  BY <1>4, <1>5, <1>6, <1>7
<1>9. i = j
  <2>1. u - v < SegMax /\ v - u < SegMax
    BY <1>1, <1>3, <1>8
  <2> QED
    BY <2>1, <1>6, MultiplesApart
<1>10. a = b
  BY <1>9, <1>6, <1>8
<1> QED
  BY <1>10, <1>1

\* The buffers of k positions.
LEMMA FollowSlots ==
  ASSUME Fits, NEW n \in Node, NEW x \in Nat, NEW k \in Nat, x + k <= Total(n) + SegMax + 1
  PROVE  Follow(Slot(n, x), k) = {Slot(n, y) : y \in x .. x + k - 1}
<1>0. Total(n) \in Nat
  BY FirstIs
<1>1. \A j \in 0 .. k - 1 : (Slot(n, x) + j) % SegMax = Slot(n, x + j)
  <2> SUFFICES ASSUME NEW j \in 0 .. k - 1 PROVE (Slot(n, x) + j) % SegMax = Slot(n, x + j)
    OBVIOUS
  <2>1. j \in Nat /\ x + j <= Total(n) + SegMax
    BY <1>0
  <2> QED
    BY <2>1, SlotNext
<1>2. Follow(Slot(n, x), k) = {Slot(n, x + j) : j \in 0 .. k - 1}
  BY <1>1 DEF Follow
<1>3. \A y \in x .. x + k - 1 : y - x \in 0 .. k - 1 /\ x + (y - x) = y
  OBVIOUS
<1>4. \A j \in 0 .. k - 1 : x + j \in x .. x + k - 1
  OBVIOUS
<1> QED
  BY <1>2, <1>3, <1>4

\* Every buffer is that of a position in a window of the size of the ring.
LEMMA SlotCover ==
  ASSUME Fits, NEW n \in Node, NEW lo \in Nat, lo <= Total(n) + 1, NEW i \in Ring
  PROVE  \E x \in lo .. lo + SegMax - 1 : Slot(n, x) = i
<1>0. Total(n) \in Nat
  BY FirstIs
<1>1. Slot(n, lo) \in Ring
  BY <1>0, SlotIs
<1> DEFINE k == IF i >= Slot(n, lo) THEN i - Slot(n, lo) ELSE (i + SegMax) - Slot(n, lo)
<1>2. k \in 0 .. SegMax - 1 /\ (Slot(n, lo) + k = i \/ Slot(n, lo) + k = i + SegMax)
  BY <1>1 DEF Ring
<1> HIDE DEF k
<1>3. (Slot(n, lo) + k) % SegMax = i
  <2>1. i % SegMax = i
    <3>1. i \in Nat /\ i < SegMax
      BY DEF Ring
    <3>2. i \div SegMax \in Nat /\ i % SegMax \in 0 .. SegMax - 1 /\ i = (i \div SegMax) * SegMax + (i % SegMax)
      BY <3>1, DivMod
    <3>3. (i \div SegMax) * SegMax + (i % SegMax) = 0 * SegMax + i
      BY <3>1, <3>2
    <3>4. i \in 0 .. SegMax - 1 /\ i \div SegMax \in Int /\ 0 \in Int
      BY <3>1, <3>2
    <3> QED
      BY <3>2, <3>3, <3>4, ModUnique
  <2>2. (i + SegMax) % SegMax = i % SegMax
    <3>1. SegMax % SegMax = 0
      <4>1. SegMax \div SegMax \in Nat /\ SegMax % SegMax \in 0 .. SegMax - 1
            /\ SegMax = (SegMax \div SegMax) * SegMax + (SegMax % SegMax)
        BY DivMod
      <4>2. (SegMax \div SegMax) * SegMax + (SegMax % SegMax) = 1 * SegMax + 0
        BY <4>1
      <4>3. 0 \in 0 .. SegMax - 1 /\ 1 \in Int /\ SegMax \div SegMax \in Int
        BY <4>1
      <4> QED
        BY <4>1, <4>2, <4>3, ModUnique
    <3>2. i + SegMax \in Nat /\ SegMax <= i + SegMax /\ (i + SegMax) - SegMax = i /\ SegMax \in Nat
      BY DEF Ring
    <3> QED
      BY <3>1, <3>2, ModMultiple
  <2> QED
    BY <1>2, <2>1, <2>2
<1>4. k \in Nat /\ lo + k <= Total(n) + SegMax
  BY <1>2, <1>0
<1>5. (Slot(n, lo) + k) % SegMax = Slot(n, lo + k)
  BY <1>4, SlotNext
<1>6. lo + k \in lo .. lo + SegMax - 1
  BY <1>2
<1> QED
  BY <1>3, <1>5, <1>6

\* A check that may fail, or that holds, does no harm.
IsCheck(t, s, x) == t = Check(s, x, TRUE) \/ t = Check(s, x, FALSE)

\* A step state is as well formed after the check as before.
LEMMA Checked ==
  ASSUME NEW n, NEW s, StepT(n, s), NEW x \in Allowed, NEW t, IsCheck(t, s, x)
  PROVE  /\ StepT(n, t) /\ t.c = s.c /\ t.a = s.a /\ t.jam = s.jam /\ t.out = s.out
         /\ t.o = s.o /\ t.ok = s.ok
<1>1. CASE t = s
  BY <1>1
<1>2. CASE t = [s EXCEPT !.broken = s.broken \cup {x}]
  <2>3. /\ Shape(t) /\ t.c = s.c /\ t.a = s.a /\ t.jam = s.jam /\ t.out = s.out
        /\ t.o = s.o /\ t.ok = s.ok /\ t.broken = s.broken \cup {x}
    BY <1>2 DEF Shape, StepT
  <2>4. StepT(n, t)
    BY <2>3 DEF StepT
  <2> QED
    BY <2>3, <2>4
<1> QED
  BY <1>1, <1>2 DEF Check, IsCheck

-----------------------------------------------------------------------------
\* What Emit does to a step.
LEMMA EmitStep ==
  ASSUME NEW n \in Node, NEW s, StepT(n, s), NEW seg \in Segs
  PROVE  LET t == Emit(s, seg)
         IN  /\ StepT(n, t)
             /\ t.c = s.c /\ t.a = s.a /\ t.jam = s.jam /\ t.o = s.o /\ t.broken = s.broken
             /\ t.out \subseteq s.out \cup {seg}
             /\ s.o # "block" <=> t.ok
<1>1. PICK t : t = Emit(s, seg)
  OBVIOUS
<1>2. PICK x : x = (IF s.o = "sent" THEN s.out \cup {seg} ELSE s.out)
  OBVIOUS
<1>3. IsFiniteSet(x) /\ x \subseteq s.out \cup {seg} /\ x \in SUBSET Segs
  BY <1>2, FS_AddElement DEF StepT
<1>4. PICK v : v = IF s.o \in {"sent", "lost"} THEN TRUE ELSE FALSE
  OBVIOUS
<1>7. v \in BOOLEAN /\ (s.o # "block" <=> v) /\ (s.o \in {"sent", "lost"}) = v
  <2>1. CASE s.o \in {"sent", "lost"}
    <3>1. (s.o \in {"sent", "lost"}) = TRUE /\ v = TRUE
      BY <1>4, <2>1
    <3> QED
      BY <3>1
  <2>2. CASE s.o \notin {"sent", "lost"}
    <3>1. (s.o \in {"sent", "lost"}) = FALSE /\ v = FALSE /\ s.o = "block"
      BY <1>4, <2>2 DEF StepT, Outcome
    <3> QED
      BY <3>1
  <2> QED
    BY <2>1, <2>2
<1>5. t = [s EXCEPT !.out = x, !.ok = v]
  BY <1>1, <1>2, <1>7, Zenon DEF Emit
<1>6. /\ Shape(t) /\ t.c = s.c /\ t.a = s.a /\ t.jam = s.jam /\ t.out = x
      /\ t.o = s.o /\ t.ok = v /\ t.broken = s.broken
  BY <1>5 DEF Shape, StepT
<1>8. StepT(n, t)
  BY <1>3, <1>6, <1>7 DEF StepT
<1> QED
  BY <1>1, <1>3, <1>6, <1>7, <1>8

\* SendMsgHeader adds at most its header to what is sent.
LEMMA SendMsgHeaderStep ==
  ASSUME NEW n \in Node, NEW s, StepT(n, s), NEW seg \in Segs
  PROVE  LET t == SendMsgHeader(s, seg)
         IN  /\ StepT(n, t)
             /\ Core(t.c, s.c) /\ t.a = s.a /\ t.o = s.o /\ t.broken = s.broken
             /\ t.out \subseteq s.out \cup {seg}
<1>1. PICK e : e = Emit(s, seg)
  OBVIOUS
<1>2. /\ StepT(n, e)
      /\ e.c = s.c /\ e.a = s.a /\ e.jam = s.jam /\ e.o = s.o /\ e.broken = s.broken
      /\ e.out \subseteq s.out \cup {seg}
  BY <1>1, EmitStep
<1>3. PICK t : t = SendMsgHeader(s, seg)
  OBVIOUS
<1>4. CASE s.o = "block"
  <2>1. t = [e EXCEPT !.jam = TRUE]
    BY <1>1, <1>3, <1>4 DEF SendMsgHeader
  <2>2. /\ Shape(t) /\ t.c = e.c /\ t.a = e.a /\ t.jam = TRUE /\ t.out = e.out
        /\ t.o = e.o /\ t.ok = e.ok /\ t.broken = e.broken
    BY <1>2, <2>1 DEF Shape, StepT
  <2>3. StepT(n, t)
    BY <1>2, <2>2 DEF StepT
  <2> QED
    BY <1>2, <1>3, <2>2, <2>3 DEF Core
<1>5. CASE s.o # "block"
  <2>1. t = [e EXCEPT !.c.ackTimer = FALSE]
    BY <1>1, <1>3, <1>5 DEF SendMsgHeader
  <2>2. /\ Shape(t) /\ t.c = [e.c EXCEPT !.ackTimer = FALSE] /\ t.a = e.a /\ t.jam = e.jam
        /\ t.out = e.out /\ t.o = e.o /\ t.ok = e.ok /\ t.broken = e.broken
    BY <1>2, <2>1 DEF Shape, StepT
  <2>3. t.c \in Conn /\ Core(t.c, e.c)
    <3>1. e.c \in Conn
      BY <1>2 DEF StepT
    <3> QED
      BY <2>2, <3>1 DEF Conn, Core
  <2>4. StepT(n, t)
    BY <1>2, <2>2, <2>3 DEF StepT
  <2> QED
    BY <1>2, <1>3, <2>2, <2>3, <2>4
<1> QED
  BY <1>4, <1>5

\* The mask in a header.
LEMMA WireMaskType ==
  ASSUME NEW c \in Conn
  PROVE  WireMask(c) \in [WordIds -> SUBSET Bits] /\ NoEack.mask \in [WordIds -> SUBSET Bits]
<1>1. NoEack.mask \in [WordIds -> SUBSET Bits]
  BY NoEackWellFormed DEF WellFormed
<1>2. c.eack \in Eack
  BY DEF Conn
<1>3. c.eack.htnMask \in [WordIds -> SUBSET Bits]
  BY <1>2 DEF Eack
<1> QED
  BY <1>1, <1>3 DEF WireMask

\* A header without a payload.
LEMMA SegmentIs ==
  ASSUME NEW c \in Conn, NEW flg \in SUBSET Flags, NEW seq \in Seqs, NEW ack \in Seqs
  PROVE  LET g == WithEack(c, Segment(c, flg, seq, ack))
         IN  /\ g \in Segs
             /\ g.flg \in {flg, flg \cup {"EACK"}}
             /\ g.src = c.local /\ g.dst = c.foreign /\ g.seq = seq /\ g.ack = ack
             /\ g.lcs = c.rLCS /\ g.acknxt = c.UNA /\ g.data = NoData
<1>1. PICK h : h = Segment(c, flg, seq, ack)
  OBVIOUS
<1>2. PICK m0 \in [WordIds -> SUBSET Bits], m1 \in [WordIds -> SUBSET Bits] :
        m0 = NoEack.mask /\ m1 = WireMask(c)
  BY WireMaskType
<1>3. h = [src |-> c.local, dst |-> c.foreign, flg |-> flg, seq |-> seq, ack |-> ack,
           lcs |-> c.rLCS, acknxt |-> c.UNA, eack |-> m0,
           data |-> NoData, som |-> 0, fcnt |-> 0, ttl |-> "inf"]
  BY <1>1, <1>2 DEF Segment
<1>4. c.local \in Nat /\ c.foreign \in Nat /\ c.rLCS \in Seqs /\ c.UNA \in Seqs
  BY DEF Conn
<1>5. /\ h \in Segs
      /\ h.flg = flg /\ h.src = c.local /\ h.dst = c.foreign /\ h.seq = seq /\ h.ack = ack
      /\ h.lcs = c.rLCS /\ h.acknxt = c.UNA /\ h.data = NoData
  BY <1>3, <1>4 DEF Segs, Seqs, Data, Ttl
<1>6. PICK g : g = WithEack(c, h)
  OBVIOUS
<1>7. CASE c.eack.sz = 0
  BY <1>1, <1>5, <1>6, <1>7 DEF WithEack
<1>8. CASE c.eack.sz # 0
  <2>1. PICK f : f = h.flg \cup {"EACK"}
    OBVIOUS
  <2>2. f \in SUBSET Flags
    BY <2>1, <1>5 DEF Flags
  <2>3. g = [h EXCEPT !.flg = f, !.eack = m1]
    BY <1>6, <1>8, <1>2, <2>1 DEF WithEack
  <2>4. /\ g \in Segs
        /\ g.flg = f /\ g.src = h.src /\ g.dst = h.dst /\ g.seq = h.seq /\ g.ack = h.ack
        /\ g.lcs = h.lcs /\ g.acknxt = h.acknxt /\ g.data = h.data
    BY <1>5, <2>2, <2>3 DEF Segs
  <2> QED
    BY <1>1, <1>5, <1>6, <2>1, <2>4
<1> QED
  BY <1>7, <1>8

\* Fields that the invariants do not speak about.
LEMMA CoreOK ==
  ASSUME NEW n \in Node, NEW c, NEW d, NEW a, NEW r, NEW b,
         Core(c, d), ConnOK(n, c, a, r, b)
  PROVE  ConnOK(n, d, a, r, b)
<1>1. Ctl(n, d, a)
  BY DEF Core, ConnOK, Ctl, Est, Closed
<1>2. InUse(c) = InUse(d)
  BY DEF Core, InUse
<1>3. SndOK(n, d, a, b.consumed)
  <2>1. PICK f \in 1 .. a.submitted + 1 : SndAt(n, c, a, b.consumed, f)
    BY DEF ConnOK, SndOK
  <2>2. RingHolds(n, d, First(n, f) .. EndOf(n, a) - 1)
    <3> DEFINE P == First(n, f) .. EndOf(n, a) - 1
    <3>1. RingHolds(n, c, P)
      BY <2>1 DEF SndAt
    <3>2. c.sbuf = d.sbuf /\ c.pending = d.pending
      BY DEF Core
    <3> HIDE DEF P
    <3>3. RingHolds(n, d, P)
      BY <3>1, <3>2, <1>2 DEF RingHolds
    <3> QED
      BY <3>3 DEF P
  <2>3. SndNumbers(n, d, a, b.consumed, f, EndOf(n, a))
    BY <2>1 DEF Core, SndAt, SndNumbers
  <2> QED
    BY <2>1, <2>2, <2>3 DEF SndOK, SndAt
<1>4. RcvOK(n, d, a, b.submitted)
  BY DEF Core, ConnOK, RcvOK, RcvHeld, RcvAt, Est
<1> QED
  BY <1>1, <1>3, <1>4 DEF ConnOK, Core

\* Nothing that the invariants speak about moves.
LEMMA StayedApp ==
  ASSUME NEW n \in Node, NEW c \in Conn, NEW d \in Conn, NEW a, NEW e, NEW q,
         AppT(n, a), Core(c, d), SameApp(a, e), Fits
  PROVE  Moves(n, c, a, d, e, q)
<1>1. Pos(Peer(n), c.CUR) <= Pos(Peer(n), d.CUR)
  <2>1. c.CUR = d.CUR /\ c.CUR \in Seqs /\ Peer(n) \in Node
    BY DEF Core, Conn, Peer, Node
  <2> QED
    BY <2>1, PosOf
<1>2. Len(a.rcvd) <= Len(e.rcvd)
  BY LenProperties DEF AppT, SameApp
<1>3. Est(n, c) => Est(n, d)
  BY DEF Est, Core
<1>4. CbMoves(n, a, e, q)
  BY DEF CbMoves, SameApp
<1> QED
  BY <1>1, <1>2, <1>3, <1>4 DEF Moves, SameApp

\* A node is as it should be when nothing but its connectCb differs.
LEMMA SameAppOK ==
  ASSUME NEW n \in Node, NEW c, NEW a, NEW e, NEW r, NEW b, SameApp(a, e),
         AppOK(n, a, b), ConnOK(n, c, a, r, b)
  PROVE  AppOK(n, e, b) /\ ConnOK(n, c, e, r, b)
<1>1. EndOf(n, a) = EndOf(n, e)
  BY DEF EndOf, SameApp
<1>2. \A f : CbAt(n, a, f) = CbAt(n, e, f)
  BY Zenon DEF CbAt, SameApp
<1>3. AppOK(n, e, b)
  BY <1>1, <1>2 DEF AppOK, SameApp, RcvApp
<1>4. Ctl(n, c, e)
  BY DEF Ctl, ConnOK, SameApp
<1>5. SndOK(n, c, e, b.consumed)
  BY <1>1, <1>2 DEF SndOK, ConnOK, SndAt, SndNumbers, SameApp
<1>6. RcvOK(n, c, e, b.submitted)
  <2>1. e.rcvd = a.rcvd /\ e.consumed = a.consumed
    BY DEF SameApp
  <2> QED
    BY <2>1 DEF ConnOK, RcvOK, RcvHeld, RcvAt
<1> QED
  BY <1>3, <1>4, <1>5, <1>6 DEF ConnOK

\* A step that sends only what may be sent, and leaves the core of the connection alone, keeps a node good.
LEMMA Quiet ==
  ASSUME NEW n \in Node, NEW s, NEW t, NEW r, NEW b, Fits,
         Good(n, s, r, b), StepT(n, t), Core(s.c, t.c), SameApp(s.a, t.a),
         \A seg \in t.out : seg \in s.out \/ SegOK(n, seg, s.c, s.a, r, b)
  PROVE  Good(n, t, r, b) /\ Moves(n, s.c, s.a, t.c, t.a, b.consumed)
<1>1. s.c \in Conn /\ t.c \in Conn /\ AppT(n, s.a)
  BY DEF Good, StepT
<1>2. Moves(n, s.c, s.a, t.c, t.a, b.consumed)
  BY <1>1, StayedApp
<1>3. AppOK(n, s.a, b) /\ ConnOK(n, t.c, s.a, r, b)
  BY CoreOK DEF Good
<1>4. AppOK(n, t.a, b) /\ ConnOK(n, t.c, t.a, r, b)
  BY <1>3, SameAppOK
<1>5. ASSUME NEW seg \in t.out PROVE SegOK(n, seg, t.c, t.a, r, b)
  <2>1. SegOK(n, seg, s.c, s.a, r, b)
    BY <1>5 DEF Good
  <2>2. t.c # NoConn /\ s.c # NoConn
    BY <1>1 DEF Conn, NoConn, States
  <2>3. /\ EndOf(n, s.a) = EndOf(n, t.a) /\ s.a.consumed = t.a.consumed
        /\ s.c.CUR = t.c.CUR
    BY DEF SameApp, EndOf, Core
  <2> QED
    BY <2>1, <2>2, <2>3 DEF SegOK, IsNormal
<1> QED
  BY <1>2, <1>4, <1>5 DEF Good

\* The peer of a node is the other one.
LEMMA PeerNode ==
  ASSUME NEW n \in Node
  PROVE  Peer(n) \in Node /\ Peer(n) # n /\ Peer(Peer(n)) = n
  BY DEF Peer, Node

\* Where the streams of a node and its peer stand.
LEMMA Places ==
  ASSUME Fits, NEW n \in Node, NEW a, NEW b, AppT(n, a), AppT(Peer(n), b), AppOK(n, a, b)
  PROVE  /\ a.submitted + 1 \in 1 .. Count(n) + 1
         /\ EndOf(n, a) \in 1 .. Total(n)
         /\ b.submitted + 1 \in 1 .. Count(Peer(n)) + 1
         /\ EndOf(Peer(n), b) \in 1 .. Total(Peer(n))
         /\ Len(a.rcvd) \in 0 .. b.submitted
         /\ a.consumed \in 0 .. Len(a.rcvd)
         /\ First(Peer(n), a.consumed + 1) \in 1 .. EndOf(Peer(n), b)
         /\ First(Peer(n), Len(a.rcvd) + 1) \in First(Peer(n), a.consumed + 1) .. EndOf(Peer(n), b)
         /\ Total(n) \in Nat /\ Total(n) + SegMax < Half
         /\ Total(Peer(n)) \in Nat /\ Total(Peer(n)) + SegMax < Half
         /\ Half \in Nat /\ Half + Half = SeqSpace
<1> DEFINE p == Peer(n)
<1>1. p \in Node
  BY PeerNode
<1>2. /\ Count(n) \in Nat /\ Count(p) \in Nat
      /\ Total(n) \in Nat /\ Total(n) + SegMax < Half
      /\ Total(p) \in Nat /\ Total(p) + SegMax < Half
      /\ Half \in Nat /\ Half + Half = SeqSpace
  BY <1>1, FirstIs
<1>a. a.submitted \in 0 .. Count(n) /\ b.submitted \in 0 .. Count(p)
  BY DEF AppT, Count
<1>3. a.submitted + 1 \in 1 .. Count(n) + 1 /\ b.submitted + 1 \in 1 .. Count(p) + 1
  BY <1>2, <1>a
<1>4. Len(a.rcvd) \in 0 .. b.submitted /\ a.consumed \in 0 .. Len(a.rcvd)
  BY LenProperties DEF AppT, AppOK, RcvApp
<1>b. PICK i \in Nat, j \in Nat, k \in Nat : i = a.consumed /\ j = Len(a.rcvd) /\ k = b.submitted
  BY <1>4, <1>a, <1>2
<1>c. i <= j /\ j <= k /\ k <= Count(p)
  BY <1>a, <1>b, <1>4
<1>5. EndOf(n, a) \in 1 .. Total(n) /\ EndOf(p, b) \in 1 .. Total(p)
  <2>1. First(n, a.submitted + 1) \in Nat /\ First(n, a.submitted + 1) >= 1
        /\ First(n, a.submitted + 1) <= Total(n)
    BY <1>3, FirstMono
  <2>2. First(p, b.submitted + 1) \in Nat /\ First(p, b.submitted + 1) >= 1
        /\ First(p, b.submitted + 1) <= Total(p)
    BY <1>1, <1>3, FirstMono
  <2> QED
    BY <2>1, <2>2, <1>2 DEF EndOf
<1>6. /\ a.consumed + 1 \in 1 .. Count(p) + 1 /\ Len(a.rcvd) + 1 \in 1 .. Count(p) + 1
      /\ a.consumed + 1 <= Len(a.rcvd) + 1 /\ Len(a.rcvd) + 1 <= b.submitted + 1
  <2>1. PICK N \in Nat : N = Count(p)
    BY <1>2
  <2>2. i + 1 \in 1 .. N + 1 /\ j + 1 \in 1 .. N + 1 /\ i + 1 <= j + 1 /\ j + 1 <= k + 1
    BY <2>1, <1>c
  <2> QED
    BY <2>1, <2>2, <1>b
<1>7. /\ First(p, a.consumed + 1) \in Nat /\ First(p, Len(a.rcvd) + 1) \in Nat
      /\ First(p, a.consumed + 1) >= 1
      /\ First(p, a.consumed + 1) + ((Len(a.rcvd) + 1) - (a.consumed + 1)) <= First(p, Len(a.rcvd) + 1)
  BY <1>1, <1>6, FirstMono
<1>8. First(p, Len(a.rcvd) + 1) + ((b.submitted + 1) - (Len(a.rcvd) + 1)) <= First(p, b.submitted + 1)
  BY <1>1, <1>3, <1>6, FirstMono
<1>9. /\ First(p, a.consumed + 1) \in 1 .. EndOf(p, b)
      /\ First(p, Len(a.rcvd) + 1) \in First(p, a.consumed + 1) .. EndOf(p, b)
  <2>1. PICK x \in Nat, y \in Nat, z \in Nat :
          x = First(p, a.consumed + 1) /\ y = First(p, Len(a.rcvd) + 1) /\ z = First(p, b.submitted + 1)
    BY <1>7, <1>5 DEF EndOf
  <2>4. x >= 1 /\ x + ((j + 1) - (i + 1)) <= y /\ y + ((k + 1) - (j + 1)) <= z
    BY <2>1, <1>b, <1>7, <1>8
  <2>5. x <= y /\ y <= z
    BY <1>c, <2>4
  <2> QED
    BY <2>1, <2>4, <2>5 DEF EndOf
<1> QED
  BY <1>2, <1>3, <1>4, <1>5, <1>9

\* A segment that a node in contact sends.
LEMMA NormalSeg ==
  ASSUME Fits, NEW n \in Node, NEW c \in Conn, NEW a, NEW r, NEW b, NEW g \in Segs, NEW C \in Seqs,
         AppT(n, a), PeerT(n, r, b), AppOK(n, a, b), ConnOK(n, c, a, r, b),
         n = "B" \/ Est(n, c),
         g.src = c.local, g.dst = c.foreign, {"RST", "SYN"} \cap g.flg = {},
         g.lcs = c.rLCS, g.acknxt = c.UNA, g.ack = c.CUR,
         Pos(n, g.seq) \in 1 .. EndOf(n, a),
         g.data = NoData \/ DataOK(n, g, EndOf(n, a))
  PROVE  SegOK(n, g, c, a, r, b)
<1>1. c.local = 1 /\ c.foreign = 1
  BY DEF ConnOK, Ctl
<1>2. /\ Pos(Peer(n), c.rLCS) <= Pos(Peer(n), c.CUR)
      /\ Pos(Peer(n), c.CUR) < EndOf(Peer(n), b)
      /\ Pos(Peer(n), c.rLCS) < First(Peer(n), a.consumed + 1)
  BY DEF ConnOK, RcvOK, EndOf
<1>3. Pos(n, c.UNA) <= EndOf(n, a)
  BY DEF ConnOK, SndOK, SndAt, SndNumbers
<1>4. Knows(Peer(n), r) => Pos(n, c.UNA) <= Pos(n, r.CUR) + 1
  BY DEF ConnOK
<1>5. Pos(Peer(n), g.ack) <= Pos(Peer(n), c.CUR)
  BY PeerNode, PosOf DEF Conn
<1>6. Normal(g) /\ (g.data # NoData => DataOK(n, g, EndOf(n, a)))
  BY DEF Normal
<1>7. IsNormal(n, g, c, a, r, b)
  BY <1>1, <1>2, <1>3, <1>4, <1>5, <1>6 DEF IsNormal
<1> QED
  BY <1>7 DEF SegOK

\* SendAck and SendNul.
LEMMA SendOK ==
  ASSUME Fits, NEW n \in Node, NEW s, NEW r, NEW b, Good(n, s, r, b), n = "B" \/ Est(n, s.c),
         NEW flg, flg = {"ACK"} \/ flg = {"ACK", "NUL"}
  PROVE  LET t == Send(s, flg, s.c.NXT, s.c.CUR)
         IN  /\ Good(n, t, r, b) /\ Moves(n, s.c, s.a, t.c, t.a, b.consumed)
             /\ Core(s.c, t.c) /\ t.a = s.a /\ t.o = s.o
<1>1. /\ s.c \in Conn /\ StepT(n, s) /\ PeerT(n, r, b) /\ AppT(n, s.a) /\ AppOK(n, s.a, b)
      /\ ConnOK(n, s.c, s.a, r, b)
  BY DEF Good, StepT
<1>2. s.c.NXT \in Seqs /\ s.c.CUR \in Seqs /\ flg \in SUBSET Flags
  BY <1>1 DEF Conn, Flags
<1> DEFINE g == WithEack(s.c, Segment(s.c, flg, s.c.NXT, s.c.CUR))
<1>4. /\ g \in Segs
      /\ g.flg \in {flg, flg \cup {"EACK"}}
      /\ g.src = s.c.local /\ g.dst = s.c.foreign /\ g.seq = s.c.NXT /\ g.ack = s.c.CUR
      /\ g.lcs = s.c.rLCS /\ g.acknxt = s.c.UNA /\ g.data = NoData
  BY <1>1, <1>2, SegmentIs
<1>3. g = WithEack(s.c, Segment(s.c, flg, s.c.NXT, s.c.CUR))
  OBVIOUS
<1> HIDE DEF g
<1>5. EndOf(n, s.a) \in 1 .. Total(n) /\ Total(n) \in Nat /\ Total(n) + SegMax < Half
      /\ Half \in Nat /\ Half + Half = SeqSpace
  BY <1>1, Places DEF PeerT
<1>6. Pos(n, g.seq) \in 1 .. EndOf(n, s.a)
  <2>1. s.c.NXT = SeqAt(n, EndOf(n, s.a))
    BY <1>1 DEF ConnOK, SndOK, SndAt, SndNumbers
  <2>2. Pos(n, SeqAt(n, EndOf(n, s.a))) = EndOf(n, s.a)
    BY <1>5, AtPos
  <2> QED
    BY <2>1, <2>2, <1>4, <1>5
<1>7. {"RST", "SYN"} \cap g.flg = {}
  BY <1>4
<1>8. SegOK(n, g, s.c, s.a, r, b)
  BY <1>1, <1>2, <1>4, <1>6, <1>7, NormalSeg
<1>9. PICK t : t = Send(s, flg, s.c.NXT, s.c.CUR)
  OBVIOUS
<1>10. /\ StepT(n, t)
       /\ Core(t.c, s.c) /\ t.a = s.a /\ t.o = s.o
       /\ t.out \subseteq s.out \cup {g}
  BY <1>1, <1>3, <1>4, <1>9, SendMsgHeaderStep DEF Send
<1>11. Core(s.c, t.c) /\ SameApp(s.a, t.a)
  BY <1>10 DEF Core, SameApp
<1>12. \A seg \in t.out : seg \in s.out \/ SegOK(n, seg, s.c, s.a, r, b)
  BY <1>10, <1>8
<1>13. Good(n, t, r, b) /\ Moves(n, s.c, s.a, t.c, t.a, b.consumed)
  BY <1>10, <1>11, <1>12, Quiet
<1> QED
  BY <1>9, <1>10, <1>11, <1>13

\* SendRst.
LEMMA RstIs ==
  ASSUME NEW c \in Conn
  PROVE  RstSegment(c) \in Segs /\ RstSegment(c).flg = {"RST"}
<1>1. PICK h : h = Segment(c, {"RST"}, 0, 0)
  OBVIOUS
<1>2. PICK m0 \in [WordIds -> SUBSET Bits] : m0 = NoEack.mask
  BY WireMaskType
<1>3. h = [src |-> c.local, dst |-> c.foreign, flg |-> {"RST"}, seq |-> 0, ack |-> 0,
           lcs |-> c.rLCS, acknxt |-> c.UNA, eack |-> m0,
           data |-> NoData, som |-> 0, fcnt |-> 0, ttl |-> "inf"]
  BY <1>1, <1>2 DEF Segment
<1>4. c.local \in Nat /\ c.foreign \in Nat /\ c.rLCS \in Seqs /\ c.UNA \in Seqs
  BY DEF Conn
<1>5. h \in Segs /\ h.flg = {"RST"}
  BY <1>3, <1>4 DEF Segs, Seqs, Data, Ttl, Flags
<1>6. PICK g : g = RstSegment(c)
  OBVIOUS
<1>z. PICK z \in Seqs : z = 0
  BY DEF Seqs
<1>7. g = [h EXCEPT !.lcs = z, !.acknxt = z]
  BY <1>1, <1>6, <1>z, Zenon DEF RstSegment
<1>8. g \in Segs /\ g.flg = {"RST"}
  BY <1>5, <1>7 DEF Segs
<1> QED
  BY <1>6, <1>8

\* SendRst adds at most a reset to what is sent.
LEMMA SendRstStep ==
  ASSUME NEW n \in Node, NEW s, StepT(n, s)
  PROVE  LET t == SendRst(s)
         IN  /\ StepT(n, t)
             /\ Core(t.c, s.c) /\ t.a = s.a /\ t.o = s.o /\ t.broken = s.broken
             /\ \A seg \in t.out : seg \in s.out \/ IsRst(seg)
<1>1. s.c \in Conn
  BY DEF StepT
<1>2. PICK g : g = RstSegment(s.c)
  OBVIOUS
<1>3. g \in Segs /\ IsRst(g)
  BY <1>1, <1>2, RstIs DEF IsRst
<1>4. PICK t : t = SendRst(s)
  OBVIOUS
<1>5. /\ StepT(n, t)
      /\ Core(t.c, s.c) /\ t.a = s.a /\ t.o = s.o /\ t.broken = s.broken
      /\ t.out \subseteq s.out \cup {g}
  BY <1>2, <1>3, <1>4, SendMsgHeaderStep DEF SendRst
<1> QED
  BY <1>3, <1>4, <1>5

-----------------------------------------------------------------------------
\* Every position belongs to a message.
LEMMA MessageAt ==
  ASSUME Fits, NEW n \in Node, NEW i \in 1 .. Count(n) + 1, NEW j \in 1 .. Count(n) + 1,
         NEW x \in Int, First(n, i) <= x, x < First(n, j)
  PROVE  \E m \in i .. j - 1 : First(n, m) <= x /\ x < First(n, m + 1)
<1>1. Count(n) \in Nat /\ \A m \in Nat : First(n, m) \in Nat
  BY FirstIs
<1> DEFINE S == {m \in Nat : m \in i .. j /\ x < First(n, m)}
<1>2. i < j
  <2>1. SUFFICES ASSUME j <= i PROVE FALSE
    BY <1>1
  <2>2. First(n, j) + (i - j) <= First(n, i) /\ First(n, i) \in Nat /\ First(n, j) \in Nat
    BY <2>1, FirstMono
  <2> QED
    BY <2>1, <2>2, <1>1
<1>3. j \in S /\ S \subseteq Nat
  BY <1>1, <1>2
<1>4. PICK k \in S : \A l \in S : k <= l
  BY <1>3, SmallestNat
<1>5. k # i
  <2>1. First(n, i) \in Nat
    BY <1>1
  <2> QED
    BY <1>4, <2>1
<1>6. k - 1 \in i .. j - 1 /\ k - 1 \in Nat /\ (k - 1) + 1 = k
  BY <1>4, <1>5, <1>1
<1>7. k - 1 \notin S
  BY <1>4, <1>6
<1>8. First(n, k - 1) <= x
  <2>1. First(n, k - 1) \in Nat
    BY <1>1, <1>6
  <2>2. k - 1 \in i .. j
    BY <1>6
  <2> QED
    BY <1>6, <1>7, <2>1, <2>2
<1> QED
  BY <1>4, <1>6, <1>8

\* The positions of consecutive messages.
LEMMA PosnsInterval ==
  ASSUME Fits, NEW n \in Node, NEW i \in 1 .. Count(n) + 1, NEW j \in 0 .. Count(n), i <= j + 1
  PROVE  Posns(n, i .. j) = First(n, i) .. First(n, j + 1) - 1
<1>1. Count(n) \in Nat /\ (\A m \in Nat : First(n, m) \in Nat) /\ Total(n) = First(n, Len(Msgs[n]) + 1)
  BY FirstIs DEF Total, Count
<1>2. j + 1 \in 1 .. Count(n) + 1
  BY <1>1
<1>3. First(n, i) \in Nat /\ First(n, j + 1) \in Nat /\ First(n, j + 1) <= Total(n) /\ Total(n) \in Nat
  BY <1>2, FirstMono, FirstIs
<1>4. ASSUME NEW x \in Posns(n, i .. j) PROVE x \in First(n, i) .. First(n, j + 1) - 1
  <2>1. PICK m \in i .. j : First(n, m) <= x /\ x < First(n, m + 1)
    BY <1>4 DEF Posns
  <2>2. x \in Nat
    BY <1>1, <1>3, <1>4 DEF Posns
  <2>3. m \in 1 .. Count(n) + 1 /\ m + 1 \in 1 .. Count(n) + 1 /\ i <= m /\ m + 1 <= j + 1
    <3>1. PICK N \in Nat : N = Count(n)
      BY <1>1
    <3>2. i \in 1 .. N + 1 /\ j \in 0 .. N /\ m \in i .. j
      BY <3>1
    <3>3. m \in 1 .. N + 1 /\ m + 1 \in 1 .. N + 1 /\ i <= m /\ m + 1 <= j + 1
      BY <3>2
    <3> QED
      BY <3>1, <3>3
  <2>4. /\ First(n, i) + (m - i) <= First(n, m) /\ First(n, m) \in Nat
        /\ First(n, m + 1) + ((j + 1) - (m + 1)) <= First(n, j + 1) /\ First(n, m + 1) \in Nat
    BY <2>3, <1>2, FirstMono
  <2>5. First(n, i) <= x /\ x < First(n, j + 1)
    BY <2>1, <2>2, <2>3, <2>4, <1>3
  <2> QED
    BY <2>2, <2>5, <1>3
<1>5. ASSUME NEW x \in First(n, i) .. First(n, j + 1) - 1 PROVE x \in Posns(n, i .. j)
  <2>1. PICK m \in i .. (j + 1) - 1 : First(n, m) <= x /\ x < First(n, m + 1)
    BY <1>2, <1>3, <1>5, MessageAt
  <2>2. m \in i .. j
    BY <2>1, <1>1
  <2>3. x \in 0 .. First(n, Len(Msgs[n]) + 1)
    BY <1>1, <1>3, <1>5
  <2> QED
    BY <2>1, <2>2, <2>3 DEF Posns
<1> QED
  BY <1>4, <1>5

\* The buffers of a message.
LEMMA MessageFollow ==
  ASSUME Fits, NEW n \in Node, NEW m \in 1 .. Count(n)
  PROVE  /\ Follow(Slot(n, First(n, m)), Msgs[n][m].fcnt) =
              {Slot(n, y) : y \in First(n, m) .. First(n, m + 1) - 1}
         /\ First(n, m) \in First(n, m) .. First(n, m + 1) - 1
         /\ First(n, m) .. First(n, m + 1) - 1 \subseteq 1 .. Total(n)
<1>1. PICK x \in Nat \ {0}, k \in 1 .. SegMax, z \in Nat :
        x = First(n, m) /\ k = Msgs[n][m].fcnt /\ z = Total(n)
  BY Message, FirstIs
<1>2. First(n, m + 1) = x + k /\ x + k <= z
  BY <1>1, Message
<1>3. Follow(Slot(n, x), k) = {Slot(n, y) : y \in x .. x + k - 1}
  <2>1. x \in Nat /\ k \in Nat /\ x + k <= z + SegMax + 1
    BY <1>1, <1>2
  <2> QED
    BY <1>1, <2>1, FollowSlots
<1> QED
  BY <1>1, <1>2, <1>3

\* What the ring holds of a message.
LEMMA RingMessage ==
  ASSUME Fits, NEW n \in Node, NEW c, NEW R \in SUBSET (1 .. Count(n)),
         RingHolds(n, c, Posns(n, R)), NEW m \in R,
         NEW x \in First(n, m) .. First(n, m + 1) - 1
  PROVE  LET b == c.sbuf[Slot(n, x)]
         IN  /\ x \in Posns(n, R)
             /\ Slot(n, x) \in Ring
             /\ b.inUse /\ b.seq = SeqAt(n, x) /\ b.ttl = "inf"
             /\ b.msg = m /\ b.som = SeqAt(n, First(n, m)) /\ b.fcnt = Msgs[n][m].fcnt
<1>1. m \in 1 .. Count(n) /\ Count(n) = Len(Msgs[n]) /\ Total(n) \in Nat
  BY FirstIs DEF Count
<1>2. x \in 1 .. Total(n)
  BY <1>1, MessageFollow
<1>3. First(n, m) \in Nat /\ First(n, m + 1) \in Nat
  BY <1>1, Message
<1>4. First(n, m) <= x /\ x < First(n, m + 1)
  BY <1>2, <1>3
<1>5. x \in Posns(n, R)
  <2>1. x \in 0 .. First(n, Len(Msgs[n]) + 1)
    BY <1>1, <1>2 DEF Total, Count
  <2> QED
    BY <2>1, <1>4 DEF Posns
<1>6. Slot(n, x) \in Ring
  BY <1>1, <1>2, SlotIs
<1>7. SndBufAt(n, c.sbuf[Slot(n, x)], x)
  BY <1>5 DEF RingHolds
<1> DEFINE b == c.sbuf[Slot(n, x)]
<1>8. b.msg \in 1 .. Count(n) /\ First(n, b.msg) <= x /\ x < First(n, b.msg + 1)
  BY <1>1, <1>7 DEF SndBufAt
<1>9. b.msg = m
  BY <1>1, <1>2, <1>4, <1>8, OneMessage
<1> QED
  BY <1>5, <1>6, <1>7, <1>9 DEF SndBufAt

\* A position in the ring belongs to a message in the ring.
LEMMA RingUsed ==
  ASSUME Fits, NEW n \in Node, NEW c, NEW R \in SUBSET (1 .. Count(n)),
         RingHolds(n, c, Posns(n, R)), NEW i \in InUse(c)
  PROVE  \E m \in R : \E x \in First(n, m) .. First(n, m + 1) - 1 : i = Slot(n, x)
<1>1. i \in Ring /\ c.sbuf[i].inUse
  BY DEF InUse
<1>2. PICK x \in Posns(n, R) : i = Slot(n, x)
  BY <1>1 DEF RingHolds
<1>3. PICK m \in R : First(n, m) <= x /\ x < First(n, m + 1)
  BY DEF Posns
<1>4. m \in 1 .. Count(n)
  OBVIOUS
<1>5. First(n, m) \in Nat /\ First(n, m + 1) \in Nat /\ x \in Nat
  <2>1. First(n, Len(Msgs[n]) + 1) \in Nat
    BY FirstIs DEF Total, Count
  <2>2. x \in Nat
    BY <2>1 DEF Posns
  <2>3. First(n, m) \in Nat /\ First(n, m + 1) \in Nat
    BY <1>4, Message
  <2> QED
    BY <2>2, <2>3
<1>6. x \in First(n, m) .. First(n, m + 1) - 1
  BY <1>3, <1>5
<1> QED
  BY <1>2, <1>6

\* A message in the ring starts where its first fragment is.
LEMMA RingStart ==
  ASSUME Fits, NEW n \in Node, NEW c, NEW R \in SUBSET (1 .. Count(n)),
         RingHolds(n, c, Posns(n, R)), NEW m \in R,
         NEW x \in First(n, m) .. First(n, m + 1) - 1
  PROVE  SeqAt(n, x) = SeqAt(n, First(n, m)) <=> x = First(n, m)
<1>1. m \in 1 .. Count(n)
  OBVIOUS
<1>2. PICK z \in Nat : z = Total(n) /\ z + SegMax < Half /\ Half \in Nat /\ Half + Half = SeqSpace
  BY FirstIs
<1>3. x \in 1 .. z /\ First(n, m) \in 1 .. z
  BY <1>1, <1>2, MessageFollow
<1>4. x \in 0 .. SeqSpace - 1 /\ First(n, m) \in 0 .. SeqSpace - 1
  BY <1>2, <1>3
<1>5. Pos(n, SeqAt(n, x)) = x
  BY <1>4, AtPos
<1>6. Pos(n, SeqAt(n, First(n, m))) = First(n, m)
  BY <1>4, AtPos
<1> QED
  BY <1>5, <1>6

\* FlushSendQueue finds exactly the messages in the ring.
LEMMA FlushFinds ==
  ASSUME Fits, NEW n \in Node, NEW c, NEW R \in SUBSET (1 .. Count(n)),
         RingHolds(n, c, Posns(n, R))
  PROVE  LET starts == {i \in Ring : c.sbuf[i].inUse /\ c.sbuf[i].seq = c.sbuf[i].som}
         IN  /\ UNION {Follow(i, c.sbuf[i].fcnt) : i \in starts} = InUse(c)
             /\ {c.sbuf[i].msg : i \in starts} = R
<1> DEFINE starts == {i \in Ring : c.sbuf[i].inUse /\ c.sbuf[i].seq = c.sbuf[i].som}
<1>1. ASSUME NEW i \in starts
      PROVE  \E m \in R : i = Slot(n, First(n, m))
  <2>1. i \in InUse(c)
    BY DEF InUse
  <2>0. PICK m \in R : \E x \in First(n, m) .. First(n, m + 1) - 1 : i = Slot(n, x)
    BY <2>1, RingUsed
  <2>2. PICK x \in First(n, m) .. First(n, m + 1) - 1 : i = Slot(n, x)
    BY <2>0
  <2>3. c.sbuf[i].seq = SeqAt(n, x) /\ c.sbuf[i].som = SeqAt(n, First(n, m))
    BY <2>2, RingMessage
  <2>4. x = First(n, m)
    BY <2>3, RingStart
  <2> QED
    BY <2>2, <2>4
<1>2. ASSUME NEW m \in R
      PROVE  /\ Slot(n, First(n, m)) \in starts
             /\ c.sbuf[Slot(n, First(n, m))].msg = m
             /\ Follow(Slot(n, First(n, m)), c.sbuf[Slot(n, First(n, m))].fcnt) =
                  {Slot(n, y) : y \in First(n, m) .. First(n, m + 1) - 1}
  <2>1. m \in 1 .. Count(n)
    OBVIOUS
  <2>2. First(n, m) \in First(n, m) .. First(n, m + 1) - 1
    BY <2>1, MessageFollow
  <2>3. LET b == c.sbuf[Slot(n, First(n, m))]
        IN  /\ Slot(n, First(n, m)) \in Ring
            /\ b.inUse /\ b.seq = SeqAt(n, First(n, m))
            /\ b.msg = m /\ b.som = SeqAt(n, First(n, m)) /\ b.fcnt = Msgs[n][m].fcnt
    BY <2>2, RingMessage
  <2> QED
    BY <2>1, <2>3, MessageFollow
<1>3. ASSUME NEW m \in R, NEW y \in First(n, m) .. First(n, m + 1) - 1
      PROVE  Slot(n, y) \in InUse(c)
  BY <1>3, RingMessage DEF InUse
<1>4. \A i \in InUse(c) : \E m \in R : i \in {Slot(n, y) : y \in First(n, m) .. First(n, m + 1) - 1}
  BY RingUsed
<1> HIDE DEF starts
<1>5. UNION {Follow(i, c.sbuf[i].fcnt) : i \in starts} = InUse(c)
  <2>1. ASSUME NEW i \in starts, NEW j \in Follow(i, c.sbuf[i].fcnt) PROVE j \in InUse(c)
    <3>1. PICK m \in R : i = Slot(n, First(n, m))
      BY <1>1
    <3>2. j \in {Slot(n, y) : y \in First(n, m) .. First(n, m + 1) - 1}
      BY <3>1, <1>2, <2>1
    <3> QED
      BY <3>2, <1>3
  <2>2. ASSUME NEW j \in InUse(c) PROVE \E i \in starts : j \in Follow(i, c.sbuf[i].fcnt)
    <3>1. PICK m \in R : j \in {Slot(n, y) : y \in First(n, m) .. First(n, m + 1) - 1}
      BY <1>4, <2>2
    <3> QED
      BY <3>1, <1>2
  <2> QED
    BY <2>1, <2>2
<1>6. {c.sbuf[i].msg : i \in starts} = R
  <2>1. ASSUME NEW i \in starts PROVE c.sbuf[i].msg \in R
    <3>1. PICK m \in R : i = Slot(n, First(n, m))
      BY <1>1
    <3> QED
      BY <3>1, <1>2
  <2>2. ASSUME NEW m \in R PROVE \E i \in starts : c.sbuf[i].msg = m
    BY <1>2
  <2> QED
    BY <2>1, <2>2
<1> QED
  BY <1>5, <1>6 DEF starts

\* The numbers of buffers in use.
LEMMA PendingIs ==
  ASSUME NEW c
  PROVE  /\ IsFiniteSet(InUse(c)) /\ Cardinality(InUse(c)) \in 0 .. SegMax
         /\ Cardinality(InUse(c)) = 0 <=> InUse(c) = {}
<1>1. IsFiniteSet(Ring) /\ Cardinality(Ring) = SegMax
  BY FS_Interval DEF Ring
<1>2. InUse(c) \subseteq Ring
  BY DEF InUse
<1>3. IsFiniteSet(InUse(c)) /\ Cardinality(InUse(c)) <= SegMax
  BY <1>1, <1>2, FS_Subset
<1>4. Cardinality(InUse(c)) \in Nat
  BY <1>3, FS_CardinalityType
<1> QED
  BY <1>3, <1>4, FS_EmptySet

\* A free buffer is one.
LEMMA FreeIs == FreeSndBuf \in SndBuf /\ ~FreeSndBuf.inUse /\ ~FreeSndBuf.timer
  BY DEF FreeSndBuf, SndBuf, Seqs, Ttl

\* FlushSendQueue empties the ring and reports what was in it.
LEMMA FlushSendQueueStep ==
  ASSUME Fits, NEW n \in Node, NEW s, StepT(n, s), NEW R \in SUBSET (1 .. Count(n)),
         RingHolds(n, s.c, Posns(n, R))
  PROVE  LET t == FlushSendQueue(s)
         IN  /\ StepT(n, t) /\ Beside(s.c, t.c) /\ RingHolds(n, t.c, {})
             /\ SettledApp(s.a, t.a, [m \in 1 .. Count(n) |->
                    IF m \in R THEN Append(s.a.sendCb[m], "disconnecting") ELSE s.a.sendCb[m]])
             /\ t.out = s.out /\ t.o = s.o
<1>1. PICK t : t = FlushSendQueue(s)
  OBVIOUS
<1>2. s.c \in Conn /\ AppT(n, s.a)
  BY DEF StepT
<1>3. DOMAIN s.a.sendCb = 1 .. Count(n)
  <2>1. DOMAIN Msgs[n] = 1 .. Count(n)
    BY FirstIs
  <2> QED
    BY <1>2, <2>1 DEF AppT
<1>4. PICK u : u = InUse(s.c)
  OBVIOUS
<1>5. s.c.pending = Cardinality(u) /\ Cardinality(u) \in Nat
  BY <1>4, PendingIs DEF RingHolds
<1>6. PICK ring : ring = [j \in Ring |-> IF j \in u THEN FreeSndBuf ELSE s.c.sbuf[j]]
  OBVIOUS
<1>7. ring \in [Ring -> SndBuf]
  <2>1. s.c.sbuf \in [Ring -> SndBuf]
    BY <1>2 DEF Conn
  <2> QED
    BY <1>6, <2>1, FreeIs
<1>8. PICK cb : cb = [m \in 1 .. Count(n) |->
                        IF m \in R THEN Append(s.a.sendCb[m], "disconnecting") ELSE s.a.sendCb[m]]
  OBVIOUS
<1>9. t = [s EXCEPT !.c.sbuf = ring, !.c.pending = s.c.pending - Cardinality(u), !.a.sendCb = cb]
  <2> DEFINE starts == {i \in Ring : s.c.sbuf[i].inUse /\ s.c.sbuf[i].seq = s.c.sbuf[i].som}
             frags == UNION {Follow(i, s.c.sbuf[i].fcnt) : i \in starts}
             msgs == {s.c.sbuf[i].msg : i \in starts}
  <2>1. frags = u /\ msgs = R
    BY <1>4, FlushFinds
  <2>2. t = Check([s EXCEPT
                !.c.sbuf = [j \in Ring |-> IF j \in frags THEN FreeSndBuf ELSE @[j]],
                !.c.pending = @ - Cardinality(frags),
                !.a.sendCb = [m \in DOMAIN @ |->
                                IF m \in msgs THEN Append(@[m], "disconnecting") ELSE @[m]]],
            "pending in range", Cardinality(frags) <= s.c.pending)
    BY <1>1, Zenon DEF FlushSendQueue
  <2> HIDE DEF frags, msgs
  <2>3. Cardinality(frags) <= s.c.pending
    BY <2>1, <1>5
  <2>4. t = [s EXCEPT
                !.c.sbuf = [j \in Ring |-> IF j \in frags THEN FreeSndBuf ELSE s.c.sbuf[j]],
                !.c.pending = s.c.pending - Cardinality(frags),
                !.a.sendCb = [m \in DOMAIN s.a.sendCb |->
                                IF m \in msgs THEN Append(s.a.sendCb[m], "disconnecting")
                                ELSE s.a.sendCb[m]]]
    BY <2>2, <2>3 DEF Check, StepT, Shape
  <2> QED
    BY <2>4, <2>1, <1>3, <1>6, <1>8, Zenon
<1>10. PICK z \in 0 .. SegMax : z = s.c.pending - Cardinality(u) /\ z = 0
  BY <1>5
<1>11. /\ Shape(t) /\ t.c = [s.c EXCEPT !.sbuf = ring, !.pending = z] /\ t.a = [s.a EXCEPT !.sendCb = cb]
       /\ t.jam = s.jam /\ t.out = s.out /\ t.o = s.o /\ t.ok = s.ok /\ t.broken = s.broken
  BY <1>9, <1>10 DEF Shape, StepT
<1>12. t.c \in Conn /\ Beside(s.c, t.c) /\ t.c.sbuf = ring /\ t.c.pending = 0
  BY <1>2, <1>7, <1>10, <1>11 DEF Conn, Beside
<1>13. AppT(n, t.a) /\ SettledApp(s.a, t.a, cb)
  <2>1. /\ t.a = [submitted |-> t.a.submitted, sendCb |-> t.a.sendCb, rcvd |-> t.a.rcvd,
                  held |-> t.a.held, consumed |-> t.a.consumed, connectCb |-> t.a.connectCb,
                  disconnectCb |-> t.a.disconnectCb]
        /\ SettledApp(s.a, t.a, cb)
    BY <1>2, <1>11 DEF AppT, SettledApp
  <2>2. cb = [m \in DOMAIN Msgs[n] |-> cb[m]]
    BY <1>8, FirstIs
  <2> QED
    BY <1>2, <2>1, <2>2 DEF AppT, SettledApp
<1>14. StepT(n, t)
  BY <1>11, <1>12, <1>13 DEF StepT
<1>15. RingHolds(n, t.c, {})
  <2>1. InUse(t.c) = {}
    BY <1>4, <1>6, <1>12, FreeIs DEF InUse
  <2>2. \A i \in Ring : ~t.c.sbuf[i].inUse
    BY <2>1 DEF InUse
  <2>3. \A i \in Ring : ~t.c.sbuf[i].timer
    <3> SUFFICES ASSUME NEW i \in Ring PROVE ~t.c.sbuf[i].timer
      OBVIOUS
    <3>1. CASE i \in u
      BY <3>1, <1>6, <1>12, FreeIs
    <3>2. CASE i \notin u
      BY <3>2, <1>4, <1>6, <1>12 DEF InUse, RingHolds
    <3> QED
      BY <3>1, <3>2
  <2>4. Cardinality(InUse(t.c)) = 0
    BY <2>1, FS_EmptySet
  <2> QED
    BY <2>2, <2>3, <2>4, <1>12 DEF RingHolds
<1> QED
  BY <1>1, <1>8, <1>11, <1>12, <1>13, <1>14, <1>15

\* Two moves are a move.
LEMMA MovesTrans ==
  ASSUME Fits, NEW n \in Node, NEW c1 \in Conn, NEW c2 \in Conn, NEW c3 \in Conn,
         NEW a1, NEW a2, NEW a3, NEW q, AppT(n, a1), AppT(n, a2), AppT(n, a3),
         Moves(n, c1, a1, c2, a2, q), Moves(n, c2, a2, c3, a3, q)
  PROVE  Moves(n, c1, a1, c3, a3, q)
<1>1. Len(a1.rcvd) <= Len(a3.rcvd)
  <2>1. Len(a1.rcvd) \in Nat /\ Len(a2.rcvd) \in Nat /\ Len(a3.rcvd) \in Nat
    BY LenProperties DEF AppT
  <2> QED
    BY <2>1 DEF Moves
<1>2. CbMoves(n, a1, a3, q)
  <2> SUFFICES ASSUME NEW m \in 1 .. Len(Msgs[n])
               PROVE  \/ a3.sendCb[m] = a1.sendCb[m]
                      \/ /\ a1.sendCb[m] = <<>>
                         /\ a3.sendCb[m] = <<"disconnecting">> \/ (a3.sendCb[m] = <<"ok">> /\ m <= q)
    BY DEF CbMoves
  <2>1. \/ a2.sendCb[m] = a1.sendCb[m]
        \/ /\ a1.sendCb[m] = <<>>
           /\ a2.sendCb[m] = <<"disconnecting">> \/ (a2.sendCb[m] = <<"ok">> /\ m <= q)
    BY DEF Moves, CbMoves
  <2>2. \/ a3.sendCb[m] = a2.sendCb[m]
        \/ /\ a2.sendCb[m] = <<>>
           /\ a3.sendCb[m] = <<"disconnecting">> \/ (a3.sendCb[m] = <<"ok">> /\ m <= q)
    BY DEF Moves, CbMoves
  <2> QED
    BY <2>1, <2>2, Zenon
<1>3. Est(n, c1) => Est(n, c3)
  BY DEF Moves
<1>4. ASSUME Knows(n, c1) PROVE Pos(Peer(n), c1.CUR) <= Pos(Peer(n), c3.CUR)
  <2>1. c2 # NoConn
    BY DEF Conn, NoConn, States
  <2>2. Knows(n, c2)
    BY <1>4, <2>1 DEF Knows, Moves
  <2>3. Pos(Peer(n), c1.CUR) \in Int /\ Pos(Peer(n), c2.CUR) \in Int /\ Pos(Peer(n), c3.CUR) \in Int
    <3>1. Peer(n) \in Node /\ c1.CUR \in Seqs /\ c2.CUR \in Seqs /\ c3.CUR \in Seqs
      BY PeerNode DEF Conn
    <3> QED
      BY <3>1, PosOf
  <2>4. Pos(Peer(n), c1.CUR) <= Pos(Peer(n), c2.CUR) /\ Pos(Peer(n), c2.CUR) <= Pos(Peer(n), c3.CUR)
    BY <1>4, <2>2 DEF Moves
  <2> QED
    BY <2>3, <2>4
<1> QED
  BY <1>1, <1>2, <1>3, <1>4 DEF Moves

\* A settled state is one with nothing settled in the middle.
LEMMA GoodLoose ==
  ASSUME Fits, NEW n \in Node, NEW s, NEW r, NEW b, Good(n, s, r, b), ~Closed(s.c)
  PROVE  Loose(n, s, r, b)
<1>1. s.a.disconnectCb = <<>>
  BY DEF Good, ConnOK, Ctl
<1>2. PICK f \in 1 .. s.a.submitted + 1 : SndAt(n, s.c, s.a, b.consumed, f)
  BY DEF Good, ConnOK, SndOK
<1>3. PICK N \in Nat, k \in Nat : N = Count(n) /\ k = s.a.submitted /\ k <= N
  <2>1. Count(n) \in Nat
    BY FirstIs
  <2>2. s.a.submitted \in 0 .. Count(n)
    BY DEF Good, StepT, AppT, Count
  <2> QED
    BY <2>1, <2>2
<1>4. Posns(n, f .. k) = First(n, f) .. First(n, k + 1) - 1
  <2>1. f \in 1 .. N + 1 /\ f <= k + 1
    BY <1>2, <1>3
  <2> QED
    BY <2>1, <1>3, PosnsInterval
<1>5. LooseAt(n, s.c, s.a, b.consumed, f, {})
  <2>1. RingHolds(n, s.c, Posns(n, (f .. s.a.submitted) \ {}))
    BY <1>2, <1>3, <1>4 DEF SndAt, EndOf
  <2>2. CbLoose(n, s.a, f, {})
    BY <1>2 DEF CbLoose, CbAt, SndAt
  <2> QED
    BY <2>1, <2>2, <1>2 DEF LooseAt, SndAt
<1> QED
  BY <1>1, <1>2, <1>5 DEF Good, Loose, AppOK, ConnOK

\* When all messages are settled and the ring is empty.
LEMMA AllSettled ==
  ASSUME Fits, NEW n \in Node, NEW c, NEW a, NEW d, NEW e, NEW q, NEW f \in 1 .. a.submitted + 1,
         AppT(n, a), SndNumbers(n, c, a, q, f, EndOf(n, a)), RingHolds(n, d, {}),
         d.NXT = c.NXT, d.UNA = c.UNA, d.LCS = c.LCS, d.state # "OPEN",
         e.submitted = a.submitted, CbAt(n, e, a.submitted + 1)
  PROVE  SndOK(n, d, e, q)
<1>1. PICK N \in Nat, k \in Nat : N = Count(n) /\ k = a.submitted /\ k <= N
  <2>1. Count(n) \in Nat
    BY FirstIs
  <2>2. a.submitted \in 0 .. Count(n)
    BY DEF AppT, Count
  <2> QED
    BY <2>1, <2>2
<1>2. EndOf(n, a) \in Nat /\ EndOf(n, e) = EndOf(n, a) /\ First(n, k + 1) = EndOf(n, a)
  <2>1. k + 1 \in Nat
    BY <1>1
  <2>2. \A m \in Nat : First(n, m) \in Nat
    BY FirstIs
  <2> QED
    BY <2>1, <2>2, <1>1 DEF EndOf
<1>3. RingHolds(n, d, First(n, k + 1) .. EndOf(n, a) - 1)
  <2>1. First(n, k + 1) .. EndOf(n, a) - 1 = {}
    BY <1>2
  <2> QED
    BY <2>1
<1>4. SndNumbers(n, d, e, q, k + 1, EndOf(n, e))
  BY <1>1, <1>2 DEF SndNumbers
<1> QED
  BY <1>1, <1>2, <1>3, <1>4 DEF SndOK, SndAt

\* What a segment may be does not depend on the ring of send buffers.
LEMMA SegSame ==
  ASSUME NEW n \in Node, NEW c \in Conn, NEW d \in Conn, NEW a, NEW e, NEW r, NEW b, NEW seg,
         SegOK(n, seg, c, a, r, b), d.CUR = c.CUR, e.submitted = a.submitted,
         e.consumed = a.consumed
  PROVE  SegOK(n, seg, d, e, r, b)
<1>1. c # NoConn /\ d # NoConn
  BY DEF Conn, NoConn, States
<1>2. EndOf(n, e) = EndOf(n, a)
  BY DEF EndOf
<1>3. IsNormal(n, seg, c, a, r, b) => IsNormal(n, seg, d, e, r, b)
  BY <1>1, <1>2, Zenon DEF IsNormal
<1> QED
  BY <1>3 DEF SegOK

\* A message that was reported has a status.
LEMMA ReportedIs == ASSUME NEW x \in Reported PROVE x # <<>>
BY DEF Reported

\* The same ring holds the same segments.
LEMMA RingSame ==
  ASSUME NEW n \in Node, NEW c, NEW d, NEW P, RingHolds(n, c, P), d.sbuf = c.sbuf, d.pending = c.pending
  PROVE  RingHolds(n, d, P)
BY DEF RingHolds, InUse

\* No message is in an empty ring.
LEMMA RingEmpty ==
  ASSUME Fits, NEW n \in Node, NEW c, NEW R \in SUBSET (1 .. Count(n)),
         RingHolds(n, c, Posns(n, R)), c.pending = 0
  PROVE  R = {} /\ RingHolds(n, c, {})
<1>1. InUse(c) = {}
  BY PendingIs DEF RingHolds
<1>2. ASSUME NEW m \in R PROVE FALSE
  <2>1. m \in 1 .. Count(n) /\ First(n, m) \in First(n, m) .. First(n, m + 1) - 1
    BY MessageFollow
  <2>2. Slot(n, First(n, m)) \in Ring /\ c.sbuf[Slot(n, First(n, m))].inUse
    BY <2>1, RingMessage
  <2> QED
    BY <2>2, <1>1 DEF InUse
<1>3. RingHolds(n, c, {})
  BY <1>1 DEF RingHolds, InUse
<1> QED
  BY <1>2, <1>3

\* Disconnect, in a state as UpdateSndSegments may leave it: what is not
\* settled yet is reported as cut off.
LEMMA DisconnectLoose ==
  ASSUME Fits, NEW n \in Node, NEW s, NEW r, NEW b, Loose(n, s, r, b), ~Closed(s.c),
         NEW reason \in {"reset", "invalid", "timeout", "error"}
  PROVE  LET t == Disconnect(s, reason)
         IN  Good(n, t, r, b) /\ Moves(n, s.c, s.a, t.c, t.a, b.consumed) /\ Closed(t.c)
<1>t. PICK t : t = Disconnect(s, reason)
  OBVIOUS
<1>s. StepT(n, s) /\ s.c \in Conn /\ AppT(n, s.a) /\ Shape(s)
  BY DEF Loose, StepT
<1>cl. PICK cl : cl = [s EXCEPT !.c.state = "CLOSE_WAIT"]
  OBVIOUS
<1>cl1. /\ Shape(cl) /\ cl.c = [s.c EXCEPT !.state = "CLOSE_WAIT"] /\ cl.a = s.a /\ cl.jam = s.jam
        /\ cl.out = s.out /\ cl.o = s.o /\ cl.ok = s.ok /\ cl.broken = s.broken
  BY <1>cl, <1>s DEF Shape
<1>cl2. /\ cl.c \in Conn /\ cl.c.state = "CLOSE_WAIT" /\ cl.c.sbuf = s.c.sbuf /\ cl.c.pending = s.c.pending
        /\ Core(cl.c, [s.c EXCEPT !.state = "CLOSE_WAIT"])
  BY <1>cl1, <1>s DEF Conn, States, Core
<1>cl3. StepT(n, cl)
  BY <1>cl1, <1>cl2, <1>s DEF StepT
<1>rst. PICK rst : rst = IF reason # "reset" THEN SendRst(cl) ELSE [cl EXCEPT !.ok = TRUE]
  OBVIOUS
<1>rst1. /\ StepT(n, rst) /\ Core(rst.c, cl.c) /\ rst.a = s.a
         /\ \A seg \in rst.out : seg \in s.out \/ IsRst(seg)
  <2>1. CASE reason # "reset"
    <3>1. rst = SendRst(cl)
      BY <1>rst, <2>1
    <3> QED
      BY <3>1, <1>cl3, <1>cl1, SendRstStep
  <2>2. CASE reason = "reset"
    <3>1. rst = [cl EXCEPT !.ok = TRUE]
      BY <1>rst, <2>2
    <3>2. /\ Shape(rst) /\ rst.c = cl.c /\ rst.a = cl.a /\ rst.jam = cl.jam /\ rst.out = cl.out
          /\ rst.o = cl.o /\ rst.ok = TRUE /\ rst.broken = cl.broken
      BY <3>1, <1>cl1 DEF Shape
    <3> QED
      BY <3>2, <1>cl1, <1>cl3 DEF StepT, Core
  <2> QED
    BY <2>1, <2>2
<1>f0. PICK f \in 1 .. s.a.submitted + 1 : \E F : LooseAt(n, s.c, s.a, b.consumed, f, F)
  BY DEF Loose
<1>f. PICK F : LooseAt(n, s.c, s.a, b.consumed, f, F)
  BY <1>f0
<1>R. PICK R : R = (f .. s.a.submitted) \ F
  OBVIOUS
<1>R1. R \in SUBSET (1 .. Count(n)) /\ RingHolds(n, s.c, Posns(n, R))
  <2>1. s.a.submitted \in 0 .. Count(n) /\ Count(n) \in Nat
    BY <1>s, FirstIs DEF AppT, Count
  <2> QED
    BY <2>1, <1>f, <1>R DEF LooseAt
<1>R2. RingHolds(n, rst.c, Posns(n, R)) /\ rst.c.pending = s.c.pending
  <2>1. rst.c.sbuf = s.c.sbuf /\ rst.c.pending = s.c.pending
    BY <1>rst1, <1>cl2 DEF Core
  <2> QED
    BY <2>1, <1>R1, RingSame
<1>x. PICK x : x = [m \in 1 .. Count(n) |->
                    IF m \in R THEN Append(s.a.sendCb[m], "disconnecting") ELSE s.a.sendCb[m]]
  OBVIOUS
<1>fl. PICK fl : fl = IF FlushesNow(s.c, reason) THEN FlushSendQueue(rst) ELSE rst
  OBVIOUS
<1>fl1. /\ StepT(n, fl) /\ Beside(rst.c, fl.c) /\ RingHolds(n, fl.c, {})
        /\ SettledApp(rst.a, fl.a, x) /\ fl.out = rst.out
  <2>1. CASE s.c.pending # 0
    <3>1. fl = FlushSendQueue(rst)
      BY <1>fl, <2>1 DEF FlushesNow
    <3>2. x = [m \in 1 .. Count(n) |->
                IF m \in R THEN Append(rst.a.sendCb[m], "disconnecting") ELSE rst.a.sendCb[m]]
      BY <1>rst1, <1>x
    <3>3. R \in SUBSET (1 .. Count(n)) /\ StepT(n, rst) /\ RingHolds(n, rst.c, Posns(n, R))
      BY <1>rst1, <1>R1, <1>R2
    <3> QED
      BY <3>1, <3>2, <3>3, FlushSendQueueStep
  <2>2. CASE s.c.pending = 0
    <3>1. fl = rst
      BY <1>fl, <2>2 DEF FlushesNow
    <3>2. R = {} /\ RingHolds(n, rst.c, {})
      BY <2>2, <1>R1, <1>R2, RingEmpty
    <3>3. x = s.a.sendCb
      <4>1. s.a.sendCb = [m \in 1 .. Count(n) |-> s.a.sendCb[m]]
        BY <1>s, FirstIs DEF AppT
      <4>2. x = [m \in 1 .. Count(n) |-> s.a.sendCb[m]]
        BY <1>x, <3>2
      <4> QED
        BY <4>1, <4>2
    <3> QED
      BY <3>1, <3>2, <3>3, <1>rst1 DEF Beside, SettledApp
  <2> QED
    BY <2>1, <2>2
<1>t1. t = [fl EXCEPT !.a.disconnectCb = Append(@, reason), !.c.conTimer = "disconnect",
                      !.c.reason = reason]
  BY <1>t, <1>cl, <1>rst, <1>fl DEF Disconnect, Closed
<1>t2. /\ Shape(t)
       /\ t.c = [fl.c EXCEPT !.conTimer = "disconnect", !.reason = reason]
       /\ t.a = [fl.a EXCEPT !.disconnectCb = Append(@, reason)]
       /\ t.jam = fl.jam /\ t.out = fl.out /\ t.o = fl.o /\ t.ok = fl.ok /\ t.broken = fl.broken
  BY <1>t1, <1>fl1 DEF Shape, StepT
<1>t3. /\ t.c \in Conn /\ t.c.conTimer = "disconnect" /\ t.c.reason = reason
       /\ t.c.sbuf = fl.c.sbuf /\ t.c.pending = fl.c.pending
  <2>1. fl.c \in Conn /\ reason \in Reasons
    BY <1>fl1 DEF StepT, Reasons
  <2> QED
    BY <2>1, <1>t2 DEF Conn
<1>t4. /\ t.c.state = "CLOSE_WAIT"
       /\ t.c.passive = s.c.passive /\ t.c.local = s.c.local /\ t.c.foreign = s.c.foreign
       /\ t.c.NXT = s.c.NXT /\ t.c.UNA = s.c.UNA /\ t.c.LCS = s.c.LCS
       /\ t.c.CUR = s.c.CUR /\ t.c.rLCS = s.c.rLCS /\ t.c.rbuf = s.c.rbuf /\ t.c.eack = s.c.eack
  <2>1. /\ cl.c.state = "CLOSE_WAIT"
        /\ cl.c.passive = s.c.passive /\ cl.c.local = s.c.local /\ cl.c.foreign = s.c.foreign
        /\ cl.c.NXT = s.c.NXT /\ cl.c.UNA = s.c.UNA /\ cl.c.LCS = s.c.LCS
        /\ cl.c.CUR = s.c.CUR /\ cl.c.rLCS = s.c.rLCS /\ cl.c.rbuf = s.c.rbuf /\ cl.c.eack = s.c.eack
    BY <1>cl1, <1>s DEF Conn
  <2>2. Beside(cl.c, fl.c)
    BY <1>rst1, <1>fl1 DEF Beside, Core
  <2>3. fl.c \in Conn
    BY <1>fl1 DEF StepT
  <2>5. /\ t.c.state = fl.c.state /\ t.c.passive = fl.c.passive /\ t.c.local = fl.c.local
        /\ t.c.foreign = fl.c.foreign
        /\ t.c.NXT = fl.c.NXT /\ t.c.UNA = fl.c.UNA /\ t.c.LCS = fl.c.LCS
        /\ t.c.CUR = fl.c.CUR /\ t.c.rLCS = fl.c.rLCS /\ t.c.rbuf = fl.c.rbuf /\ t.c.eack = fl.c.eack
    BY <2>3, <1>t2 DEF Conn
  <2> QED
    BY <2>1, <2>2, <2>5 DEF Beside
<1>t5. AppT(n, fl.a) /\ AppT(n, rst.a)
  BY <1>fl1, <1>rst1 DEF StepT
<1>t6. /\ t.a = [submitted |-> fl.a.submitted, sendCb |-> fl.a.sendCb, rcvd |-> fl.a.rcvd,
                 held |-> fl.a.held, consumed |-> fl.a.consumed, connectCb |-> fl.a.connectCb,
                 disconnectCb |-> Append(fl.a.disconnectCb, reason)]
  BY <1>t2, <1>t5 DEF AppT
<1>t7. /\ t.a.submitted = s.a.submitted /\ t.a.sendCb = x /\ t.a.rcvd = s.a.rcvd
       /\ t.a.held = s.a.held /\ t.a.consumed = s.a.consumed
  BY <1>t6, <1>fl1, <1>rst1 DEF SettledApp
<1>t8. AppT(n, t.a) /\ t.a.disconnectCb # <<>>
  <2>0. reason \in Statuses
    BY DEF Statuses, Reasons
  <2>1. fl.a.disconnectCb \in Seq(Statuses) /\ reason \in Statuses
    BY <2>0, <1>t5 DEF AppT
  <2>2. Append(fl.a.disconnectCb, reason) \in Seq(Statuses) /\ Append(fl.a.disconnectCb, reason) # <<>>
    BY <2>1
  <2>3. t.a.disconnectCb = Append(fl.a.disconnectCb, reason) /\ t.a.connectCb = fl.a.connectCb
    BY <1>t6
  <2>4. t.a = [submitted |-> t.a.submitted, sendCb |-> t.a.sendCb, rcvd |-> t.a.rcvd,
               held |-> t.a.held, consumed |-> t.a.consumed, connectCb |-> t.a.connectCb,
               disconnectCb |-> t.a.disconnectCb]
    BY <1>t6
  <2>5. /\ t.a.submitted = fl.a.submitted /\ t.a.sendCb = fl.a.sendCb /\ t.a.rcvd = fl.a.rcvd
        /\ t.a.held = fl.a.held /\ t.a.consumed = fl.a.consumed
    BY <1>t6
  <2> QED
    BY <2>2, <2>3, <2>4, <2>5, <1>t5 DEF AppT
<1>1. StepT(n, t)
  BY <1>t2, <1>t3, <1>t8, <1>fl1 DEF StepT
<1>2. \A m \in 1 .. Len(Msgs[n]) :
         /\ m < s.a.submitted + 1 => t.a.sendCb[m] \in Reported
         /\ ~(m < s.a.submitted + 1) => t.a.sendCb[m] = <<>>
         /\ \/ t.a.sendCb[m] = s.a.sendCb[m]
            \/ s.a.sendCb[m] = <<>> /\ t.a.sendCb[m] = <<"disconnecting">>
  <2> TAKE m \in 1 .. Len(Msgs[n])
  <2>1. m \in 1 .. Count(n)
    BY DEF Count
  <2>2. s.a.submitted \in Nat /\ Len(Msgs[n]) \in Nat /\ f \in 1 .. s.a.submitted + 1
    BY <1>s, <1>f, FirstIs DEF AppT, Count
  <2>3. t.a.sendCb[m] = IF m \in R THEN Append(s.a.sendCb[m], "disconnecting") ELSE s.a.sendCb[m]
    BY <2>1, <1>t7, <1>x
  <2>4. /\ m < f => s.a.sendCb[m] \in Reported
        /\ ~(m < f) /\ m \in F => s.a.sendCb[m] = <<"ok">>
        /\ ~(m < f) /\ m \notin F => s.a.sendCb[m] = <<>>
    BY <1>f DEF LooseAt, CbLoose
  <2>5. F \subseteq f .. s.a.submitted
    BY <1>f DEF LooseAt
  <2>6. CASE m < f
    BY <2>2, <2>3, <2>4, <2>6, <1>R
  <2>7. CASE ~(m < f) /\ m \in F
    <3>1. m \notin R /\ m < s.a.submitted + 1
      BY <2>2, <2>5, <2>7, <1>R
    <3>2. t.a.sendCb[m] = s.a.sendCb[m] /\ s.a.sendCb[m] = <<"ok">>
      BY <3>1, <2>3, <2>4, <2>7
    <3> QED
      BY <3>1, <3>2 DEF Reported
  <2>8. CASE ~(m < f) /\ m \notin F /\ m < s.a.submitted + 1
    <3>1. m \in R
      BY <2>8, <2>2, <1>R
    <3>2. t.a.sendCb[m] = Append(<<>>, "disconnecting")
      BY <3>1, <2>3, <2>4, <2>8
    <3>3. t.a.sendCb[m] = <<"disconnecting">>
      BY <3>2
    <3> QED
      BY <3>3, <2>4, <2>8 DEF Reported
  <2>9. CASE ~(m < s.a.submitted + 1)
    <3>1. m \notin R /\ ~(m < f) /\ m \notin F
      BY <2>9, <2>2, <1>R, <2>5
    <3> QED
      BY <3>1, <2>3, <2>4, <2>9
  <2> QED
    BY <2>6, <2>7, <2>8, <2>9
<1>3. AppOK(n, t.a, b)
  <2>1. RcvApp(Peer(n), t.a, b.submitted)
    BY <1>t7 DEF Loose, RcvApp
  <2>2. CbAt(n, t.a, s.a.submitted + 1)
    BY <1>2 DEF CbAt
  <2>3. s.a.submitted + 1 \in 1 .. t.a.submitted + 1
    BY <1>s, <1>t7, <1>f DEF AppT
  <2>4. \A m \in 1 .. t.a.submitted : t.a.sendCb[m] # <<>>
    <3> TAKE m \in 1 .. t.a.submitted
    <3>0. s.a.submitted \in 0 .. Len(Msgs[n]) /\ Len(Msgs[n]) \in Nat
      BY <1>s, FirstIs DEF AppT, Count
    <3>1. m \in 1 .. Len(Msgs[n]) /\ m < s.a.submitted + 1
      BY <3>0, <1>t7
    <3>2. t.a.sendCb[m] \in Reported
      BY <3>1, <1>2
    <3> QED
      BY <3>2, ReportedIs
  <2>5. EndOf(n, t.a) <= First(n, b.consumed + 1) + SegMax
    BY <1>t7 DEF EndOf, Loose
  <2> QED
    BY <2>1, <2>2, <2>3, <2>4, <2>5, <1>t7 DEF AppOK
<1>4. ConnOK(n, t.c, t.a, r, b)
  <2>1. Ctl(n, t.c, t.a)
    <3>1. Ctl(n, s.c, s.a)
      BY DEF Loose
    <3>2. t.c.pending = 0
      <4>1. InUse(t.c) = {}
        BY <1>t3, <1>fl1 DEF RingHolds, InUse
      <4> QED
        BY <4>1, <1>t3, <1>fl1, PendingIs DEF RingHolds, InUse
    <3>3. Est(n, t.c) <=> Est(n, s.c)
      BY <1>t4 DEF Est
    <3> QED
      BY <3>1, <3>2, <3>3, <1>t3, <1>t4, <1>t7 DEF Ctl, Closed
  <2>2. SndOK(n, t.c, t.a, b.consumed)
    <3>1. RingHolds(n, t.c, {})
      BY <1>t3, <1>fl1, RingSame
    <3>2. SndNumbers(n, s.c, s.a, b.consumed, f, EndOf(n, s.a))
      BY <1>f DEF LooseAt
    <3>3. CbAt(n, t.a, s.a.submitted + 1)
      BY <1>2 DEF CbAt
    <3> QED
      BY <3>1, <3>2, <3>3, <1>t4, <1>t7, <1>s, <1>f, AllSettled
  <2>3. RcvOK(n, t.c, t.a, b.submitted)
    <3>1. RcvOK(n, s.c, s.a, b.submitted)
      BY DEF Loose
    <3>2. RcvHeld(Peer(n), t.c, t.a)
      BY <3>1, <1>t4, <1>t7 DEF RcvOK, RcvHeld
    <3>3. Est(n, t.c) <=> Est(n, s.c)
      BY <1>t4 DEF Est
    <3> QED
      BY <3>1, <3>2, <3>3, <1>t4, <1>t7 DEF RcvOK
  <2> QED
    BY <2>1, <2>2, <2>3, <1>t4 DEF ConnOK, Loose
<1>5. \A seg \in t.out : SegOK(n, seg, t.c, t.a, r, b)
  <2> TAKE seg \in t.out
  <2>1. CASE IsRst(seg)
    BY <2>1 DEF SegOK
  <2>2. CASE ~IsRst(seg)
    <3>1. seg \in s.out
      BY <2>2, <1>t2, <1>fl1, <1>rst1
    <3>2. SegOK(n, seg, s.c, s.a, r, b)
      BY <3>1 DEF Loose
    <3> QED
      BY <3>2, <1>s, <1>t3, <1>t4, <1>t7, SegSame
  <2> QED
    BY <2>1, <2>2
<1>6. Good(n, t, r, b)
  BY <1>1, <1>3, <1>4, <1>5 DEF Good, Loose
<1>7. Moves(n, s.c, s.a, t.c, t.a, b.consumed)
  <2>1. CbMoves(n, s.a, t.a, b.consumed)
    BY <1>2 DEF CbMoves
  <2>2. Len(s.a.rcvd) \in Nat /\ Pos(Peer(n), s.c.CUR) \in Int
    <3>1. Len(s.a.rcvd) \in Nat
      BY <1>s, LenProperties DEF AppT
    <3>2. s.c.CUR \in Seqs /\ Peer(n) \in Node
      BY <1>s, PeerNode DEF Conn
    <3> QED
      BY <3>1, <3>2, PosOf
  <2>3. Est(n, s.c) => Est(n, t.c)
    BY <1>t4 DEF Est
  <2> QED
    BY <2>1, <2>2, <2>3, <1>t4, <1>t7 DEF Moves, Loose
<1> QED
  BY <1>6, <1>7, <1>t, <1>t4 DEF Closed

\* ARDP_Disconnect: the callbacks wait for the timer.
LEMMA DisconnectOk ==
  ASSUME Fits, NEW n \in Node, NEW s, NEW r, NEW b, Good(n, s, r, b), ~Closed(s.c)
  PROVE  LET t == Disconnect(s, "ok")
         IN  Good(n, t, r, b) /\ Moves(n, s.c, s.a, t.c, t.a, b.consumed) /\ Closed(t.c)
<1>t. PICK t : t = Disconnect(s, "ok")
  OBVIOUS
<1>s. StepT(n, s) /\ s.c \in Conn /\ AppT(n, s.a) /\ Shape(s)
  BY DEF Good, StepT
<1>cl. PICK cl : cl = [s EXCEPT !.c.state = "CLOSE_WAIT"]
  OBVIOUS
<1>cl1. /\ Shape(cl) /\ cl.c = [s.c EXCEPT !.state = "CLOSE_WAIT"] /\ cl.a = s.a /\ cl.jam = s.jam
        /\ cl.out = s.out /\ cl.o = s.o /\ cl.ok = s.ok /\ cl.broken = s.broken
  BY <1>cl, <1>s DEF Shape
<1>cl2. cl.c \in Conn
  BY <1>cl1, <1>s DEF Conn, States
<1>cl3. StepT(n, cl)
  BY <1>cl1, <1>cl2, <1>s DEF StepT
<1>rst. PICK rst : rst = SendRst(cl)
  OBVIOUS
<1>rst1. /\ StepT(n, rst) /\ Core(rst.c, cl.c) /\ rst.a = s.a
         /\ \A seg \in rst.out : seg \in s.out \/ IsRst(seg)
  BY <1>rst, <1>cl3, <1>cl1, SendRstStep
<1>rst2. Shape(rst) /\ rst.c \in Conn
  BY <1>rst1 DEF StepT
<1>t1. t = [rst EXCEPT !.a.disconnectCb = @, !.c.conTimer = "disconnect", !.c.reason = "ok"]
  BY <1>t, <1>cl, <1>rst DEF Disconnect, Closed, FlushesNow
<1>t2. /\ Shape(t)
       /\ t.c = [rst.c EXCEPT !.conTimer = "disconnect", !.reason = "ok"]
       /\ t.a = [rst.a EXCEPT !.disconnectCb = rst.a.disconnectCb]
       /\ t.jam = rst.jam /\ t.out = rst.out /\ t.o = rst.o /\ t.ok = rst.ok /\ t.broken = rst.broken
  BY <1>t1, <1>rst2 DEF Shape
<1>t3. /\ t.c \in Conn /\ t.c.conTimer = "disconnect" /\ t.c.reason = "ok"
       /\ t.c.state = "CLOSE_WAIT"
       /\ t.c.passive = s.c.passive /\ t.c.local = s.c.local /\ t.c.foreign = s.c.foreign
       /\ t.c.NXT = s.c.NXT /\ t.c.UNA = s.c.UNA /\ t.c.LCS = s.c.LCS
       /\ t.c.CUR = s.c.CUR /\ t.c.rLCS = s.c.rLCS /\ t.c.rbuf = s.c.rbuf /\ t.c.eack = s.c.eack
       /\ t.c.sbuf = s.c.sbuf /\ t.c.pending = s.c.pending
  <2>1. /\ cl.c.state = "CLOSE_WAIT"
        /\ cl.c.passive = s.c.passive /\ cl.c.local = s.c.local /\ cl.c.foreign = s.c.foreign
        /\ cl.c.NXT = s.c.NXT /\ cl.c.UNA = s.c.UNA /\ cl.c.LCS = s.c.LCS
        /\ cl.c.CUR = s.c.CUR /\ cl.c.rLCS = s.c.rLCS /\ cl.c.rbuf = s.c.rbuf /\ cl.c.eack = s.c.eack
        /\ cl.c.sbuf = s.c.sbuf /\ cl.c.pending = s.c.pending
    BY <1>cl1, <1>s DEF Conn
  <2>2. Core(rst.c, cl.c)
    BY <1>rst1
  <2>3. /\ t.c \in Conn /\ t.c.conTimer = "disconnect" /\ t.c.reason = "ok"
    BY <1>rst2, <1>t2 DEF Conn, Reasons
  <2>5. /\ t.c.state = rst.c.state /\ t.c.passive = rst.c.passive /\ t.c.local = rst.c.local
        /\ t.c.foreign = rst.c.foreign
        /\ t.c.NXT = rst.c.NXT /\ t.c.UNA = rst.c.UNA /\ t.c.LCS = rst.c.LCS
        /\ t.c.CUR = rst.c.CUR /\ t.c.rLCS = rst.c.rLCS /\ t.c.rbuf = rst.c.rbuf /\ t.c.eack = rst.c.eack
        /\ t.c.sbuf = rst.c.sbuf /\ t.c.pending = rst.c.pending
    BY <1>rst2, <1>t2 DEF Conn
  <2> QED
    BY <2>1, <2>2, <2>3, <2>5 DEF Core
<1>t4. t.a = s.a
  <2>1. t.a = rst.a
    BY <1>t2, <1>rst1, <1>s DEF AppT
  <2> QED
    BY <2>1, <1>rst1
<1>1. StepT(n, t)
  BY <1>t2, <1>t3, <1>t4, <1>s, <1>rst1 DEF StepT
<1>2. AppOK(n, t.a, b)
  BY <1>t4 DEF Good
<1>3. Est(n, t.c) <=> Est(n, s.c)
  BY <1>t3 DEF Est
<1>4. ConnOK(n, t.c, t.a, r, b)
  <2>1. Ctl(n, t.c, t.a)
    <3>1. Ctl(n, s.c, s.a)
      BY DEF Good, ConnOK
    <3> QED
      BY <3>1, <1>3, <1>t3, <1>t4 DEF Ctl, Closed
  <2>2. SndOK(n, t.c, t.a, b.consumed)
    <3>1. PICK f \in 1 .. s.a.submitted + 1 : SndAt(n, s.c, s.a, b.consumed, f)
      BY DEF Good, ConnOK, SndOK
    <3>2. RingHolds(n, t.c, First(n, f) .. EndOf(n, s.a) - 1)
      BY <3>1, <1>t3, RingSame DEF SndAt
    <3>3. SndNumbers(n, t.c, t.a, b.consumed, f, EndOf(n, s.a))
      BY <3>1, <1>t3, <1>t4 DEF SndAt, SndNumbers
    <3> QED
      BY <3>1, <3>2, <3>3, <1>t4 DEF SndOK, SndAt
  <2>3. RcvOK(n, t.c, t.a, b.submitted)
    <3>1. RcvOK(n, s.c, s.a, b.submitted)
      BY DEF Good, ConnOK
    <3>2. RcvHeld(Peer(n), t.c, t.a)
      BY <3>1, <1>t3, <1>t4 DEF RcvOK, RcvHeld
    <3> QED
      BY <3>1, <3>2, <1>3, <1>t3, <1>t4 DEF RcvOK
  <2> QED
    BY <2>1, <2>2, <2>3, <1>t3 DEF ConnOK, Good
<1>5. \A seg \in t.out : SegOK(n, seg, t.c, t.a, r, b)
  <2> TAKE seg \in t.out
  <2>1. CASE IsRst(seg)
    BY <2>1 DEF SegOK
  <2>2. CASE ~IsRst(seg)
    <3>1. seg \in s.out
      BY <2>2, <1>t2, <1>rst1
    <3>2. SegOK(n, seg, s.c, s.a, r, b)
      BY <3>1 DEF Good
    <3> QED
      BY <3>2, <1>s, <1>t3, <1>t4, SegSame
  <2> QED
    BY <2>1, <2>2
<1>6. Good(n, t, r, b)
  BY <1>1, <1>2, <1>4, <1>5 DEF Good
<1>7. Moves(n, s.c, s.a, t.c, t.a, b.consumed)
  <2>1. CbMoves(n, s.a, t.a, b.consumed)
    BY <1>t4 DEF CbMoves
  <2>2. Len(s.a.rcvd) \in Nat /\ Pos(Peer(n), s.c.CUR) \in Int
    <3>1. Len(s.a.rcvd) \in Nat
      BY <1>s, LenProperties DEF AppT
    <3>2. s.c.CUR \in Seqs /\ Peer(n) \in Node
      BY <1>s, PeerNode DEF Conn
    <3> QED
      BY <3>1, <3>2, PosOf
  <2> QED
    BY <2>1, <2>2, <1>3, <1>t3, <1>t4 DEF Moves
<1> QED
  BY <1>6, <1>7, <1>t, <1>t3 DEF Closed

\* Disconnect, for every reason and in every state.
LEMMA DisconnectGood ==
  ASSUME Fits, NEW n \in Node, NEW s, NEW r, NEW b, Good(n, s, r, b), NEW reason \in Statuses
  PROVE  LET t == Disconnect(s, reason)
         IN  Good(n, t, r, b) /\ Moves(n, s.c, s.a, t.c, t.a, b.consumed) /\ Closed(t.c)
<1>1. CASE Closed(s.c)
  <2>1. PICK t : t = Disconnect(s, reason)
    OBVIOUS
  <2>2. t = [s EXCEPT !.ok = TRUE]
    BY <1>1, <2>1 DEF Disconnect, Closed
  <2>3. StepT(n, s)
    BY DEF Good
  <2>4. /\ Shape(t) /\ t.c = s.c /\ t.a = s.a /\ t.jam = s.jam /\ t.out = s.out
        /\ t.o = s.o /\ t.ok = TRUE /\ t.broken = s.broken
    BY <2>2, <2>3 DEF Shape, StepT
  <2>5. StepT(n, t) /\ Core(s.c, t.c) /\ SameApp(s.a, t.a)
    BY <2>3, <2>4 DEF StepT, Core, SameApp
  <2>6. \A seg \in t.out : seg \in s.out \/ SegOK(n, seg, s.c, s.a, r, b)
    BY <2>4
  <2>7. Good(n, t, r, b) /\ Moves(n, s.c, s.a, t.c, t.a, b.consumed)
    BY <2>5, <2>6, Quiet
  <2> QED
    BY <2>1, <2>4, <2>7, <1>1
<1>2. CASE ~Closed(s.c) /\ reason = "ok"
  BY <1>2, DisconnectOk
<1>3. CASE ~Closed(s.c) /\ reason # "ok"
  <2>1. Loose(n, s, r, b)
    BY <1>3, GoodLoose
  <2>2. reason \in {"reset", "invalid", "timeout", "error"}
    BY <1>3 DEF Statuses, Reasons
  <2> QED
    BY <2>1, <2>2, <1>3, DisconnectLoose
<1> QED
  BY <1>1, <1>2, <1>3

\* The header and payload that SendMsgData writes for a buffer.
LEMMA DataSegIs ==
  ASSUME Fits, NEW n \in Node, NEW c \in Conn, NEW b \in SndBuf
  PROVE  LET seg == [Segment(c, {"ACK"}, b.seq, c.CUR) EXCEPT
                       !.data = <<b.msg, Minus(b.seq, b.som)>>,
                       !.som = b.som, !.fcnt = b.fcnt, !.ttl = b.ttl]
         IN  DataSeg(WithEack(c, seg), c, b)
<1>1. PICK m0 \in [WordIds -> SUBSET Bits], m1 \in [WordIds -> SUBSET Bits] :
        m0 = NoEack.mask /\ m1 = WireMask(c)
  BY WireMaskType
<1>2. c.local \in Nat /\ c.foreign \in Nat /\ c.rLCS \in Seqs /\ c.UNA \in Seqs /\ c.CUR \in Seqs
  BY DEF Conn
<1>3. b.seq \in Seqs /\ b.som \in Seqs /\ b.fcnt \in 0 .. SegMax /\ b.ttl \in Ttl /\ b.msg \in Nat
  BY DEF SndBuf
<1>4. PICK d \in Data : d = <<b.msg, Minus(b.seq, b.som)>>
  <2>1. Minus(b.seq, b.som) \in Nat
    BY <1>3, PosMinus DEF Seqs
  <2> QED
    BY <1>3, <2>1 DEF Data
<1>5. PICK h : h = [Segment(c, {"ACK"}, b.seq, c.CUR) EXCEPT
                       !.data = <<b.msg, Minus(b.seq, b.som)>>,
                       !.som = b.som, !.fcnt = b.fcnt, !.ttl = b.ttl]
  OBVIOUS
<1>6. h = [src |-> c.local, dst |-> c.foreign, flg |-> {"ACK"}, seq |-> b.seq, ack |-> c.CUR,
           lcs |-> c.rLCS, acknxt |-> c.UNA, eack |-> m0,
           data |-> d, som |-> b.som, fcnt |-> b.fcnt, ttl |-> b.ttl]
  BY <1>1, <1>4, <1>5 DEF Segment
<1>7. /\ h \in Segs
      /\ h.flg = {"ACK"} /\ h.src = c.local /\ h.dst = c.foreign /\ h.seq = b.seq /\ h.ack = c.CUR
      /\ h.lcs = c.rLCS /\ h.acknxt = c.UNA /\ h.data = d /\ h.som = b.som /\ h.fcnt = b.fcnt
      /\ h.ttl = b.ttl
  BY <1>2, <1>3, <1>4, <1>6 DEF Segs, Flags
<1>8. PICK g : g = WithEack(c, h)
  OBVIOUS
<1>9. /\ g \in Segs
      /\ {"RST", "SYN"} \cap g.flg = {} /\ g.src = h.src /\ g.dst = h.dst /\ g.seq = h.seq
      /\ g.ack = h.ack /\ g.lcs = h.lcs /\ g.acknxt = h.acknxt /\ g.data = h.data /\ g.som = h.som
      /\ g.fcnt = h.fcnt /\ g.ttl = h.ttl
  <2>1. CASE c.eack.sz = 0
    BY <1>7, <1>8, <2>1 DEF WithEack
  <2>2. CASE c.eack.sz # 0
    <3>1. PICK f : f = h.flg \cup {"EACK"}
      OBVIOUS
    <3>2. f \in SUBSET Flags /\ {"RST", "SYN"} \cap f = {}
      BY <3>1, <1>7 DEF Flags
    <3>3. g = [h EXCEPT !.flg = f, !.eack = m1]
      BY <1>8, <2>2, <1>1, <3>1 DEF WithEack
    <3> QED
      BY <1>7, <1>1, <3>2, <3>3 DEF Segs
  <2> QED
    BY <2>1, <2>2
<1> QED
  BY <1>4, <1>5, <1>7, <1>8, <1>9 DEF DataSeg

\* SendMsgData sends a buffer or finds the socket jammed.
LEMMA SendMsgDataStep ==
  ASSUME Fits, NEW n \in Node, NEW s, StepT(n, s), NEW i \in Ring
  PROVE  LET t == SendMsgData(s, i)
         IN  /\ StepT(n, t)
             /\ Core(s.c, t.c) /\ t.a = s.a /\ t.o = s.o /\ t.broken = s.broken
             /\ t.ok \/ t.jam
             /\ \A g \in t.out : g \in s.out \/ DataSeg(g, s.c, s.c.sbuf[i])
<1>1. s.c \in Conn /\ s.c.sbuf[i] \in SndBuf
  BY DEF StepT, Conn
<1>b. PICK b \in SndBuf : b = s.c.sbuf[i]
  BY <1>1
<1>2. PICK h : h = [Segment(s.c, {"ACK"}, b.seq, s.c.CUR) EXCEPT
                       !.data = <<b.msg, Minus(b.seq, b.som)>>,
                       !.som = b.som, !.fcnt = b.fcnt, !.ttl = b.ttl]
  OBVIOUS
<1>x. PICK g : g = WithEack(s.c, h)
  OBVIOUS
<1>3. g \in Segs /\ DataSeg(g, s.c, b)
  <2>1. DataSeg(g, s.c, b)
    BY <1>1, <1>b, <1>2, <1>x, DataSegIs
  <2> QED
    BY <2>1 DEF DataSeg
<1>4. PICK e : e = Emit(s, g)
  OBVIOUS
<1>5. /\ StepT(n, e)
      /\ e.c = s.c /\ e.a = s.a /\ e.jam = s.jam /\ e.o = s.o /\ e.broken = s.broken
      /\ e.out \subseteq s.out \cup {g}
      /\ s.o # "block" <=> e.ok
  BY <1>3, <1>4, EmitStep
<1>6. PICK t : t = SendMsgData(s, i)
  OBVIOUS
<1>7. t = CASE e.ok -> [e EXCEPT !.c.ackTimer = FALSE, !.jam = FALSE]
            [] s.o = "block" -> [e EXCEPT !.jam = TRUE]
            [] OTHER -> e
  BY <1>b, <1>2, <1>x, <1>4, <1>6 DEF SendMsgData
<1>8. CASE e.ok
  <2>1. t = [e EXCEPT !.c.ackTimer = FALSE, !.jam = FALSE]
    BY <1>5, <1>7, <1>8
  <2>2. /\ Shape(t) /\ t.c = [e.c EXCEPT !.ackTimer = FALSE] /\ t.a = e.a /\ t.jam = FALSE
        /\ t.out = e.out /\ t.o = e.o /\ t.ok = e.ok /\ t.broken = e.broken
    BY <1>5, <2>1 DEF Shape, StepT
  <2>3. t.c \in Conn /\ Core(e.c, t.c)
    <3>1. e.c \in Conn
      BY <1>5 DEF StepT
    <3> QED
      BY <2>2, <3>1 DEF Conn, Core
  <2>4. StepT(n, t)
    BY <1>5, <2>2, <2>3 DEF StepT
  <2> QED
    BY <1>3, <1>b, <1>5, <1>6, <1>8, <2>2, <2>3, <2>4
<1>9. CASE ~e.ok
  <2>1. t = [e EXCEPT !.jam = TRUE]
    BY <1>5, <1>7, <1>9
  <2>2. /\ Shape(t) /\ t.c = e.c /\ t.a = e.a /\ t.jam = TRUE /\ t.out = e.out
        /\ t.o = e.o /\ t.ok = e.ok /\ t.broken = e.broken
    BY <1>5, <2>1 DEF Shape, StepT
  <2>3. StepT(n, t)
    BY <1>5, <2>2 DEF StepT
  <2> QED
    BY <1>3, <1>b, <1>5, <1>6, <2>2, <2>3 DEF Core
<1> QED
  BY <1>8, <1>9

\* run is the loop of SendData, turn by turn.
SendRuns(run, s, m, fcnt, ttl, os) ==
  /\ run[0] = [s EXCEPT !.ok = TRUE]
  /\ \A k \in 1 .. fcnt : run[k] = SendTurn(run[k - 1], m, fcnt, ttl, s.c.NXT, k, os)
  /\ SendData(s, m, fcnt, ttl, os) = run[fcnt]

\* The turns of the loop of SendData, one after the other.
LEMMA SendRun ==
  ASSUME NEW s, NEW m, NEW fcnt \in Nat, NEW ttl, NEW os
  PROVE  \E run : SendRuns(run, s, m, fcnt, ttl, os)
<1> DEFINE Turn(t, k) == SendTurn(t, m, fcnt, ttl, s.c.NXT, k, os)
           s0 == [s EXCEPT !.ok = TRUE]
           Runs(j) == \E f : f = [k \in 0 .. j |-> IF k = 0 THEN s0 ELSE Turn(f[k - 1], k)]
           S == {j \in Nat : ~Runs(j)}
<1>1. SendData(s, m, fcnt, ttl, os) =
         (CHOOSE f : f = [k \in 0 .. fcnt |-> IF k = 0 THEN s0 ELSE Turn(f[k - 1], k)])[fcnt]
  BY Zenon DEF SendData
<1> HIDE DEF Turn, s0
<1>2. Runs(fcnt)
  <2> SUFFICES ASSUME S # {} PROVE FALSE
    OBVIOUS
  <2>1. PICK x \in S : \A j \in S : x <= j
    <3> HIDE DEF S
    <3>1. S \in SUBSET Nat
      BY DEF S
    <3> QED
      BY <3>1, SmallestNat
  <2>2. x # 0
    <3>1. PICK f : f = [k \in 0 .. 0 |-> s0]
      OBVIOUS
    <3>2. f = [k \in 0 .. 0 |-> IF k = 0 THEN s0 ELSE Turn(f[k - 1], k)]
      BY <3>1
    <3>3. Runs(0)
      BY <3>2
    <3> QED
      BY <3>3
  <2>3. x \in Nat /\ x - 1 \in Nat /\ x - 1 \notin S
    <3>1. x \in Nat
      BY <2>1
    <3> HIDE DEF S
    <3> QED
      BY <3>1, <2>1, <2>2
  <2>4. PICK f : f = [k \in 0 .. x - 1 |-> IF k = 0 THEN s0 ELSE Turn(f[k - 1], k)]
    BY <2>3
  <2>5. PICK g : g = [k \in 0 .. x |-> IF k = x THEN Turn(f[x - 1], x) ELSE f[k]]
    OBVIOUS
  <2>6. ASSUME NEW k \in 0 .. x PROVE g[k] = IF k = 0 THEN s0 ELSE Turn(g[k - 1], k)
    <3>1. CASE k = x
      <4>1. g[k] = Turn(f[x - 1], x) /\ g[x - 1] = f[x - 1]
        BY <3>1, <2>3, <2>5
      <4> QED
        BY <4>1, <3>1, <2>2
    <3>2. CASE k # x /\ k # 0
      <4>1. k \in 0 .. x - 1 /\ k - 1 \in 0 .. x - 1 /\ k - 1 # x
        BY <3>2, <2>3
      <4>2. g[k] = f[k] /\ g[k - 1] = f[k - 1]
        BY <4>1, <3>2, <2>5, <2>3
      <4>3. f[k] = Turn(f[k - 1], k)
        BY <4>1, <2>4, <3>2
      <4> QED
        BY <4>2, <4>3, <3>2
    <3>3. CASE k # x /\ k = 0
      <4>1. k \in 0 .. x - 1
        BY <3>3, <2>3
      <4> QED
        BY <4>1, <3>3, <2>4, <2>5
    <3> QED
      BY <3>1, <3>2, <3>3
  <2>7. g = [k \in 0 .. x |-> IF k = 0 THEN s0 ELSE Turn(g[k - 1], k)]
    BY <2>5, <2>6
  <2>8. Runs(x)
    BY <2>7
  <2> QED
    BY <2>1, <2>8
<1>3. PICK run : run = CHOOSE f : f = [k \in 0 .. fcnt |-> IF k = 0 THEN s0 ELSE Turn(f[k - 1], k)]
  OBVIOUS
<1>4. run = [k \in 0 .. fcnt |-> IF k = 0 THEN s0 ELSE Turn(run[k - 1], k)]
  BY <1>2, <1>3
<1>5. run[0] = s0
  BY <1>4
<1>6. ASSUME NEW k \in 1 .. fcnt PROVE run[k] = Turn(run[k - 1], k)
  BY <1>4
<1>7. SendRuns(run, s, m, fcnt, ttl, os)
  BY <1>1, <1>3, <1>5, <1>6 DEF Turn, s0, SendRuns
<1> QED
  BY <1>7

\* A connection record with such a ring, timer, count and next number is one.
LEMMA FilledConn ==
  ASSUME NEW c \in Conn, NEW ring \in [Ring -> SndBuf], NEW z \in 0 .. PersistRetries,
         NEW pd \in 0 .. SegMax, NEW nx \in Seqs
  PROVE  [c EXCEPT !.sbuf = ring, !.persist = z, !.pending = pd, !.NXT = nx] \in Conn
BY DEF Conn

\* One turn of the loop of SendData fills the next buffer.
LEMMA SendTurnStep ==
  ASSUME Fits, NEW n \in Node, NEW s, s.c \in Conn, NEW t, NEW m \in 1 .. Count(n), NEW f \in 1 .. m,
         NEW fcnt, fcnt = Msgs[n][m].fcnt, NEW k \in 1 .. fcnt, NEW os,
         os[k] \in Outcome \ {"error"},
         (First(n, m) + k) - First(n, f) <= SegMax,
         Sending(n, s, t, f, m, k - 1)
  PROVE  Sending(n, s, SendTurn(t, m, fcnt, "inf", SeqAt(n, First(n, m)), k, os), f, m, k)
<1>fm. PICK A \in Nat, B \in Nat : A = First(n, f) /\ B = First(n, m) /\ A <= B /\ 1 <= A
  <2>0. Count(n) \in Nat
    BY FirstIs
  <2>1. f \in 1 .. Count(n) + 1 /\ m \in 1 .. Count(n) + 1 /\ f <= m /\ f \in Int /\ m \in Int
    BY <2>0
  <2>2. First(n, f) \in Nat /\ First(n, m) \in Nat /\ First(n, f) >= 1
        /\ First(n, f) + (m - f) <= First(n, m)
    BY <2>1, FirstMono
  <2> QED
    BY <2>1, <2>2
<1>n. PICK T \in Nat : T = Total(n) /\ First(n, m + 1) = B + fcnt /\ B + fcnt <= T /\ T + SegMax < Half
        /\ fcnt \in 1 .. SegMax /\ Half \in Nat /\ Half + Half = SeqSpace
  BY <1>fm, Message, FirstIs
<1>x. PICK x \in Nat : x = (B + k) - 1 /\ x <= T /\ x \in B .. (B + k) - 1 /\ x \in A .. (B + k) - 1
        /\ x < B + fcnt /\ B <= x /\ (B + (k - 1)) = x /\ x < SeqSpace /\ x + 1 < SeqSpace
  BY <1>fm, <1>n
<1>i. PICK i \in Ring : i = Slot(n, x)
  <2>1. x \in 0 .. Total(n) + SegMax
    BY <1>x, <1>n
  <2> QED
    BY <2>1, SlotIs
<1>i2. (Idx(SeqAt(n, First(n, m))) + k - 1) % SegMax = i
  <2>1. k - 1 \in Nat /\ B + (k - 1) <= Total(n) + SegMax
    BY <1>n, <1>x
  <2>2. (Slot(n, B) + (k - 1)) % SegMax = Slot(n, B + (k - 1))
    BY <2>1, SlotNext
  <2>3. Slot(n, B) \in Nat
    <3>1. B \in 0 .. Total(n) + SegMax
      BY <1>n, <1>fm
    <3> QED
      BY <3>1, SlotIs DEF Ring
  <2>4. (Slot(n, B) + k) - 1 = Slot(n, B) + (k - 1)
    BY <2>1, <2>3
  <2> QED
    BY <2>2, <2>4, <1>fm, <1>x, <1>i DEF Slot
<1>t. /\ StepT(n, t) /\ t.c \in Conn /\ Shape(t) /\ t.ok /\ t.a = s.a /\ Filling(s.c, t.c)
      /\ t.c.NXT = SeqAt(n, x)
      /\ RingHolds(n, t.c, A .. x - 1)
      /\ \A g \in t.out : \E b : \E y \in B .. x - 1 : DataSeg(g, s.c, b) /\ Fragment(n, b, m, y)
  <2>1. (B + (k - 1)) - 1 = x - 1
    BY <1>x
  <2>2. /\ StepT(n, t) /\ t.ok /\ t.a = s.a /\ Filling(s.c, t.c)
        /\ t.c.NXT = SeqAt(n, B + (k - 1))
        /\ RingHolds(n, t.c, A .. (B + (k - 1)) - 1)
        /\ \A g \in t.out : \E b : \E y \in B .. (B + (k - 1)) - 1 :
              DataSeg(g, s.c, b) /\ Fragment(n, b, m, y)
    BY <1>fm DEF Sending
  <2>3. t.c \in Conn /\ Shape(t)
    BY <2>2 DEF StepT
  <2> QED
    BY <2>1, <2>2, <2>3, <1>x
<1>b. PICK bb \in SndBuf : bb = [t.c.sbuf[i] EXCEPT !.seq = SeqAt(n, x), !.som = SeqAt(n, B),
                                                  !.fcnt = fcnt, !.ttl = "inf", !.msg = m]
  <2>1. t.c.sbuf[i] \in SndBuf
    BY <1>t DEF Conn
  <2>2. SeqAt(n, x) \in Seqs /\ SeqAt(n, B) \in Seqs
    BY AtPos, <1>x, <1>fm
  <2>3. fcnt \in 0 .. SegMax /\ m \in Nat
    BY <1>n
  <2> QED
    BY <2>1, <2>2, <2>3 DEF SndBuf, Ttl
<1>b1. Fragment(n, bb, m, x)
  BY <1>b, <1>t, <1>fm DEF Fragment, SndBuf, Conn
<1>ck. PICK ck : ck = Check(t, "NXT - UNA < SEGMAX", Minus(t.c.NXT, t.c.UNA) < SegMax)
  OBVIOUS
<1>ck1. /\ StepT(n, ck) /\ ck.c = t.c /\ ck.a = t.a /\ ck.jam = t.jam /\ ck.out = t.out
        /\ ck.o = t.o /\ ck.ok = t.ok /\ Shape(ck)
  <2>1. "NXT - UNA < SEGMAX" \in Allowed
    BY DEF Allowed
  <2>2. CASE Minus(t.c.NXT, t.c.UNA) < SegMax
    BY <2>2, <1>ck, <1>t DEF Check
  <2>3. CASE ~(Minus(t.c.NXT, t.c.UNA) < SegMax)
    <3>1. ck = [t EXCEPT !.broken = t.broken \cup {"NXT - UNA < SEGMAX"}]
      BY <2>3, <1>ck, <1>t DEF Check
    <3>2. /\ Shape(ck) /\ ck.c = t.c /\ ck.a = t.a /\ ck.jam = t.jam /\ ck.out = t.out
          /\ ck.o = t.o /\ ck.ok = t.ok /\ ck.broken = t.broken \cup {"NXT - UNA < SEGMAX"}
      BY <3>1, <1>t DEF Shape
    <3> QED
      BY <3>2, <2>1, <1>t DEF StepT
  <2> QED
    BY <2>2, <2>3
<1>r1. PICK r1 \in [Ring -> SndBuf] : r1 = [t.c.sbuf EXCEPT ![i] = bb]
  <2>1. t.c.sbuf \in [Ring -> SndBuf]
    BY <1>t DEF Conn
  <2> QED
    BY <2>1, <1>b
<1>fi. PICK fi : fi = [ck EXCEPT !.o = os[k], !.c.sbuf[i] = bb]
  OBVIOUS
<1>fi1. /\ Shape(fi) /\ fi.c = [t.c EXCEPT !.sbuf = r1] /\ fi.a = t.a /\ fi.jam = t.jam
        /\ fi.out = t.out /\ fi.o = os[k] /\ fi.ok = t.ok /\ fi.broken = ck.broken
  BY <1>fi, <1>r1, <1>ck1 DEF Shape
<1>fi2. /\ fi.c \in Conn /\ Filling(s.c, fi.c) /\ fi.c.NXT = t.c.NXT /\ fi.c.pending = t.c.pending
        /\ fi.c.sbuf = r1
  <2>1. t.c \in Conn
    BY <1>t
  <2>2. /\ fi.c \in Conn /\ fi.c.NXT = t.c.NXT /\ fi.c.pending = t.c.pending
        /\ fi.c.sbuf = r1 /\ Filling(t.c, fi.c)
    BY <2>1, <1>fi1, <1>r1 DEF Conn, Filling
  <2> QED
    BY <2>2, <1>t DEF Filling
<1>fi3. StepT(n, fi) /\ fi.c.sbuf[i] = bb
  <2>1. fi.c.sbuf[i] = bb
    BY <1>fi2, <1>r1, <1>t DEF Conn
  <2> QED
    BY <2>1, <1>fi1, <1>fi2, <1>t, <1>ck1 DEF StepT
<1>se. PICK se : se = IF t.jam THEN fi ELSE SendMsgData(fi, i)
  OBVIOUS
<1>se1. /\ StepT(n, se) /\ Core(fi.c, se.c) /\ se.a = fi.a /\ (se.ok \/ se.jam)
  <2>1. CASE t.jam
    BY <2>1, <1>se, <1>fi1, <1>fi3 DEF Core
  <2>2. CASE ~t.jam
    <3>1. se = SendMsgData(fi, i)
      BY <2>2, <1>se
    <3> QED
      BY <3>1, <1>fi3, SendMsgDataStep
  <2> QED
    BY <2>1, <2>2
<1>se2. \A g \in se.out : g \in t.out \/ DataSeg(g, fi.c, bb)
  <2>1. CASE t.jam
    BY <2>1, <1>se, <1>fi1
  <2>2. CASE ~t.jam
    <3>1. se = SendMsgData(fi, i)
      BY <2>2, <1>se
    <3>2. \A g \in se.out : g \in fi.out \/ DataSeg(g, fi.c, fi.c.sbuf[i])
      BY <3>1, <1>fi3, SendMsgDataStep
    <3> QED
      BY <3>2, <1>fi1, <1>fi3
  <2> QED
    BY <2>1, <2>2
<1>se3. /\ se.c \in Conn /\ Shape(se) /\ se.c.sbuf = r1
        /\ se.c.NXT = t.c.NXT /\ se.c.pending = t.c.pending /\ Filling(s.c, se.c)
  <2>1. se.c \in Conn /\ Shape(se)
    BY <1>se1 DEF StepT
  <2> QED
    BY <2>1, <1>se1, <1>fi2 DEF Core, Filling
<1>b2. PICK b2 \in SndBuf : b2 = [bb EXCEPT !.inUse = TRUE, !.timer = TRUE]
  BY <1>b DEF SndBuf
<1>b3. Fragment(n, b2, m, x) /\ b2.inUse /\ b2.timer
  BY <1>b, <1>b1, <1>b2 DEF Fragment, SndBuf
<1>nx. PICK nx \in Seqs : nx = Plus(t.c.NXT, 1) /\ nx = SeqAt(n, x + 1)
  <2>0. x \in 0 .. SeqSpace - 1
    BY <1>x
  <2>1. t.c.NXT \in Seqs /\ Pos(n, t.c.NXT) = x
    BY <2>0, <1>t, AtPos
  <2>3. Pos(n, t.c.NXT) + 1 < SeqSpace
    BY <2>1, <1>x
  <2>2. Plus(t.c.NXT, 1) \in Seqs /\ Pos(n, Plus(t.c.NXT, 1)) = x + 1
    BY <2>1, <2>3, PosPlus
  <2> QED
    BY <2>2, PosOf
<1>new. i \notin InUse(t.c)
  <2> SUFFICES ASSUME t.c.sbuf[i].inUse PROVE FALSE
    BY DEF InUse
  <2>1. PICK y \in A .. x - 1 : i = Slot(n, y)
    BY <1>t, <1>i DEF RingHolds
  <2>2. y \in 0 .. Total(n) + SegMax /\ x \in 0 .. Total(n) + SegMax /\ x - y < SegMax /\ y - x < SegMax
        /\ x # y
    BY <2>1, <1>fm, <1>n, <1>x
  <2> QED
    BY <2>1, <2>2, <1>i, SlotDistinct
<1>ring. PICK ring \in [Ring -> SndBuf] : ring = [t.c.sbuf EXCEPT ![i] = b2]
  BY <1>t, <1>b2 DEF Conn
<1>ring1. ring[i] = b2 /\ \A j \in Ring : j # i => ring[j] = t.c.sbuf[j]
  BY <1>ring, <1>t DEF Conn
<1>use. PICK U : U = {j \in Ring : ring[j].inUse}
  OBVIOUS
<1>use1. U = InUse(t.c) \cup {i}
  BY <1>use, <1>ring1, <1>b3 DEF InUse
<1>use2. Cardinality(U) = Cardinality(InUse(t.c)) + 1 /\ Cardinality(U) <= SegMax
  <2>1. IsFiniteSet(InUse(t.c)) /\ Cardinality(InUse(t.c)) \in 0 .. SegMax
    BY PendingIs
  <2>2. Cardinality(U) = Cardinality(InUse(t.c)) + 1
    BY <2>1, <1>use1, <1>new, FS_AddElement
  <2>3. U \in SUBSET Ring /\ IsFiniteSet(Ring) /\ Cardinality(Ring) = SegMax
    <3>1. IsFiniteSet(Ring) /\ Cardinality(Ring) = SegMax
      BY FS_Interval DEF Ring
    <3> QED
      BY <3>1, <1>use
  <2>4. Cardinality(U) <= Cardinality(Ring)
    BY <2>3, FS_Subset
  <2> QED
    BY <2>2, <2>3, <2>4
<1>pd. PICK pd \in 0 .. SegMax : pd = t.c.pending + 1 /\ pd = Cardinality(U)
  <2>1. t.c.pending = Cardinality(InUse(t.c)) /\ t.c.pending \in 0 .. SegMax
    BY <1>t DEF RingHolds, Conn
  <2> QED
    BY <2>1, <1>use2
<1>z. PICK z \in 0 .. PersistRetries : z = 0
  BY ConfigAssumption
<1>u. PICK u : u = SendTurn(t, m, fcnt, "inf", SeqAt(n, First(n, m)), k, os)
  OBVIOUS
<1>u1. u = [se EXCEPT !.ok = TRUE, !.c.sbuf[i] = b2, !.c.persist = z, !.c.pending = pd, !.c.NXT = nx]
  <2>1. u = SendFragment(t, m, fcnt, "inf", SeqAt(n, B), k, os)
    BY <1>u, <1>t, <1>fm DEF SendTurn
  <2> DEFINE j == (Idx(SeqAt(n, B)) + k - 1) % SegMax
             filled == [Check(t, "NXT - UNA < SEGMAX", Minus(t.c.NXT, t.c.UNA) < SegMax)
                         EXCEPT !.o = os[k],
                            !.c.sbuf[j] = [@ EXCEPT !.seq = t.c.NXT, !.som = SeqAt(n, B),
                                            !.fcnt = fcnt, !.ttl = "inf", !.msg = m]]
             sent == IF t.jam THEN filled ELSE SendMsgData(filled, j)
  <2>2. u = IF sent.ok \/ sent.jam
        THEN Check([sent EXCEPT !.ok = TRUE,
                        !.c.sbuf[j] = [@ EXCEPT !.inUse = TRUE, !.timer = TRUE],
                        !.c.persist = 0,
                        !.c.pending = @ + 1,
                        !.c.NXT = Plus(@, 1)],
                    "pending in range", t.c.pending + 1 <= SegMax)
        ELSE [Disconnect(sent, "error") EXCEPT !.ok = FALSE]
    BY <2>1, Zenon DEF SendFragment
  <2>j. j = i
    BY <1>i2, <1>fm
  <2> HIDE DEF j
  <2>3. filled = fi
    <3>1. Check(t, "NXT - UNA < SEGMAX", Minus(t.c.NXT, t.c.UNA) < SegMax) = ck
      BY <1>ck
    <3>2. filled = [ck EXCEPT !.o = os[k],
                            !.c.sbuf[i] = [ck.c.sbuf[i] EXCEPT !.seq = t.c.NXT, !.som = SeqAt(n, B),
                                            !.fcnt = fcnt, !.ttl = "inf", !.msg = m]]
      BY <2>j, <3>1, <1>ck1, <1>t DEF Shape, Conn
    <3>3. [ck.c.sbuf[i] EXCEPT !.seq = t.c.NXT, !.som = SeqAt(n, B),
                                            !.fcnt = fcnt, !.ttl = "inf", !.msg = m] = bb
      BY <1>b, <1>ck1, <1>t
    <3> HIDE DEF filled
    <3> QED
      BY <3>2, <3>3, <1>fi
  <2> HIDE DEF filled
  <2>4. sent = se
    BY <2>3, <2>j, <1>se
  <2> HIDE DEF sent
  <2>5. u = Check([se EXCEPT !.ok = TRUE,
                        !.c.sbuf[i] = [@ EXCEPT !.inUse = TRUE, !.timer = TRUE],
                        !.c.persist = 0,
                        !.c.pending = @ + 1,
                        !.c.NXT = Plus(@, 1)],
                    "pending in range", t.c.pending + 1 <= SegMax)
    BY <2>2, <2>4, <2>j, <1>se1
  <2>6. u = [se EXCEPT !.ok = TRUE,
                        !.c.sbuf[i] = [@ EXCEPT !.inUse = TRUE, !.timer = TRUE],
                        !.c.persist = 0,
                        !.c.pending = @ + 1,
                        !.c.NXT = Plus(@, 1)]
    BY <2>5, <1>pd DEF Check
  <2>7. [se.c.sbuf[i] EXCEPT !.inUse = TRUE, !.timer = TRUE] = b2
    <3>1. se.c.sbuf[i] = bb
      BY <1>se3, <1>r1, <1>t DEF Conn
    <3> QED
      BY <3>1, <1>b2
  <2>8. u = [se EXCEPT !.ok = TRUE,
                        !.c.sbuf[i] = [se.c.sbuf[i] EXCEPT !.inUse = TRUE, !.timer = TRUE],
                        !.c.persist = 0,
                        !.c.pending = se.c.pending + 1,
                        !.c.NXT = Plus(se.c.NXT, 1)]
    BY <2>6, <1>se3 DEF Shape, Conn
  <2> QED
    BY <2>8, <2>7, <1>z, <1>pd, <1>nx, <1>se3
<1>u2. /\ Shape(u)
       /\ u.c = [se.c EXCEPT !.sbuf = ring, !.persist = z, !.pending = pd, !.NXT = nx]
       /\ u.a = se.a /\ u.jam = se.jam /\ u.out = se.out /\ u.o = se.o /\ u.ok = TRUE
       /\ u.broken = se.broken
  <2>1. ring = [se.c.sbuf EXCEPT ![i] = b2]
    BY <1>se3, <1>r1, <1>ring, <1>t DEF Conn
  <2> QED
    BY <2>1, <1>u1, <1>se3 DEF Shape
<1>u3. /\ u.c \in Conn /\ Filling(s.c, u.c) /\ u.c.sbuf = ring
       /\ u.c.pending = pd /\ u.c.NXT = nx
  <2>1. se.c \in Conn
    BY <1>se3
  <2>2. u.c \in Conn
    <3>1. ring \in [Ring -> SndBuf] /\ z \in 0 .. PersistRetries /\ pd \in 0 .. SegMax /\ nx \in Seqs
      BY <1>ring, <1>z, <1>pd, <1>nx
    <3>2. [se.c EXCEPT !.sbuf = ring, !.persist = z, !.pending = pd, !.NXT = nx] \in Conn
      BY <3>1, <2>1, FilledConn
    <3>3. u.c = [se.c EXCEPT !.sbuf = ring, !.persist = z, !.pending = pd, !.NXT = nx]
      BY <1>u2
    <3> QED
      BY <3>2, <3>3
  <2>3. /\ u.c.sbuf = ring /\ u.c.pending = pd /\ u.c.NXT = nx
        /\ Filling(se.c, u.c)
    BY <2>1, <1>u2 DEF Conn, Filling
  <2> QED
    BY <2>2, <2>3, <1>se3 DEF Filling
<1>u4. u.c.sbuf = ring
  BY <1>u3
<1>u5. StepT(n, u)
  BY <1>u2, <1>u3, <1>se1 DEF StepT
<1>1. RingHolds(n, u.c, A .. x)
  <2>1. \A y \in A .. x : SndBufAt(n, u.c.sbuf[Slot(n, y)], y)
    <3> TAKE y \in A .. x
    <3>1. CASE y = x
      <4>1. u.c.sbuf[Slot(n, y)] = b2
        BY <3>1, <1>i, <1>u4, <1>ring1
      <4>2. m \in 1 .. Len(Msgs[n])
        BY DEF Count
      <4> QED
        BY <4>1, <4>2, <3>1, <1>b3, <1>x, <1>n, <1>fm DEF SndBufAt, Fragment
    <3>2. CASE y # x
      <4>1. y \in A .. x - 1
        BY <3>2, <1>x
      <4>2. SndBufAt(n, t.c.sbuf[Slot(n, y)], y) /\ t.c.sbuf[Slot(n, y)].inUse
        BY <4>1, <1>t DEF RingHolds, SndBufAt
      <4>3. Slot(n, y) \in Ring
        <5>1. y \in 0 .. Total(n) + SegMax
          BY <4>1, <1>x, <1>fm, <1>n
        <5> QED
          BY <5>1, SlotIs
      <4>4. Slot(n, y) # i
        BY <4>2, <4>3, <1>new DEF InUse
      <4> QED
        BY <4>2, <4>3, <4>4, <1>u4, <1>ring1
    <3> QED
      BY <3>1, <3>2
  <2>2. \A j \in Ring : u.c.sbuf[j].inUse => \E y \in A .. x : j = Slot(n, y)
    <3> SUFFICES ASSUME NEW j \in Ring, u.c.sbuf[j].inUse PROVE \E y \in A .. x : j = Slot(n, y)
      OBVIOUS
    <3>1. CASE j = i
      BY <3>1, <1>i, <1>x, <1>fm
    <3>2. CASE j # i
      <4>1. t.c.sbuf[j].inUse
        BY <3>2, <1>u4, <1>ring1
      <4>2. PICK y \in A .. x - 1 : j = Slot(n, y)
        BY <4>1, <1>t DEF RingHolds
      <4>3. y \in A .. x
        BY <4>2, <1>fm, <1>x
      <4> QED
        BY <4>2, <4>3
    <3> QED
      BY <3>1, <3>2
  <2>3. \A j \in Ring : u.c.sbuf[j].timer => u.c.sbuf[j].inUse
    BY <1>u4, <1>ring1, <1>b3, <1>t DEF RingHolds
  <2>4. u.c.pending = Cardinality(InUse(u.c))
    BY <1>u3, <1>u4, <1>use, <1>pd DEF InUse
  <2> QED
    BY <2>1, <2>2, <2>3, <2>4 DEF RingHolds
<1>2. \A g \in u.out : \E b : \E y \in B .. x : DataSeg(g, s.c, b) /\ Fragment(n, b, m, y)
  <2> SUFFICES ASSUME NEW g \in u.out
               PROVE  \E b : \E y \in B .. x : DataSeg(g, s.c, b) /\ Fragment(n, b, m, y)
    OBVIOUS
  <2>1. CASE g \in t.out
    <3>1. PICK b : \E y \in B .. x - 1 : DataSeg(g, s.c, b) /\ Fragment(n, b, m, y)
      BY <2>1, <1>t
    <3>2. PICK y \in B .. x - 1 : DataSeg(g, s.c, b) /\ Fragment(n, b, m, y)
      BY <3>1
    <3>3. y \in B .. x
      BY <3>2, <1>fm, <1>x
    <3> QED
      BY <3>2, <3>3
  <2>2. CASE g \notin t.out
    <3>1. DataSeg(g, fi.c, bb)
      BY <2>2, <1>u2, <1>se2
    <3>2. DataSeg(g, s.c, bb)
      BY <3>1, <1>fi2 DEF DataSeg, Filling
    <3>3. x \in B .. x
      BY <1>x, <1>fm
    <3> QED
      BY <3>2, <3>3, <1>b1
  <2> QED
    BY <2>1, <2>2
<1>3. (B + k) - 1 = x /\ B + k = x + 1
  BY <1>x, <1>fm, <1>n
<1>4. u.c.NXT = SeqAt(n, B + k) /\ u.a = s.a /\ u.ok
  <2>1. u.ok = TRUE /\ u.a = s.a
    BY <1>u2, <1>se1, <1>fi1, <1>t
  <2> QED
    BY <2>1, <1>3, <1>u3, <1>nx
<1>5. /\ RingHolds(n, u.c, First(n, f) .. (First(n, m) + k) - 1)
      /\ \A g \in u.out : \E b : \E y \in First(n, m) .. (First(n, m) + k) - 1 :
            DataSeg(g, s.c, b) /\ Fragment(n, b, m, y)
      /\ u.c.NXT = SeqAt(n, First(n, m) + k)
  BY <1>1, <1>2, <1>3, <1>4, <1>fm
<1> QED
  BY <1>4, <1>5, <1>u, <1>u3, <1>u5, Zenon DEF Sending

\* Positions less than SegMax apart have slots of their own.
LEMMA SlotCount ==
  ASSUME Fits, NEW n \in Node, NEW lo \in Nat, NEW hi \in Nat, lo <= hi, hi - lo <= SegMax,
         hi <= Total(n)
  PROVE  Cardinality({Slot(n, y) : y \in lo .. hi - 1}) = hi - lo
<1> DEFINE S == lo .. hi - 1
           T == {Slot(n, y) : y \in S}
           f == [y \in S |-> Slot(n, y)]
<1>1. ASSUME NEW y \in S PROVE y \in 0 .. Total(n) + SegMax /\ Slot(n, y) \in Ring
  <2>1. y \in 0 .. Total(n) + SegMax
    BY FirstIs
  <2> QED
    BY <2>1, SlotIs
<1>2. T \in SUBSET Ring /\ IsFiniteSet(T)
  <2>1. T \in SUBSET Ring
    BY <1>1
  <2>2. IsFiniteSet(Ring)
    BY FS_Interval DEF Ring
  <2> HIDE DEF T
  <2> QED
    BY <2>1, <2>2, FS_Subset
<1>3. f \in Injection(S, T)
  <2>1. f \in [S -> T]
    OBVIOUS
  <2>2. ASSUME NEW x \in S, NEW y \in S, f[x] = f[y] PROVE x = y
    <3>1. Slot(n, x) = Slot(n, y) /\ x - y < SegMax /\ y - x < SegMax
      BY <2>2
    <3> QED
      BY <3>1, <1>1, SlotDistinct
  <2> HIDE DEF f, T, S
  <2> QED
    BY <2>1, <2>2 DEF Injection, IsInjective
<1>4. f \in Surjection(S, T)
  <2>1. f \in [S -> T] /\ \A z \in T : \E y \in S : f[y] = z
    OBVIOUS
  <2> HIDE DEF f, T, S
  <2> QED
    BY <2>1 DEF Surjection
<1>5. Cardinality(S) = Cardinality(T)
  <2> HIDE DEF f, T, S
  <2> QED
    BY <1>2, <1>3, <1>4, FS_Injection
<1>6. Cardinality(S) = hi - lo
  <2>1. lo \in Int /\ hi - 1 \in Int
    OBVIOUS
  <2>2. Cardinality(lo .. hi - 1) = IF lo > hi - 1 THEN 0 ELSE ((hi - 1) - lo) + 1
    BY <2>1, FS_Interval
  <2> QED
    BY <2>2
<1> QED
  BY <1>5, <1>6

\* The number of pending segments.
LEMMA PendingCount ==
  ASSUME Fits, NEW n \in Node, NEW c, NEW lo \in Nat, NEW hi \in Nat, lo <= hi, hi - lo <= SegMax,
         hi <= Total(n), RingHolds(n, c, lo .. hi - 1)
  PROVE  c.pending = hi - lo
<1>1. InUse(c) = {Slot(n, y) : y \in lo .. hi - 1}
  <2>1. ASSUME NEW y \in lo .. hi - 1 PROVE Slot(n, y) \in InUse(c)
    <3>1. y \in 0 .. Total(n) + SegMax
      BY FirstIs
    <3>2. Slot(n, y) \in Ring
      BY <3>1, SlotIs
    <3> QED
      BY <3>2 DEF RingHolds, SndBufAt, InUse
  <2>2. ASSUME NEW i \in InUse(c) PROVE \E y \in lo .. hi - 1 : i = Slot(n, y)
    BY <2>2 DEF RingHolds, InUse
  <2> QED
    BY <2>1, <2>2
<1>2. Cardinality({Slot(n, y) : y \in lo .. hi - 1}) = hi - lo
  BY SlotCount
<1>3. c.pending = Cardinality(InUse(c))
  BY DEF RingHolds
<1> QED
  BY <1>1, <1>2, <1>3

\* What the socket answers for the fragments of a message, never "error".
Answers(os, fcnt) == \A k \in 1 .. fcnt : os[k] \in Outcome \ {"error"}

\* The loop of SendData keeps what it has sent in the ring.
LEMMA SendLoop ==
  ASSUME Fits, NEW n \in Node, NEW s, s.c \in Conn, NEW m \in 1 .. Count(n), NEW f \in 1 .. m,
         NEW fcnt \in 1 .. SegMax, fcnt = Msgs[n][m].fcnt, NEW os,
         Answers(os, fcnt),
         NEW A \in Nat, NEW B \in Nat, A = First(n, f), B = First(n, m), (B + fcnt) - A <= SegMax,
         s.c.NXT = SeqAt(n, B), Sending(n, s, [s EXCEPT !.ok = TRUE], f, m, 0)
  PROVE  Sending(n, s, SendData(s, m, fcnt, "inf", os), f, m, fcnt)
<1>0. fcnt \in Nat
  BY DEF Ring
<1>run. PICK run : SendRuns(run, s, m, fcnt, "inf", os)
  BY <1>0, SendRun
<1> DEFINE P(k) == Sending(n, s, run[k], f, m, k)
<1>1. P(0)
  BY <1>run DEF SendRuns
<1>2. ASSUME NEW k \in 1 .. fcnt, P(k - 1) PROVE P(k)
  <2>4. PICK t1 : t1 = run[k - 1]
    OBVIOUS
  <2>5. Sending(n, s, t1, f, m, k - 1)
    BY <1>2, <2>4
  <2>6. run[k] = SendTurn(t1, m, fcnt, "inf", SeqAt(n, First(n, m)), k, os)
    BY <2>4, <1>run DEF SendRuns
  <2>a. B + k <= B + fcnt
    OBVIOUS
  <2>7. os[k] \in Outcome \ {"error"} /\ (First(n, m) + k) - First(n, f) <= SegMax
    BY <2>a DEF Answers
  <2> QED
    BY <2>5, <2>6, <2>7, SendTurnStep
<1> HIDE DEF P
<1> DEFINE S == {k \in 0 .. fcnt : ~P(k)}
<1>3. S = {}
  <2> SUFFICES ASSUME S # {} PROVE FALSE
    OBVIOUS
  <2>1. S \in SUBSET Nat /\ \A k \in S : k \in 0 .. fcnt /\ ~P(k)
    BY <1>0
  <2>2. PICK k \in S : \A j \in S : k <= j
    <3> HIDE DEF S
    <3> QED
      BY <2>1, SmallestNat
  <2>3. k # 0
    BY <1>1, <2>1
  <2>4. k \in 1 .. fcnt /\ k - 1 \in 0 .. fcnt /\ k - 1 < k
    BY <2>1, <2>3, <1>0
  <2>5. k - 1 \notin S
    BY <2>2, <2>4
  <2> QED
    BY <2>1, <2>4, <2>5, <1>2
<1>4. P(fcnt)
  BY <1>0, <1>3
<1> QED
  BY <1>4, <1>run DEF P, SendRuns

\* m is the next message that node n may submit, of fcnt fragments.
NextMessage(n, a, m, fcnt) == m = a.submitted + 1 /\ fcnt = Msgs[n][m].fcnt

\* What ARDP_Send makes of s.
Entering(s, m, fcnt, ttl, os) == [SendData(s, m, fcnt, ttl, os) EXCEPT !.a.submitted = m]
Entered(n, s, u, m, r, b) == Good(n, u, r, b) /\ u.a = [s.a EXCEPT !.submitted = m] /\ Filling(s.c, u.c)

\* ARDP_Send puts a message that it accepts into the ring.
LEMMA SendDataStep ==
  ASSUME Fits, NEW n \in Node, NEW s, NEW r, NEW b, Good(n, s, r, b), s.c.state = "OPEN",
         s.out = {}, s.o \in Outcome \ {"error"},
         NEW m \in 1 .. Count(n), NEW fcnt \in 1 .. SegMax, NextMessage(n, s.a, m, fcnt),
         NEW ttl \in {"inf"}, Msgs[n][m].ttl = ttl, Accepts(s.c, fcnt),
         NEW os, Answers(os, fcnt), b.consumed \in 0 .. s.a.submitted
  PROVE  Entered(n, s, Entering(s, m, fcnt, ttl, os), m, r, b)
<1>ttl. Msgs[n][m].ttl = "inf" /\ ttl = "inf"
  OBVIOUS
<1>s. StepT(n, s) /\ s.c \in Conn /\ AppT(n, s.a) /\ Shape(s)
  BY DEF Good, StepT
<1>N. PICK N \in Nat : N = Count(n) /\ DOMAIN Msgs[n] = 1 .. N /\ N = Len(Msgs[n])
  BY FirstIs DEF Count
<1>m. m \in 1 .. N /\ m \in 1 .. Count(n) /\ s.a.submitted \in 0 .. N
  BY <1>N, <1>s DEF AppT
<1>nm. s.a.submitted + 1 = m /\ Msgs[n][m].fcnt = fcnt
  BY DEF NextMessage
<1>f. PICK f \in 1 .. m : SndAt(n, s.c, s.a, b.consumed, f)
  BY <1>nm DEF Good, ConnOK, SndOK
<1>ab. PICK A \in Nat, B \in Nat : A = First(n, f) /\ B = First(n, m) /\ A <= B /\ 1 <= A
  <2>1. f \in 1 .. Count(n) + 1 /\ m \in 1 .. Count(n) + 1 /\ f <= m /\ f \in Int /\ m \in Int
    BY <1>N, <1>m
  <2>2. First(n, f) \in Nat /\ First(n, m) \in Nat /\ First(n, f) >= 1
        /\ First(n, f) + (m - f) <= First(n, m)
    BY <2>1, FirstMono
  <2> QED
    BY <2>1, <2>2
<1>fc. fcnt \in 1 .. SegMax /\ First(n, m + 1) = B + fcnt /\ B + fcnt <= Total(n)
       /\ Total(n) \in Nat /\ Total(n) + SegMax < Half /\ Half \in Nat /\ Half + Half = SeqSpace
  <2>1. Msgs[n][m].fcnt \in 1 .. SegMax /\ First(n, m + 1) = First(n, m) + Msgs[n][m].fcnt
        /\ First(n, m + 1) <= Total(n)
    BY <1>m, Message
  <2>2. Total(n) \in Nat /\ Total(n) + SegMax < Half /\ Half \in Nat /\ Half + Half = SeqSpace
    BY FirstIs
  <2> QED
    BY <2>1, <2>2, <1>ab, <1>nm
<1>num. /\ EndOf(n, s.a) = B /\ RingHolds(n, s.c, A .. B - 1)
        /\ SndNumbers(n, s.c, s.a, b.consumed, f, B) /\ CbAt(n, s.a, f)
  <2>1. EndOf(n, s.a) = B
    BY <1>ab, <1>nm DEF EndOf
  <2> QED
    BY <1>f, <1>ab, <2>1 DEF SndAt
<1>room. (B + fcnt) - A <= SegMax
  <2>1. B - A <= SegMax
    BY <1>num, <1>ab DEF SndNumbers
  <2>a. B <= Total(n)
    BY <1>fc, <1>ab
  <2>2. s.c.pending = B - A
    <3>1. RingHolds(n, s.c, A .. B - 1) /\ A \in Nat /\ B \in Nat /\ A <= B
      BY <1>num, <1>ab
    <3> QED
      BY <2>1, <2>a, <3>1, PendingCount
  <2>3. fcnt <= SegMax - s.c.pending
    BY DEF Accepts
  <2> QED
    BY <2>2, <2>3, <1>ab, <1>fc
<1>e. PICK E \in Nat : E = B + fcnt /\ B < E /\ B <= E - 1 /\ E - A <= SegMax /\ E <= Total(n)
                    /\ E = First(n, m + 1) /\ E + SegMax < Half /\ B < SeqSpace /\ E < SeqSpace
  BY <1>fc, <1>room, <1>ab
<1>nxt. s.c.NXT = SeqAt(n, First(n, m))
  BY <1>num, <1>ab DEF SndNumbers
<1>init. Sending(n, s, [s EXCEPT !.ok = TRUE], f, m, 0)
  <2>1. PICK t0 : t0 = [s EXCEPT !.ok = TRUE]
    OBVIOUS
  <2>3. /\ Shape(t0) /\ t0.c = s.c /\ t0.a = s.a /\ t0.jam = s.jam /\ t0.out = s.out
        /\ t0.o = s.o /\ t0.ok = TRUE /\ t0.broken = s.broken
    BY <2>1, <1>s DEF Shape
  <2>4. StepT(n, t0)
    BY <2>3, <1>s DEF StepT
  <2>5. B + 0 = B
    BY <1>ab
  <2>6. Filling(s.c, t0.c)
    BY <2>3 DEF Filling
  <2>7. t0.c.NXT = SeqAt(n, First(n, m) + 0) /\ RingHolds(n, t0.c, First(n, f) .. (First(n, m) + 0) - 1)
    BY <2>3, <2>5, <1>nxt, <1>num, <1>ab
  <2>8. \A g \in t0.out : \E bb : \E x \in First(n, m) .. (First(n, m) + 0) - 1 :
           DataSeg(g, s.c, bb) /\ Fragment(n, bb, m, x)
    BY <2>3
  <2> QED
    BY <2>1, <2>3, <2>4, <2>6, <2>7, <2>8 DEF Sending
<1>t. PICK t : t = SendData(s, m, fcnt, "inf", os)
  OBVIOUS
<1>t1. Sending(n, s, t, f, m, fcnt)
  <2>1. s.c.NXT = SeqAt(n, B)
    BY <1>nxt, <1>ab
  <2>2. Msgs[n][m].fcnt = fcnt
    BY <1>nm
  <2> QED
    BY <2>1, <2>2, <1>t, <1>s, <1>m, <1>ab, <1>room, <1>init, SendLoop
<1>t2. /\ StepT(n, t) /\ Shape(t) /\ t.c \in Conn /\ t.a = s.a /\ Filling(s.c, t.c)
       /\ t.c.NXT = SeqAt(n, E) /\ RingHolds(n, t.c, A .. E - 1)
       /\ \A g \in t.out : \E bb : \E x \in B .. E - 1 :
             DataSeg(g, s.c, bb) /\ Fragment(n, bb, m, x)
  <2>1. /\ StepT(n, t) /\ t.a = s.a /\ Filling(s.c, t.c)
        /\ t.c.NXT = SeqAt(n, E) /\ RingHolds(n, t.c, A .. E - 1)
        /\ \A g \in t.out : \E bb : \E x \in B .. E - 1 :
             DataSeg(g, s.c, bb) /\ Fragment(n, bb, m, x)
    <3>1. StepT(n, t) /\ t.a = s.a /\ Filling(s.c, t.c)
      BY <1>t1 DEF Sending
    <3>2. t.c.NXT = SeqAt(n, First(n, m) + fcnt) /\ RingHolds(n, t.c, First(n, f) .. (First(n, m) + fcnt) - 1)
          /\ \A g \in t.out : \E bb : \E x \in First(n, m) .. (First(n, m) + fcnt) - 1 :
                DataSeg(g, s.c, bb) /\ Fragment(n, bb, m, x)
      BY <1>t1 DEF Sending
    <3>3. First(n, m) + fcnt = E /\ First(n, m) = B /\ First(n, f) = A
      BY <1>ab, <1>e
    <3> QED
      BY <3>1, <3>2, <3>3
  <2>2. Shape(t) /\ t.c \in Conn
    BY <2>1 DEF StepT
  <2> QED
    BY <2>1, <2>2
<1>u. PICK u : u = [t EXCEPT !.a.submitted = m]
  OBVIOUS
<1>u1. /\ Shape(u) /\ u.c = t.c /\ u.a = [s.a EXCEPT !.submitted = m] /\ u.jam = t.jam
       /\ u.out = t.out /\ u.o = t.o /\ u.ok = t.ok /\ u.broken = t.broken
  BY <1>u, <1>t2 DEF Shape
<1>u2. /\ u.a.submitted = m /\ u.a.sendCb = s.a.sendCb /\ u.a.rcvd = s.a.rcvd
       /\ u.a.held = s.a.held /\ u.a.consumed = s.a.consumed /\ u.a.connectCb = s.a.connectCb
       /\ u.a.disconnectCb = s.a.disconnectCb
       /\ u.a = [submitted |-> m, sendCb |-> s.a.sendCb, rcvd |-> s.a.rcvd, held |-> s.a.held,
                 consumed |-> s.a.consumed, connectCb |-> s.a.connectCb,
                 disconnectCb |-> s.a.disconnectCb]
  BY <1>u1, <1>s DEF AppT
<1>u3. AppT(n, u.a)
  <2>1. m \in 0 .. Len(Msgs[n])
    BY <1>m, <1>N
  <2> QED
    BY <2>1, <1>u2, <1>s DEF AppT
<1>1. StepT(n, u)
  BY <1>u1, <1>u3, <1>t2 DEF StepT
<1>end. EndOf(n, u.a) = E
  BY <1>u2, <1>e, <1>fc DEF EndOf
<1>est. /\ u.c.state = "OPEN" /\ Est(n, u.c) /\ Est(n, s.c)
        /\ s.a.disconnectCb = <<>>
  <2>1. Ctl(n, s.c, s.a)
    BY DEF Good, ConnOK
  <2>2. s.a.disconnectCb = <<>> /\ Est(n, s.c)
    BY <2>1 DEF Ctl
  <2>3. u.c.state = s.c.state /\ u.c.UNA = s.c.UNA
    BY <1>u1, <1>t2 DEF Filling
  <2> QED
    BY <2>2, <2>3 DEF Est
<1>snd. SndAt(n, u.c, u.a, b.consumed, f)
  <2>1. RingHolds(n, u.c, First(n, f) .. EndOf(n, u.a) - 1)
    BY <1>end, <1>ab, <1>t2, <1>u1
  <2>2. CbAt(n, u.a, f)
    BY <1>num, <1>u2 DEF CbAt
  <2>3. SndNumbers(n, u.c, u.a, b.consumed, f, E)
    <3>1. u.c.UNA = s.c.UNA /\ u.c.LCS = s.c.LCS /\ u.c.NXT = SeqAt(n, E) /\ u.c.state = s.c.state
      BY <1>u1, <1>t2 DEF Filling
    <3>2. PICK una \in Int, lcs \in Int : una = Pos(n, s.c.UNA) /\ lcs = Pos(n, s.c.LCS)
      <4>1. s.c.UNA \in Seqs /\ s.c.LCS \in Seqs
        BY <1>s DEF Conn
      <4>2. Pos(n, s.c.UNA) \in 0 .. SeqSpace - 1 /\ Pos(n, s.c.LCS) \in 0 .. SeqSpace - 1
        BY <4>1, PosOf
      <4> QED
        BY <4>2
    <3>3. una <= B /\ lcs < B /\ lcs < First(n, b.consumed + 1)
          /\ (f <= s.a.submitted => lcs < First(n, f + 1) - 1) /\ f <= b.consumed + 1
      BY <1>num, <3>2 DEF SndNumbers
    <3>4. f <= m => lcs < First(n, f + 1) - 1
      <4>1. CASE f <= s.a.submitted
        BY <4>1, <3>3
      <4>2. CASE ~(f <= s.a.submitted)
        <5>1. f = m /\ First(n, f + 1) = E
          <6>1. PICK z \in Nat : z = s.a.submitted
            BY <1>m
          <6>2. m = z + 1 /\ ~(f <= z)
            BY <6>1, <4>2, <1>nm
          <6>3. f = m
            BY <6>2
          <6> QED
            BY <6>3, <1>e, <1>fc
        <5>2. lcs < E - 1
          BY <3>3, <1>e, <1>fc, <1>ab, <3>2
        <5> QED
          BY <5>1, <5>2
      <4> QED
        BY <4>1, <4>2
    <3>5. una <= E /\ lcs < E /\ E - First(n, f) <= SegMax
      BY <3>3, <3>2, <1>ab, <1>e, <1>fc, <1>room
    <3> QED
      BY <3>1, <3>2, <3>3, <3>4, <3>5, <1>u2 DEF SndNumbers
  <2> QED
    BY <2>1, <2>2, <2>3, <1>end DEF SndAt
<1>2. AppOK(n, u.a, b)
  <2>0. AppOK(n, s.a, b)
    BY DEF Good
  <2>1. RcvApp(Peer(n), u.a, b.submitted)
    BY <2>0, <1>u2 DEF AppOK, RcvApp
  <2>2. f \in 1 .. u.a.submitted + 1 /\ CbAt(n, u.a, f)
    BY <1>snd, <1>u2, <1>m DEF SndAt
  <2>3. EndOf(n, u.a) <= First(n, b.consumed + 1) + SegMax
    <3>1. f <= b.consumed + 1
      BY <1>num DEF SndNumbers
    <3>2. f \in 1 .. Count(n) + 1 /\ b.consumed + 1 \in 1 .. Count(n) + 1 /\ f \in Int /\ b.consumed \in Int
      <4>1. PICK z \in Nat : z = s.a.submitted /\ z <= N /\ m <= N
        BY <1>m
      <4>2. b.consumed \in 0 .. z /\ Count(n) = N
        BY <4>1, <1>N
      <4>3. b.consumed \in Int /\ b.consumed + 1 \in 1 .. N + 1
        BY <4>1, <4>2
      <4>4. f \in Int /\ f \in 1 .. N + 1
        BY <4>1
      <4> QED
        BY <4>2, <4>3, <4>4
    <3>3. First(n, f) + ((b.consumed + 1) - f) <= First(n, b.consumed + 1) /\ First(n, b.consumed + 1) \in Nat
      BY <3>1, <3>2, FirstMono
    <3>4. PICK Q \in Nat : Q = First(n, b.consumed + 1)
      BY <3>3
    <3>5. A <= Q
      BY <3>1, <3>2, <3>3, <3>4, <1>ab
    <3> QED
      BY <3>4, <3>5, <1>end, <1>room, <1>ab, <1>e, <1>fc
  <2> QED
    BY <2>1, <2>2, <2>3, <1>est, <1>u2 DEF AppOK
<1>3. ConnOK(n, u.c, u.a, r, b)
  <2>0. ConnOK(n, s.c, s.a, r, b) /\ Filling(s.c, u.c)
    BY <1>u1, <1>t2 DEF Good
  <2>1. Ctl(n, u.c, u.a)
    <3>1. Ctl(n, s.c, s.a)
      BY <2>0 DEF ConnOK
    <3>2. u.c.reason = "none" /\ s.c.state = "OPEN"
      BY <3>1, <2>0 DEF Filling, Ctl
    <3> QED
      BY <3>1, <3>2, <2>0, <1>est, <1>u2 DEF Ctl, Filling, Est, Closed
  <2>2. SndOK(n, u.c, u.a, b.consumed)
    <3>1. f \in 1 .. u.a.submitted + 1
      BY <1>u2, <1>m
    <3> QED
      BY <3>1, <1>snd DEF SndOK
  <2>3. RcvOK(n, u.c, u.a, b.submitted)
    <3>1. RcvOK(n, s.c, s.a, b.submitted)
      BY <2>0 DEF ConnOK
    <3>2. /\ u.c.state = s.c.state /\ u.c.CUR = s.c.CUR /\ u.c.rLCS = s.c.rLCS
          /\ u.c.rbuf = s.c.rbuf /\ u.c.eack = s.c.eack /\ (Est(n, u.c) <=> Est(n, s.c))
          /\ u.a.rcvd = s.a.rcvd /\ u.a.held = s.a.held /\ u.a.consumed = s.a.consumed
      BY <2>0, <1>u2, <1>est DEF Filling
    <3> QED
      BY <3>1, <3>2 DEF RcvOK, RcvHeld, RcvAt
  <2> QED
    BY <2>0, <2>1, <2>2, <2>3 DEF ConnOK, Filling
<1>4. \A g \in u.out : SegOK(n, g, u.c, u.a, r, b)
  <2> SUFFICES ASSUME NEW g \in u.out PROVE SegOK(n, g, u.c, u.a, r, b)
    OBVIOUS
  <2>0. PICK bb : \E x \in B .. E - 1 : DataSeg(g, s.c, bb) /\ Fragment(n, bb, m, x)
    BY <1>u1, <1>t2
  <2>1. PICK x \in B .. E - 1 : DataSeg(g, s.c, bb) /\ Fragment(n, bb, m, x)
    BY <2>0
  <2>f. /\ DataSeg(g, s.c, bb) /\ bb.seq = SeqAt(n, x) /\ bb.som = SeqAt(n, B)
        /\ bb.fcnt = fcnt /\ bb.ttl = "inf" /\ bb.msg = m
    BY <2>1, <1>ab, <1>nm DEF Fragment
  <2>d. /\ g.src = s.c.local /\ g.dst = s.c.foreign /\ {"RST", "SYN"} \cap g.flg = {}
        /\ g.lcs = s.c.rLCS /\ g.acknxt = s.c.UNA /\ g.ack = s.c.CUR /\ g \in Segs
        /\ g.seq = SeqAt(n, x) /\ g.som = SeqAt(n, B) /\ g.fcnt = fcnt /\ g.ttl = "inf"
        /\ g.data = <<m, Minus(SeqAt(n, x), SeqAt(n, B))>>
    BY <2>f DEF DataSeg
  <2>v. /\ s.c.local = u.c.local /\ s.c.foreign = u.c.foreign /\ s.c.rLCS = u.c.rLCS
        /\ s.c.UNA = u.c.UNA /\ s.c.CUR = u.c.CUR
    BY <1>u1, <1>t2 DEF Filling
  <2>2. /\ g.src = u.c.local /\ g.dst = u.c.foreign /\ {"RST", "SYN"} \cap g.flg = {}
        /\ g.lcs = u.c.rLCS /\ g.acknxt = u.c.UNA /\ g.ack = u.c.CUR /\ g \in Segs
        /\ g.seq = SeqAt(n, x) /\ g.som = SeqAt(n, B) /\ g.fcnt = fcnt /\ g.ttl = "inf"
        /\ g.data = <<m, Minus(SeqAt(n, x), SeqAt(n, B))>>
    BY <2>d, <2>v, Zenon
  <2>3. x \in 0 .. SeqSpace - 1 /\ B \in 0 .. SeqSpace - 1
    BY <1>ab, <1>e, <1>fc
  <2>4. Pos(n, g.seq) = x /\ SeqAt(n, x) \in Seqs /\ SeqAt(n, B) \in Seqs /\ Pos(n, SeqAt(n, B)) = B
    BY <2>2, <2>3, AtPos
  <2>5. Minus(SeqAt(n, x), SeqAt(n, B)) = x - B
    <3>1. Pos(n, SeqAt(n, x)) = x /\ x >= B
      BY <2>2, <2>4, <1>ab
    <3> QED
      BY <3>1, <2>4, PosMinus
  <2>6. DataOK(n, g, E)
    <3>1. m \in 1 .. Len(Msgs[n]) /\ x < E /\ B <= x
      BY <1>m, <1>N, <1>ab, <1>e, <1>fc
    <3> QED
      BY <3>1, <2>2, <2>4, <2>5, <1>ab, <1>e, <1>nm DEF DataOK
  <2>7. Pos(n, g.seq) \in 1 .. EndOf(n, u.a)
    BY <2>4, <1>end, <1>ab, <1>e, <1>fc
  <2>8. u.c \in Conn /\ PeerT(n, r, b) /\ u.c.CUR \in Seqs
    BY <1>u1, <1>t2 DEF Good, Conn
  <2> QED
    BY <2>2, <2>6, <2>7, <2>8, <1>end, <1>est, <1>u3, <1>2, <1>3, NormalSeg
<1>5. Good(n, u, r, b)
  BY <1>1, <1>2, <1>3, <1>4 DEF Good
<1>6. u = Entering(s, m, fcnt, ttl, os)
  BY <1>ttl, <1>t, <1>u DEF Entering
<1>7. Entered(n, s, u, m, r, b)
  BY <1>5, <1>t2, <1>u1 DEF Entered
<1> QED
  BY <1>6, <1>7

\* Only timers differ between two rings, and none is newly set.
TimersOnly(c, d) ==
  /\ d.pending = c.pending
  /\ \A i \in Ring :
        /\ d.sbuf[i].inUse = c.sbuf[i].inUse /\ d.sbuf[i].seq = c.sbuf[i].seq
        /\ d.sbuf[i].som = c.sbuf[i].som /\ d.sbuf[i].fcnt = c.sbuf[i].fcnt
        /\ d.sbuf[i].ttl = c.sbuf[i].ttl /\ d.sbuf[i].msg = c.sbuf[i].msg
        /\ d.sbuf[i].timer => c.sbuf[i].timer

\* A ring whose timers are cancelled holds what it held.
LEMMA RingTimers ==
  ASSUME Fits, NEW n \in Node, NEW c, NEW d, NEW P, RingHolds(n, c, P), TimersOnly(c, d),
         \A x \in P : Slot(n, x) \in Ring
  PROVE  RingHolds(n, d, P)
<1>1. InUse(d) = InUse(c)
  BY DEF InUse, TimersOnly
<1>2. ASSUME NEW x \in P PROVE SndBufAt(n, d.sbuf[Slot(n, x)], x)
  <2>1. PICK i \in Ring : i = Slot(n, x)
    OBVIOUS
  <2>2. SndBufAt(n, c.sbuf[i], x)
    BY <2>1 DEF RingHolds
  <2>3. /\ d.sbuf[i].inUse = c.sbuf[i].inUse /\ d.sbuf[i].seq = c.sbuf[i].seq
        /\ d.sbuf[i].som = c.sbuf[i].som /\ d.sbuf[i].fcnt = c.sbuf[i].fcnt
        /\ d.sbuf[i].ttl = c.sbuf[i].ttl /\ d.sbuf[i].msg = c.sbuf[i].msg
    BY DEF TimersOnly
  <2>4. SndBufAt(n, d.sbuf[i], x)
    BY <2>2, <2>3 DEF SndBufAt
  <2> QED
    BY <2>1, <2>4
<1>3. ASSUME NEW i \in Ring, d.sbuf[i].inUse PROVE \E x \in P : i = Slot(n, x)
  BY <1>3 DEF TimersOnly, RingHolds
<1>4. ASSUME NEW i \in Ring, d.sbuf[i].timer PROVE d.sbuf[i].inUse
  BY <1>4 DEF TimersOnly, RingHolds
<1>5. d.pending = Cardinality(InUse(d))
  BY <1>1 DEF TimersOnly, RingHolds
<1> QED
  BY <1>2, <1>3, <1>4, <1>5 DEF RingHolds

\* The slots of a message, and their number.
LEMMA MessageSlots ==
  ASSUME Fits, NEW n \in Node, NEW m \in 1 .. Count(n)
  PROVE  /\ Follow(Slot(n, First(n, m)), Msgs[n][m].fcnt) \in SUBSET Ring
         /\ IsFiniteSet(Follow(Slot(n, First(n, m)), Msgs[n][m].fcnt))
         /\ Cardinality(Follow(Slot(n, First(n, m)), Msgs[n][m].fcnt)) = Msgs[n][m].fcnt
<1>1. PICK A \in Nat, E \in Nat : A = First(n, m) /\ E = First(n, m + 1) /\ A <= E /\ E - A <= SegMax
                               /\ E <= Total(n) /\ E - A = Msgs[n][m].fcnt
  BY Message
<1>2. Follow(Slot(n, First(n, m)), Msgs[n][m].fcnt) = {Slot(n, y) : y \in A .. E - 1}
  BY <1>1, MessageFollow
<1>3. Cardinality({Slot(n, y) : y \in A .. E - 1}) = E - A
  BY <1>1, SlotCount
<1>4. {Slot(n, y) : y \in A .. E - 1} \in SUBSET Ring
  <2> SUFFICES ASSUME NEW y \in A .. E - 1 PROVE Slot(n, y) \in Ring
    OBVIOUS
  <2>0. PICK T \in Nat : T = Total(n)
    BY FirstIs
  <2>a. y \in 0 .. T + SegMax
    BY <2>0, <1>1
  <2>1. y \in 0 .. Total(n) + SegMax
    BY <2>0, <2>a
  <2> QED
    BY <2>1, SlotIs
<1>5. IsFiniteSet(Ring)
  BY FS_Interval DEF Ring
<1>6. IsFiniteSet({Slot(n, y) : y \in A .. E - 1})
  BY <1>4, <1>5, FS_Subset
<1> QED
  BY <1>1, <1>2, <1>3, <1>4, <1>6

\* d is c without the buffers G of message m.
Freed(n, c, d, m, G) ==
  /\ G = Follow(Slot(n, First(n, m)), Msgs[n][m].fcnt)
  /\ \A j \in Ring : d.sbuf[j] = (IF j \in G THEN FreeSndBuf ELSE c.sbuf[j])
  /\ d.pending = c.pending - Cardinality(G)

\* The ring without one of its messages.
LEMMA FlushRing ==
  ASSUME Fits, NEW n \in Node, NEW c, NEW R \in SUBSET (1 .. Count(n)), RingHolds(n, c, Posns(n, R)),
         NEW m \in R, NEW G, NEW d, Freed(n, c, d, m, G)
  PROVE  /\ RingHolds(n, d, Posns(n, R \ {m}))
         /\ d.pending \in 0 .. SegMax - 1
<1>m. m \in 1 .. Count(n) /\ Count(n) \in Nat
  BY FirstIs
<1>g. G = {Slot(n, y) : y \in First(n, m) .. First(n, m + 1) - 1}
  BY <1>m, MessageFollow DEF Freed
<1>fr. /\ \A j \in Ring : d.sbuf[j] = (IF j \in G THEN FreeSndBuf ELSE c.sbuf[j])
       /\ d.pending = c.pending - Cardinality(G)
  BY DEF Freed
<1>gr. G \in SUBSET Ring /\ IsFiniteSet(G) /\ Cardinality(G) \in 1 .. SegMax
  BY <1>m, MessageSlots, Message DEF Freed
<1>1. ASSUME NEW j \in G PROVE j \in Ring /\ c.sbuf[j].inUse /\ c.sbuf[j].msg = m
  <2>1. PICK y \in First(n, m) .. First(n, m + 1) - 1 : j = Slot(n, y)
    BY <1>g
  <2> QED
    BY <2>1, RingMessage
<1>2. ASSUME NEW x \in Posns(n, R \ {m}) PROVE SndBufAt(n, d.sbuf[Slot(n, x)], x)
  <2>1. PICK i \in R \ {m} : First(n, i) <= x /\ x < First(n, i + 1) /\ x \in 0 .. First(n, Len(Msgs[n]) + 1)
    BY DEF Posns
  <2>2. First(n, i) \in Nat /\ First(n, i + 1) \in Nat /\ i \in 1 .. Count(n)
    <3>1. i \in 1 .. Count(n) /\ i + 1 \in Nat
      BY <1>m
    <3>2. \A k \in Nat : First(n, k) \in Nat
      BY FirstIs
    <3> QED
      BY <3>1, <3>2
  <2>3. x \in First(n, i) .. First(n, i + 1) - 1
    BY <2>1, <2>2
  <2>4. x \in Posns(n, R) /\ Slot(n, x) \in Ring /\ c.sbuf[Slot(n, x)].msg = i
    BY <2>1, <2>3, RingMessage
  <2>5. Slot(n, x) \notin G
    BY <2>1, <2>4, <1>1
  <2>6. SndBufAt(n, c.sbuf[Slot(n, x)], x)
    BY <2>4 DEF RingHolds
  <2> QED
    BY <2>4, <2>5, <2>6, <1>fr
<1>3. ASSUME NEW i \in Ring, d.sbuf[i].inUse PROVE \E x \in Posns(n, R \ {m}) : i = Slot(n, x)
  <2>1. i \notin G /\ c.sbuf[i].inUse
    BY <1>3, <1>fr, FreeIs
  <2>2. i \in InUse(c)
    BY <2>1 DEF InUse
  <2>3. PICK k \in R : \E x \in First(n, k) .. First(n, k + 1) - 1 : i = Slot(n, x)
    BY <2>2, RingUsed
  <2>4. PICK x \in First(n, k) .. First(n, k + 1) - 1 : i = Slot(n, x)
    BY <2>3
  <2>5. k # m
    BY <2>1, <2>4, <1>g
  <2>6. x \in Posns(n, R)
    BY <2>4, RingMessage
  <2>7. x \in 0 .. First(n, Len(Msgs[n]) + 1) /\ First(n, k) <= x /\ x < First(n, k + 1)
    <3>1. First(n, k) \in Nat /\ First(n, k + 1) \in Nat
      BY Message, FirstIs
    <3>2. First(n, k) <= x /\ x < First(n, k + 1)
      BY <3>1, <2>4
    <3> QED
      BY <2>6, <3>2 DEF Posns
  <2>8. x \in Posns(n, R \ {m})
    BY <2>5, <2>7 DEF Posns
  <2> QED
    BY <2>4, <2>8
<1>4. ASSUME NEW i \in Ring, d.sbuf[i].timer PROVE d.sbuf[i].inUse
  BY <1>4, <1>fr, FreeIs DEF RingHolds
<1>5. InUse(d) = InUse(c) \ G
  BY <1>1, <1>fr, FreeIs DEF InUse
<1>6. G \subseteq InUse(c)
  BY <1>1 DEF InUse
<1>7. IsFiniteSet(InUse(c)) /\ Cardinality(InUse(c)) \in 0 .. SegMax /\ c.pending = Cardinality(InUse(c))
  BY PendingIs DEF RingHolds
<1>8. Cardinality(InUse(c) \ G) = Cardinality(InUse(c)) - Cardinality(G) /\ Cardinality(InUse(c) \ G) \in Nat
  <2>1. InUse(c) \cap G = G
    BY <1>6
  <2>2. IsFiniteSet(InUse(c) \ G)
    BY <1>7, FS_Difference
  <2>3. Cardinality(InUse(c) \ G) = Cardinality(InUse(c)) - Cardinality(InUse(c) \cap G)
    BY <1>7, <1>gr, FS_Difference
  <2> QED
    BY <2>1, <2>2, <2>3, FS_CardinalityType
<1>9. d.pending = Cardinality(InUse(d)) /\ d.pending \in 0 .. SegMax - 1
  BY <1>5, <1>7, <1>8, <1>gr, <1>fr
<1> QED
  BY <1>2, <1>3, <1>4, <1>9 DEF RingHolds

\* The reports of a, and that message m was sent.
CbSent(n, a, m) ==
  [k \in 1 .. Count(n) |-> IF k = m THEN Append(a.sendCb[m], "ok") ELSE a.sendCb[k]]

\* FlushMessage takes one message out of the ring and reports it.
LEMMA FlushMessageStep ==
  ASSUME Fits, NEW n \in Node, NEW s, StepT(n, s), NEW R \in SUBSET (1 .. Count(n)),
         RingHolds(n, s.c, Posns(n, R)), NEW m \in R, NEW i, Slot(n, First(n, m)) = i
  PROVE  LET t == FlushMessage(s, i, "ok")
         IN  /\ StepT(n, t) /\ Beside(s.c, t.c) /\ RingHolds(n, t.c, Posns(n, R \ {m}))
             /\ SettledApp(s.a, t.a, CbSent(n, s.a, m))
             /\ t.out = s.out /\ t.o = s.o /\ t.ok = s.ok
<1>m. m \in 1 .. Count(n)
  OBVIOUS
<1>1. PICK t : t = FlushMessage(s, i, "ok")
  OBVIOUS
<1>2. s.c \in Conn /\ AppT(n, s.a) /\ s.c.sbuf \in [Ring -> SndBuf] /\ s.broken \subseteq Allowed
  BY DEF StepT, Conn
<1>3. s.a.sendCb = [k \in 1 .. Count(n) |-> s.a.sendCb[k]]
  <2>1. DOMAIN Msgs[n] = 1 .. Count(n)
    BY FirstIs
  <2> QED
    BY <1>2, <2>1 DEF AppT
<1>b. s.c.sbuf[i].fcnt = Msgs[n][m].fcnt /\ s.c.sbuf[i].msg = m
  <2>1. First(n, m) \in First(n, m) .. First(n, m + 1) - 1
    BY <1>m, MessageFollow
  <2> QED
    BY <2>1, RingMessage
<1>4. PICK G : G = Follow(i, Msgs[n][m].fcnt)
  OBVIOUS
<1>5. PICK ring : ring = [j \in Ring |-> IF j \in G THEN FreeSndBuf ELSE s.c.sbuf[j]]
  OBVIOUS
<1>6. ring \in [Ring -> SndBuf] /\ \A j \in Ring : ring[j] = IF j \in G THEN FreeSndBuf ELSE s.c.sbuf[j]
  BY <1>2, <1>5, FreeIs
<1>7. PICK cb : cb = [k \in 1 .. Count(n) |->
                        IF k = m THEN Append(s.a.sendCb[m], "ok") ELSE s.a.sendCb[k]]
  OBVIOUS
<1>8. PICK z : z = s.c.pending - Cardinality(G)
  OBVIOUS
<1>9. PICK d : d = [s.c EXCEPT !.sbuf = ring, !.pending = z]
  OBVIOUS
<1>10. d.sbuf = ring /\ d.pending = z
  BY <1>2, <1>9 DEF Conn
<1>11. RingHolds(n, d, Posns(n, R \ {m})) /\ z \in 0 .. SegMax - 1
  <2>1. \A j \in Ring : d.sbuf[j] = IF j \in G THEN FreeSndBuf ELSE s.c.sbuf[j]
    BY <1>6, <1>10
  <2>2. G = Follow(Slot(n, First(n, m)), Msgs[n][m].fcnt)
    BY <1>4
  <2>3. d.pending = s.c.pending - Cardinality(G)
    BY <1>8, <1>10
  <2>4. Freed(n, s.c, d, m, G)
    BY <2>1, <2>2, <2>3 DEF Freed
  <2> QED
    BY <2>4, <1>10, FlushRing
<1>12. d \in Conn /\ Beside(s.c, d)
  <2>1. z \in 0 .. SegMax
    BY <1>11
  <2> QED
    BY <2>1, <1>2, <1>6, <1>9 DEF Conn, Beside
<1>13. PICK e : e = [s.a EXCEPT !.sendCb = cb]
  OBVIOUS
<1>14. AppT(n, e) /\ SettledApp(s.a, e, cb)
  <2>1. /\ e = [submitted |-> e.submitted, sendCb |-> e.sendCb, rcvd |-> e.rcvd,
                  held |-> e.held, consumed |-> e.consumed, connectCb |-> e.connectCb,
                  disconnectCb |-> e.disconnectCb]
        /\ SettledApp(s.a, e, cb)
    BY <1>2, <1>13 DEF AppT, SettledApp
  <2>2. cb = [k \in DOMAIN Msgs[n] |-> cb[k]]
    BY <1>7, FirstIs
  <2> QED
    BY <1>2, <2>1, <2>2 DEF AppT, SettledApp
<1>15. PICK h \in BOOLEAN : h <=> (s.c.state = "OPEN" => \A j \in G : ~s.c.sbuf[j].timer)
  OBVIOUS
<1>16. PICK u : u = [s EXCEPT !.c = d, !.a = e]
  OBVIOUS
<1>17. /\ Shape(u) /\ u.c = d /\ u.a = e /\ u.jam = s.jam /\ u.out = s.out /\ u.o = s.o
       /\ u.ok = s.ok /\ u.broken = s.broken
  BY <1>16 DEF Shape, StepT
<1>18. StepT(n, u)
  BY <1>12, <1>14, <1>17 DEF StepT
<1>19. t = Check(u, "no timer on flushed buffer", h)
  <2> DEFINE u0 == [s EXCEPT !.c.sbuf = [j \in Ring |-> IF j \in G THEN FreeSndBuf ELSE @[j]],
                             !.c.pending = z, !.a.sendCb[m] = Append(@, "ok")]
             h0 == s.c.state = "OPEN" => \A j \in G : ~s.c.sbuf[j].timer
             t0 == Check(Check(u0, "no timer on flushed buffer", h0), "pending in range", z \in 0 .. SegMax - 1)
  <2>0. z = s.c.pending - Msgs[n][m].fcnt
    BY <1>m, <1>4, <1>8, MessageSlots
  <2>1. t = t0
    BY <2>0, <1>1, <1>b, <1>4, Zenon DEF FlushMessage
  <2>2. t0 = Check(u0, "no timer on flushed buffer", h0)
    <3> HIDE DEF u0, h0
    <3> QED
      BY <1>11 DEF Check
  <2>3. Check(u0, "no timer on flushed buffer", h0) = Check(u0, "no timer on flushed buffer", h)
    <3> HIDE DEF u0
    <3> QED
      BY <1>15 DEF Check
  <2>4. u0 = u
    <3>1. cb = [s.a.sendCb EXCEPT ![m] = Append(@, "ok")]
      BY <1>3, <1>7
    <3>2. u0 = [s EXCEPT !.c.sbuf = [j \in Ring |-> IF j \in G THEN FreeSndBuf ELSE s.c.sbuf[j]],
                             !.c.pending = z, !.a.sendCb = [s.a.sendCb EXCEPT ![m] = Append(@, "ok")]]
      BY <1>2 DEF AppT, Conn, StepT, Shape
    <3>3. u0 = [s EXCEPT !.c.sbuf = ring, !.c.pending = z, !.a.sendCb = cb]
      BY <3>1, <3>2, <1>5, Zenon
    <3> HIDE DEF u0
    <3>4. Shape(u0) /\ u0.c = [s.c EXCEPT !.sbuf = ring, !.pending = z]
          /\ u0.a = [s.a EXCEPT !.sendCb = cb] /\ u0.jam = s.jam /\ u0.out = s.out /\ u0.o = s.o
          /\ u0.ok = s.ok /\ u0.broken = s.broken
      BY <3>3 DEF Shape, StepT
    <3>5. u0.c = u.c /\ u0.a = u.a
      BY <3>4, <1>9, <1>13, <1>17
    <3> QED
      BY <3>4, <3>5, <1>17 DEF Shape
  <2> HIDE DEF u0, t0, h0
  <2> QED
    BY <2>1, <2>2, <2>3, <2>4
<1>20. /\ StepT(n, t) /\ t.c = d /\ t.a = e /\ t.out = s.out /\ t.o = s.o /\ t.ok = s.ok
  <2>1. "no timer on flushed buffer" \in Allowed
    BY DEF Allowed
  <2>a. PICK x \in Allowed : x = "no timer on flushed buffer"
    BY <2>1
  <2>2. IsCheck(t, u, x)
    <3>1. CASE h
      BY <3>1, <2>a, <1>19 DEF IsCheck
    <3>2. CASE ~h
      BY <3>2, <2>a, <1>19 DEF IsCheck
    <3> QED
      BY <3>1, <3>2
  <2>3. StepT(n, t) /\ t.c = u.c /\ t.a = u.a /\ t.out = u.out /\ t.o = u.o /\ t.ok = u.ok
    BY <2>2, <1>18, Checked
  <2> QED
    BY <2>3, <1>17
<1>21. cb = CbSent(n, s.a, m)
  BY <1>7, Zenon DEF CbSent
<1> QED
  BY <1>1, <1>10, <1>11, <1>12, <1>14, <1>20, <1>21

\* The position of the last fragment of message m.
Final(n, m) == First(n, m + 1) - 1

\* u is t after a visit to a buffer of message m, which is flushed or not.
Visited(n, t, u, R, m, flushed) ==
  /\ StepT(n, u) /\ Beside(t.c, u.c) /\ u.out = t.out /\ u.o = t.o /\ u.ok = t.ok
  /\ IF flushed
     THEN /\ RingHolds(n, u.c, Posns(n, R \ {m}))
          /\ SettledApp(t.a, u.a, CbSent(n, t.a, m))
     ELSE RingHolds(n, u.c, Posns(n, R)) /\ u.a = t.a

\* Positions of messages are small, and have slots.
LEMMA PosnIs ==
  ASSUME Fits, NEW n \in Node, NEW m \in 1 .. Count(n), NEW y \in First(n, m) .. First(n, m + 1) - 1
  PROVE  /\ y \in Nat /\ y \in 0 .. SeqSpace - 1 /\ y < Half /\ y <= Total(n) /\ y \in 0 .. Total(n) + SegMax
         /\ Slot(n, y) \in Ring /\ SeqAt(n, y) \in Seqs /\ Pos(n, SeqAt(n, y)) = y
<1>1. PICK A \in Nat, E \in Nat, T \in Nat : A = First(n, m) /\ E = First(n, m + 1) /\ T = Total(n)
         /\ E <= T /\ 1 <= A /\ T + SegMax < Half /\ Half \in Nat /\ Half + Half = SeqSpace
  <2>1. First(n, m) \in Nat \ {0} /\ First(n, m + 1) <= Total(n)
    BY Message
  <2>2. /\ Total(n) \in Nat /\ Total(n) + SegMax < Half /\ Half \in Nat /\ Half + Half = SeqSpace
        /\ \A k \in Nat : First(n, k) \in Nat
    BY FirstIs
  <2>3. First(n, m + 1) \in Nat
    BY <2>2, FirstIs
  <2> QED
    BY <2>1, <2>2, <2>3
<1>2. y \in A .. E - 1
  BY <1>1
<1>3. y \in Nat /\ y \in 0 .. SeqSpace - 1 /\ y < Half /\ y <= T /\ y \in 0 .. T + SegMax
  BY <1>1, <1>2
<1> QED
  BY <1>1, <1>3, SlotIs, AtPos

\* A turn of UpdateSndSegments that does not stop the loop.
LEMMA VisitBuffer ==
  ASSUME Fits, NEW n \in Node, NEW t, StepT(n, t), NEW R \in SUBSET (1 .. Count(n)),
         RingHolds(n, t.c, Posns(n, R)), NEW m \in R, NEW y \in First(n, m) .. First(n, m + 1) - 1,
         NEW i, i = Slot(n, y), NEW ack \in Seqs, NEW lcs \in Seqs,
         NEW A \in Nat, NEW C \in Nat, Pos(n, ack) = A, Pos(n, lcs) = C, A < Half, C < Half, y <= A
  PROVE  Visited(n, t, UpdateBuffer(t, i, ack, lcs), R, m, y <= C /\ y = Final(n, m))
<1>m. m \in 1 .. Count(n)
  OBVIOUS
<1>y. /\ y \in Nat /\ y < Half /\ Slot(n, y) \in Ring /\ SeqAt(n, y) \in Seqs /\ Pos(n, SeqAt(n, y)) = y
  BY <1>m, PosnIs
<1>1. PICK b : b = t.c.sbuf[i]
  OBVIOUS
<1>2. /\ b.inUse /\ b.seq = SeqAt(n, y) /\ b.ttl = "inf" /\ b.msg = m
      /\ b.som = SeqAt(n, First(n, m)) /\ b.fcnt = Msgs[n][m].fcnt
  BY <1>1, RingMessage
<1>3. ~SEQ32_LT(ack, b.seq)
  <2>1. SEQ32_LT(ack, b.seq) <=> Pos(n, ack) < Pos(n, b.seq)
    BY <1>y, <1>2, PosLT
  <2> QED
    BY <2>1, <1>y, <1>2
<1>4. SEQ32_LET(b.seq, lcs) <=> y <= C
  <2>1. SEQ32_LT(b.seq, lcs) <=> Pos(n, b.seq) < Pos(n, lcs)
    BY <1>y, <1>2, PosLT
  <2>2. Pos(n, b.seq) = Pos(n, lcs) <=> b.seq = lcs
    BY <1>y, <1>2, PosEq
  <2> QED
    BY <2>1, <2>2, <1>y, <1>2 DEF SEQ32_LET
<1>5. b.seq = Plus(b.som, b.fcnt - 1) <=> y = Final(n, m)
  <2>1. PICK X \in Nat, k \in Nat : X = First(n, m) /\ Msgs[n][m].fcnt = k + 1
           /\ First(n, m + 1) = X + (k + 1) /\ X + (k + 1) <= Total(n)
    <3>1. First(n, m) \in Nat /\ Msgs[n][m].fcnt \in 1 .. SegMax
          /\ First(n, m + 1) = First(n, m) + Msgs[n][m].fcnt /\ First(n, m + 1) <= Total(n)
      BY <1>m, Message
    <3>2. PICK k \in Nat : Msgs[n][m].fcnt = k + 1
      <4>1. PICK z \in 1 .. SegMax : z = Msgs[n][m].fcnt
        BY <3>1
      <4>2. z - 1 \in Nat /\ z = (z - 1) + 1
        OBVIOUS
      <4> QED
        BY <4>1, <4>2
    <3> QED
      BY <3>1, <3>2
  <2>2. X \in 0 .. SeqSpace - 1 /\ X + k < SeqSpace
    <3>1. PICK T \in Nat : T = Total(n) /\ T + SegMax < Half /\ Half \in Nat /\ Half + Half = SeqSpace
      BY FirstIs
    <3> QED
      BY <3>1, <2>1
  <2>3. SeqAt(n, X) \in Seqs /\ Pos(n, SeqAt(n, X)) = X
    BY <2>2, AtPos
  <2>4. Plus(SeqAt(n, X), k) \in Seqs /\ Pos(n, Plus(SeqAt(n, X), k)) = X + k
    BY <2>2, <2>3, PosPlus
  <2>5. b.fcnt - 1 = k /\ b.som = SeqAt(n, X)
    BY <1>2, <2>1
  <2>6. b.seq = Plus(b.som, b.fcnt - 1) <=> y = X + k
    BY <2>4, <2>5, <1>2, <1>y, PosEq
  <2>7. Final(n, m) = X + k
    BY <2>1 DEF Final
  <2> QED
    BY <2>6, <2>7
<1>6. LastFragmentConsumed(b, lcs) <=> (y <= C /\ y = Final(n, m))
  BY <1>4, <1>5 DEF LastFragmentConsumed
<1>7. t.c \in Conn /\ Shape(t)
  BY DEF StepT
<1>i. i \in Ring
  BY <1>y
<1>7s. t.c.sbuf \in [Ring -> SndBuf]
  BY <1>7 DEF Conn
<1>7b. PICK sb \in SndBuf : sb = [t.c.sbuf[i] EXCEPT !.timer = FALSE]
  <2>1. t.c.sbuf[i] \in SndBuf
    BY <1>7s, <1>i
  <2> QED
    BY <2>1 DEF SndBuf
<1>8. PICK ring \in [Ring -> SndBuf] : ring = [t.c.sbuf EXCEPT ![i] = sb]
  BY <1>7s, <1>i
<1>8a. ring = [t.c.sbuf EXCEPT ![i].timer = FALSE]
  BY <1>7b, <1>8, Zenon
<1>9. PICK d : d = [t.c EXCEPT !.sbuf = ring]
  OBVIOUS
<1>10. d \in Conn /\ Beside(t.c, d) /\ d.sbuf = ring /\ d.pending = t.c.pending
  BY <1>7, <1>9 DEF Conn, Beside
<1>11. TimersOnly(t.c, d)
  <2> SUFFICES ASSUME NEW j \in Ring
               PROVE /\ ring[j].inUse = t.c.sbuf[j].inUse /\ ring[j].seq = t.c.sbuf[j].seq
                     /\ ring[j].som = t.c.sbuf[j].som /\ ring[j].fcnt = t.c.sbuf[j].fcnt
                     /\ ring[j].ttl = t.c.sbuf[j].ttl /\ ring[j].msg = t.c.sbuf[j].msg
                     /\ ring[j].timer => t.c.sbuf[j].timer
    BY <1>10 DEF TimersOnly
  <2>1. t.c.sbuf \in [Ring -> SndBuf]
    BY <1>7 DEF Conn
  <2>2. CASE j = i
    BY <2>1, <2>2, <1>7b, <1>8 DEF SndBuf
  <2>3. CASE j # i
    BY <2>1, <2>3, <1>8
  <2> QED
    BY <2>2, <2>3
<1>12. RingHolds(n, d, Posns(n, R))
  <2>1. \A x \in Posns(n, R) : Slot(n, x) \in Ring
    <3> SUFFICES ASSUME NEW x \in Posns(n, R) PROVE Slot(n, x) \in Ring
      OBVIOUS
    <3>1. PICK T \in Nat : T = Total(n) /\ T = First(n, Len(Msgs[n]) + 1)
      BY FirstIs DEF Total, Count
    <3>2. x \in 0 .. T
      BY <3>1 DEF Posns
    <3>3. x \in 0 .. T + SegMax
      BY <3>2
    <3> QED
      BY <3>1, <3>3, SlotIs
  <2> QED
    BY <2>1, <1>11, RingTimers
<1>13. PICK u : u = [t EXCEPT !.c = d]
  OBVIOUS
<1>14. /\ Shape(u) /\ u.c = d /\ u.a = t.a /\ u.jam = t.jam /\ u.out = t.out
       /\ u.o = t.o /\ u.ok = t.ok /\ u.broken = t.broken
  BY <1>7, <1>13 DEF Shape
<1>15. StepT(n, u)
  BY <1>10, <1>14 DEF StepT
<1>16. PICK v : v = UpdateBuffer(t, i, ack, lcs)
  OBVIOUS
<1>17. [t EXCEPT !.c.sbuf[i].timer = FALSE] = u
  <2>1. [t EXCEPT !.c.sbuf[i].timer = FALSE] = [t EXCEPT !.c = [t.c EXCEPT !.sbuf = ring]]
    BY <1>7, <1>8a DEF Conn, Shape
  <2> QED
    BY <2>1, <1>9, <1>13
<1>18. v = IF LastFragmentConsumed(b, lcs) THEN FlushMessage(u, Idx(b.som), "ok") ELSE u
  <2>1. v = IF ~b.inUse \/ SEQ32_LT(ack, b.seq) THEN [t EXCEPT !.ok = FALSE]
            ELSE IF LastFragmentConsumed(b, lcs)
            THEN FlushMessage([t EXCEPT !.c.sbuf[i].timer = FALSE], Idx(b.som),
                              IF b.ttl # "expired" THEN "ok" ELSE "expired")
            ELSE [t EXCEPT !.c.sbuf[i].timer = FALSE]
    BY <1>1, <1>16, Zenon DEF UpdateBuffer
  <2>2. (IF b.ttl # "expired" THEN "ok" ELSE "expired") = "ok"
    BY <1>2
  <2>3. v = IF LastFragmentConsumed(b, lcs)
            THEN FlushMessage(u, Idx(b.som), IF b.ttl # "expired" THEN "ok" ELSE "expired") ELSE u
    BY <2>1, <1>2, <1>3, <1>17, Zenon
  <2> QED
    BY <2>2, <2>3, Zenon
<1>19. CASE y <= C /\ y = Final(n, m)
  <2>1. PICK k : k = Slot(n, First(n, m))
    OBVIOUS
  <2>2. Idx(b.som) = k
    BY <2>1, <1>2 DEF Slot
  <2>3. v = FlushMessage(u, k, "ok")
    BY <2>2, <1>6, <1>18, <1>19
  <2>4. RingHolds(n, u.c, Posns(n, R))
    BY <1>12, <1>14
  <2>5. /\ StepT(n, v) /\ Beside(u.c, v.c) /\ RingHolds(n, v.c, Posns(n, R \ {m}))
        /\ SettledApp(u.a, v.a, CbSent(n, u.a, m))
        /\ v.out = u.out /\ v.o = u.o /\ v.ok = u.ok
    BY <2>1, <2>3, <2>4, <1>15, FlushMessageStep
  <2>6. Beside(t.c, v.c)
    BY <2>5, <1>10, <1>14 DEF Beside
  <2>7. Visited(n, t, v, R, m, TRUE)
    BY <2>5, <2>6, <1>14 DEF Visited
  <2> QED
    BY <2>7, <1>16, <1>19
<1>20. CASE ~(y <= C /\ y = Final(n, m))
  <2>1. v = u
    BY <1>6, <1>18, <1>20
  <2>2. Visited(n, t, v, R, m, FALSE)
    BY <2>1, <1>10, <1>12, <1>14, <1>15 DEF Visited
  <2> QED
    BY <2>2, <1>16, <1>20
<1> QED
  BY <1>19, <1>20

\* The segments up to position A have arrived, those up to C are consumed, and
\* the sender knew those up to L to be; f is its first unsettled message.
AckOf(n, c, a, q, f, ack, lcs, L, A, C) ==
  /\ ack \in Seqs /\ lcs \in Seqs /\ Pos(n, c.LCS) = L /\ Pos(n, ack) = A /\ Pos(n, lcs) = C
  /\ C <= A /\ A < EndOf(n, a) /\ C < First(n, q + 1) /\ L < Final(n, f)

\* The loop of UpdateSndSegments, begun in s, has made k turns.
UpdatingF(n, s, t, q, f, k, L, A, C, F) ==
  /\ StepT(n, t) /\ Beside(s.c, t.c) /\ t.out = s.out /\ t.o = s.o
  /\ SettledApp(s.a, t.a, t.a.sendCb) /\ CbMoves(n, s.a, t.a, q)
  /\ F \subseteq f .. s.a.submitted /\ F \subseteq 1 .. q
  /\ RingHolds(n, t.c, Posns(n, (f .. s.a.submitted) \ F))
  /\ CbLoose(n, t.a, f, F)
  /\ \A m \in F : Final(n, m) <= C
  /\ t.ok => \A m \in f .. s.a.submitted : Final(n, m) <= C /\ Final(n, m) <= L + k => m \in F
  /\ t.ok => k = 0 \/ L <= A

Updating(n, s, t, q, f, k, L, A, C) == \E F : UpdatingF(n, s, t, q, f, k, L, A, C, F)

\* Stopping the loop.
LEMMA UpdateStop ==
  ASSUME NEW n \in Node, NEW s, NEW t, NEW q, NEW f, NEW k, NEW j, NEW L, NEW A, NEW C, NEW F,
         UpdatingF(n, s, t, q, f, k, L, A, C, F), NEW u, u = t \/ u = [t EXCEPT !.ok = FALSE], ~u.ok
  PROVE  UpdatingF(n, s, u, q, f, j, L, A, C, F)
<1>1. Shape(t)
  BY DEF UpdatingF, StepT
<1>2. /\ Shape(u) /\ u.c = t.c /\ u.a = t.a /\ u.jam = t.jam /\ u.out = t.out
      /\ u.o = t.o /\ u.ok = FALSE /\ u.broken = t.broken
  <2>1. CASE u = t
    <3>1. t.ok \in BOOLEAN
      BY DEF UpdatingF, StepT
    <3> QED
      BY <2>1, <3>1, <1>1
  <2>2. CASE u = [t EXCEPT !.ok = FALSE]
    BY <2>2, <1>1 DEF Shape
  <2> QED
    BY <2>1, <2>2
<1>3. StepT(n, u)
  BY <1>2 DEF UpdatingF, StepT
<1> QED
  BY <1>2, <1>3 DEF UpdatingF

\* The messages of a set R, in numbers.
LEMMA MessageSpan ==
  ASSUME Fits, NEW n \in Node, NEW m \in 1 .. Count(n)
  PROVE  \E X \in Nat, Z \in Nat, T \in Nat :
            /\ X = First(n, m) /\ Z = Final(n, m) /\ T = Total(n)
            /\ 1 <= X /\ X <= Z /\ Z < X + SegMax /\ Z < T /\ T + SegMax < Half
            /\ Z \in First(n, m) .. First(n, m + 1) - 1
            /\ First(n, m + 1) = Z + 1
<1>1. First(n, m) \in Nat \ {0} /\ Msgs[n][m].fcnt \in 1 .. SegMax
      /\ First(n, m + 1) = First(n, m) + Msgs[n][m].fcnt /\ First(n, m + 1) <= Total(n)
  BY Message
<1>2. PICK z \in 1 .. SegMax : z = Msgs[n][m].fcnt
  BY <1>1
<1>3. PICK T \in Nat : T = Total(n) /\ T + SegMax < Half
  BY FirstIs
<1>4. PICK X \in Nat : X = First(n, m) /\ 1 <= X /\ First(n, m + 1) = X + z /\ X + z <= T
  BY <1>1, <1>2, <1>3
<1>5. PICK Z \in Nat : Z = (X + z) - 1 /\ Z = Final(n, m)
  BY <1>4 DEF Final
<1>6. X <= Z /\ Z < X + SegMax /\ Z < T /\ X + z = Z + 1 /\ Z \in X .. (X + z) - 1
  BY <1>4, <1>5
<1> QED
  BY <1>3, <1>4, <1>5, <1>6

\* A turn of the loop of UpdateSndSegments.
LEMMA UpdateTurnStep ==
  ASSUME Fits, NEW n \in Node, NEW s, AppT(n, s.a), NEW q \in Nat, NEW f \in 1 .. s.a.submitted,
         NEW ack, NEW lcs, NEW L \in Nat, NEW A \in Nat, NEW C \in Nat,
         AckOf(n, s.c, s.a, q, f, ack, lcs, L, A, C),
         NEW k \in Nat \ {0}, L <= A => L + k <= A, NEW t, Updating(n, s, t, q, f, k - 1, L, A, C)
  PROVE  Updating(n, s, UpdateTurn(t, (Slot(n, L + 1) + (k - 1)) % SegMax, ack, lcs), q, f, k, L, A, C)
<1>1. PICK F : UpdatingF(n, s, t, q, f, k - 1, L, A, C, F)
  BY DEF Updating
<1>2. StepT(n, t) /\ t.ok \in BOOLEAN /\ Shape(t)
  BY <1>1 DEF UpdatingF, StepT
<1>3. PICK i : i = (Slot(n, L + 1) + (k - 1)) % SegMax
  OBVIOUS
<1>4. PICK u : u = UpdateTurn(t, i, ack, lcs)
  OBVIOUS
<1>N. PICK N \in Nat, S \in Nat, T \in Nat : N = Count(n) /\ S = s.a.submitted /\ T = Total(n) /\ S <= N
         /\ T + SegMax < Half /\ Half + Half = SeqSpace /\ Half \in Nat
  <2>1. s.a.submitted \in 0 .. Count(n)
    BY DEF AppT, Count
  <2>2. Count(n) \in Nat /\ Total(n) \in Nat /\ Total(n) + SegMax < Half /\ Half + Half = SeqSpace /\ Half \in Nat
    BY FirstIs
  <2>3. PICK N \in Nat : N = Count(n)
    BY <2>2
  <2>4. PICK S \in Nat : S = s.a.submitted /\ S <= N
    BY <2>1, <2>3
  <2> QED
    BY <2>2, <2>3, <2>4
<1>f. f \in 1 .. N /\ f \in 1 .. S /\ f \in 1 .. Count(n)
  BY <1>N
<1>R. PICK R : R = (f .. S) \ F
  OBVIOUS
<1>R1. R \in SUBSET (1 .. Count(n)) /\ RingHolds(n, t.c, Posns(n, R)) /\ F \subseteq f .. S /\ F \subseteq 1 .. q
       /\ \A m \in R : m \in f .. S /\ m \in 1 .. N /\ m \notin F
  BY <1>1, <1>N, <1>R, <1>f DEF UpdatingF
<1>a. /\ ack \in Seqs /\ lcs \in Seqs /\ Pos(n, ack) = A /\ Pos(n, lcs) = C
      /\ C <= A /\ A < T /\ A < Half /\ C < Half
  <2>1. EndOf(n, s.a) <= T
    <3>1. S + 1 \in 1 .. Count(n) + 1 /\ S + 1 <= S + 1
      BY <1>N
    <3>2. First(n, S + 1) <= Total(n)
      BY <3>1, FirstMono
    <3> QED
      BY <3>2, <1>N DEF EndOf
  <2>2. EndOf(n, s.a) \in Nat
    <3>1. S + 1 \in Nat
      OBVIOUS
    <3> QED
      BY <3>1, <1>N, FirstIs DEF EndOf
  <2>3. PICK e \in Nat : e = EndOf(n, s.a) /\ e <= T /\ A < e
    BY <2>1, <2>2 DEF AckOf
  <2>4. A < T /\ A < Half
    BY <2>3, <1>N
  <2>5. C <= A
    BY DEF AckOf
  <2> QED
    BY <2>4, <2>5, <1>N DEF AckOf
<1>l. PICK X0 \in Nat, Z0 \in Nat : X0 = First(n, f) /\ Z0 = Final(n, f) /\ X0 <= Z0 /\ Z0 < X0 + SegMax
         /\ Z0 < T /\ L < Z0
  <2>1. PICK X \in Nat, Z \in Nat, TT \in Nat :
            /\ X = First(n, f) /\ Z = Final(n, f) /\ TT = Total(n)
            /\ 1 <= X /\ X <= Z /\ Z < X + SegMax /\ Z < TT /\ TT + SegMax < Half
    BY <1>f, MessageSpan
  <2>2. L < Final(n, f)
    BY DEF AckOf
  <2> QED
    BY <2>1, <2>2, <1>N
<1>5. CASE ~t.ok
  <2>1. u = t
    BY <1>4, <1>5 DEF UpdateTurn
  <2>2. UpdatingF(n, s, u, q, f, k, L, A, C, F)
    BY <2>1, <1>1, <1>5, UpdateStop
  <2> QED
    BY <2>2, <1>3, <1>4 DEF Updating
<1>6. CASE t.ok
  <2>x. PICK x \in Nat : x = L + k /\ x <= T /\ (L <= A => x <= A) /\ (~(L <= A) => x = L + 1)
    <3>1. k - 1 = 0 \/ L <= A
      BY <1>1, <1>6 DEF UpdatingF
    <3> QED
      BY <3>1, <1>a, <1>l
  <2>i. i = Slot(n, x) /\ i \in Ring
    <3>1. L + 1 \in Nat /\ k - 1 \in Nat /\ (L + 1) + (k - 1) = x /\ x <= T + SegMax /\ x \in 0 .. T + SegMax
      BY <2>x
    <3>2. (Slot(n, L + 1) + (k - 1)) % SegMax = Slot(n, x)
      BY <3>1, <1>N, SlotNext
    <3>3. Slot(n, x) \in Ring
      BY <3>1, <1>N, SlotIs
    <3> QED
      BY <3>2, <3>3, <1>3
  <2>b. PICK b : b = t.c.sbuf[i]
    OBVIOUS
  <2>u. u = UpdateBuffer(t, i, ack, lcs)
    BY <1>4, <1>6 DEF UpdateTurn
  <2>1. CASE ~b.inUse \/ SEQ32_LT(ack, b.seq)
    <3>1. u = [t EXCEPT !.ok = FALSE]
      BY <2>u, <2>1, <2>b, Zenon DEF UpdateBuffer
    <3>2. ~u.ok
      BY <3>1, <1>2 DEF Shape
    <3>3. UpdatingF(n, s, u, q, f, k, L, A, C, F)
      BY <3>1, <3>2, <1>1, UpdateStop
    <3> QED
      BY <3>3, <1>3, <1>4 DEF Updating
  <2>2. CASE b.inUse /\ ~SEQ32_LT(ack, b.seq)
    <3>m. PICK m \in R : \E y \in First(n, m) .. First(n, m + 1) - 1 : i = Slot(n, y)
      <4>1. i \in InUse(t.c)
        BY <2>2, <2>i, <2>b DEF InUse
      <4> QED
        BY <4>1, <1>R1, RingUsed
    <3>y. PICK y \in First(n, m) .. First(n, m + 1) - 1 : i = Slot(n, y)
      BY <3>m
    <3>m1. m \in 1 .. Count(n) /\ m \in f .. S /\ m \in 1 .. N /\ m \notin F
      BY <1>R1, <1>N
    <3>y1. /\ y \in Nat /\ y < Half /\ y <= T /\ y \in 0 .. Total(n) + SegMax
           /\ SeqAt(n, y) \in Seqs /\ Pos(n, SeqAt(n, y)) = y
      BY <3>m1, <1>N, PosnIs
    <3>b. b.seq = SeqAt(n, y) /\ b.msg = m
      BY <1>R1, <2>b, <3>y, RingMessage
    <3>A. y <= A
      <4>1. SEQ32_LT(ack, b.seq) <=> Pos(n, ack) < Pos(n, b.seq)
        BY <3>b, <3>y1, <1>a, PosLT
      <4> QED
        BY <4>1, <2>2, <3>b, <3>y1, <1>a
    <3>X. X0 <= y
      <4>1. f \in 1 .. Count(n) + 1 /\ m \in 1 .. Count(n) + 1 /\ f <= m
        BY <3>m1, <1>f, <1>N
      <4>2. First(n, f) + (m - f) <= First(n, m) /\ First(n, m) \in Nat
        BY <4>1, FirstMono
      <4>3. PICK z \in Nat : z = First(n, m) /\ X0 + (m - f) <= z
        BY <4>2, <1>l
      <4>4. z <= y
        BY <4>3
      <4> QED
        BY <4>1, <4>3, <4>4, <1>f, <3>m1
    <3>L. L <= A
      <4> SUFFICES ASSUME ~(L <= A) PROVE FALSE
        OBVIOUS
      <4>1. x = L + 1 /\ x - y < SegMax /\ y - x < SegMax
        BY <2>x, <3>A, <3>X, <1>l, <3>y1
      <4>2. x \in 0 .. Total(n) + SegMax
        BY <2>x, <1>N
      <4>3. x = y
        BY <4>1, <4>2, <3>y1, <3>y, <2>i, SlotDistinct
      <4> QED
        BY <4>1, <4>3, <3>A
    <3>v. Visited(n, t, u, R, m, y <= C /\ y = Final(n, m))
      BY <3>y, <3>A, <1>2, <1>R1, <1>a, <2>u, VisitBuffer
    \* A message that ends at x is the one that is looked at.
    <3>n. ASSUME NEW j \in f .. S, Final(n, j) <= C, Final(n, j) <= L + k, j \notin F
          PROVE  j = m /\ y <= C /\ y = Final(n, m)
      <4>1. j \in R /\ j \in 1 .. Count(n)
        BY <3>n, <1>R, <1>f, <1>N
      <4>2. PICK Z \in Nat : Z = Final(n, j) /\ Z \in First(n, j) .. First(n, j + 1) - 1 /\ Z <= C
        BY <4>1, <3>n, MessageSpan
      <4>3. Z = x
        <5>1. ~(Z <= L + (k - 1))
          BY <1>1, <1>6, <3>n, <4>2, <1>N DEF UpdatingF
        <5>2. Z <= L + k
          BY <4>2, <3>n
        <5> QED
          BY <5>1, <5>2, <2>x
      <4>4. b.seq = SeqAt(n, Z) /\ b.msg = j
        BY <4>1, <4>2, <4>3, <1>R1, <2>i, <2>b, RingMessage
      <4>5. Pos(n, SeqAt(n, Z)) = Z
        BY <4>1, <4>2, PosnIs
      <4> QED
        BY <4>2, <4>4, <4>5, <3>b, <3>y1
    <3>1. CASE y <= C /\ y = Final(n, m)
      <4>G. PICK G : G = F \cup {m}
        OBVIOUS
      <4>v. /\ StepT(n, u) /\ Beside(t.c, u.c) /\ u.out = t.out /\ u.o = t.o /\ u.ok = t.ok
            /\ RingHolds(n, u.c, Posns(n, R \ {m}))
            /\ SettledApp(t.a, u.a, CbSent(n, t.a, m))
        BY <3>v, <3>1 DEF Visited
      <4>q. m \in 1 .. q
        <5>1. PICK Z \in Nat : Z = Final(n, m) /\ First(n, m + 1) = Z + 1
          BY <3>m1, MessageSpan
        <5>2. Z < First(n, q + 1)
          <6>1. PICK Q \in Nat : Q = First(n, q + 1)
            <7>1. q + 1 \in Nat
              OBVIOUS
            <7> QED
              BY <7>1, FirstIs
          <6>2. C < Q /\ Z <= C
            BY <3>1, <5>1, <6>1 DEF AckOf
          <6> QED
            BY <6>1, <6>2
        <5>3. CASE q <= N
          <6> SUFFICES ASSUME ~(m <= q) PROVE FALSE
            BY <3>m1
          <6>1. q + 1 \in 1 .. Count(n) + 1 /\ m \in 1 .. Count(n) + 1 /\ q + 1 <= m
            BY <5>3, <3>m1, <1>N
          <6>2. First(n, q + 1) + (m - (q + 1)) <= First(n, m) /\ First(n, q + 1) \in Nat /\ First(n, m) \in Nat
            BY <6>1, FirstMono
          <6>3. PICK Q \in Nat, M \in Nat : Q = First(n, q + 1) /\ M = First(n, m) /\ Q <= M
            BY <6>1, <6>2
          <6>4. M <= Z
            BY <5>1, <6>3, <3>m1, MessageSpan
          <6> QED
            BY <6>3, <6>4, <5>2
        <5>4. CASE ~(q <= N)
          BY <5>4, <3>m1
        <5> QED
          BY <5>3, <5>4
      <4>1. Beside(s.c, u.c) /\ u.out = s.out /\ u.o = s.o
        BY <4>v, <1>1 DEF UpdatingF, Beside
      <4>2. SettledApp(s.a, u.a, u.a.sendCb)
        BY <4>v, <1>1 DEF UpdatingF, SettledApp
      <4>cb. /\ \A j \in 1 .. Count(n) : j # m => u.a.sendCb[j] = t.a.sendCb[j]
             /\ u.a.sendCb[m] = Append(t.a.sendCb[m], "ok")
        <5>1. u.a.sendCb = CbSent(n, t.a, m)
          BY <4>v DEF SettledApp
        <5> QED
          BY <5>1, <3>m1 DEF CbSent
      <4>cm. t.a.sendCb[m] = <<>> /\ u.a.sendCb[m] = <<"ok">>
        <5>1. ~(m < f) /\ m \in 1 .. Len(Msgs[n])
          BY <3>m1, <1>f DEF Count
        <5>2. t.a.sendCb[m] = <<>>
          BY <5>1, <1>1, <3>m1 DEF UpdatingF, CbLoose
        <5> QED
          BY <5>2, <4>cb
      <4>3. CbMoves(n, s.a, u.a, q)
        <5> SUFFICES ASSUME NEW j \in 1 .. Len(Msgs[n])
                     PROVE  \/ u.a.sendCb[j] = s.a.sendCb[j]
                            \/ /\ s.a.sendCb[j] = <<>>
                               /\ u.a.sendCb[j] = <<"disconnecting">> \/ (u.a.sendCb[j] = <<"ok">> /\ j <= q)
          BY DEF CbMoves
        <5>1. \/ t.a.sendCb[j] = s.a.sendCb[j]
              \/ /\ s.a.sendCb[j] = <<>>
                 /\ t.a.sendCb[j] = <<"disconnecting">> \/ (t.a.sendCb[j] = <<"ok">> /\ j <= q)
          BY <1>1 DEF UpdatingF, CbMoves
        <5>2. CASE j # m
          BY <5>1, <5>2, <4>cb DEF Count
        <5>3. CASE j = m
          <6>1. s.a.sendCb[m] = <<>>
            BY <5>1, <5>3, <4>cm
          <6> QED
            BY <6>1, <5>3, <4>cm, <4>q
        <5> QED
          BY <5>2, <5>3
      <4>4. G \subseteq f .. S /\ G \subseteq 1 .. q
        BY <4>G, <4>q, <3>m1, <1>R1
      <4>5. RingHolds(n, u.c, Posns(n, (f .. S) \ G))
        <5>1. (f .. S) \ G = R \ {m}
          BY <4>G, <1>R
        <5> QED
          BY <5>1, <4>v
      <4>6. CbLoose(n, u.a, f, G)
        <5> SUFFICES ASSUME NEW j \in 1 .. Len(Msgs[n])
                     PROVE  IF j < f THEN u.a.sendCb[j] \in Reported
                            ELSE IF j \in G THEN u.a.sendCb[j] = <<"ok">>
                            ELSE u.a.sendCb[j] = <<>>
          BY DEF CbLoose
        <5>1. IF j < f THEN t.a.sendCb[j] \in Reported
              ELSE IF j \in F THEN t.a.sendCb[j] = <<"ok">>
              ELSE t.a.sendCb[j] = <<>>
          BY <1>1 DEF UpdatingF, CbLoose
        <5>2. CASE j # m
          BY <5>1, <5>2, <4>cb, <4>G DEF Count
        <5>3. CASE j = m
          BY <5>3, <4>cm, <4>G, <3>m1, <1>f
        <5> QED
          BY <5>2, <5>3
      <4>7. \A j \in G : Final(n, j) <= C
        BY <4>G, <3>1, <1>1 DEF UpdatingF
      <4>8. \A j \in f .. S : Final(n, j) <= C /\ Final(n, j) <= L + k => j \in G
        BY <3>n, <4>G
      <4>9. UpdatingF(n, s, u, q, f, k, L, A, C, G)
        BY <4>v, <4>1, <4>2, <4>3, <4>4, <4>5, <4>6, <4>7, <4>8, <3>L, <1>N DEF UpdatingF
      <4> QED
        BY <4>9, <1>3, <1>4 DEF Updating
    <3>2. CASE ~(y <= C /\ y = Final(n, m))
      <4>v. /\ StepT(n, u) /\ Beside(t.c, u.c) /\ u.out = t.out /\ u.o = t.o /\ u.ok = t.ok
            /\ RingHolds(n, u.c, Posns(n, R)) /\ u.a = t.a
        BY <3>v, <3>2 DEF Visited
      <4>1. Beside(s.c, u.c) /\ u.out = s.out /\ u.o = s.o
        BY <4>v, <1>1 DEF UpdatingF, Beside
      <4>2. \A j \in f .. S : Final(n, j) <= C /\ Final(n, j) <= L + k => j \in F
        BY <3>n, <3>2
      <4>3. UpdatingF(n, s, u, q, f, k, L, A, C, F)
        BY <4>v, <4>1, <4>2, <3>L, <1>1, <1>N, <1>R DEF UpdatingF
      <4> QED
        BY <4>3, <1>3, <1>4 DEF Updating
    <3> QED
      BY <3>1, <3>2
  <2> QED
    BY <2>1, <2>2
<1> QED
  BY <1>2, <1>5, <1>6

\* run is the loop of UpdateSndSegments, turn by turn.
UpdateRuns(run, s, first, n, ack, lcs) ==
  /\ run[0] = [s EXCEPT !.ok = TRUE]
  /\ \A k \in 1 .. n : run[k] = UpdateTurn(run[k - 1], (first + k - 1) % SegMax, ack, lcs)
  /\ UpdateLoop(s, first, n, ack, lcs) = run[n]

\* The turns of the loop of UpdateSndSegments, one after the other.
LEMMA UpdateRun ==
  ASSUME NEW s, NEW first, NEW n \in Nat, NEW ack, NEW lcs
  PROVE  \E run : UpdateRuns(run, s, first, n, ack, lcs)
<1> DEFINE Turn(t, k) == UpdateTurn(t, (first + k - 1) % SegMax, ack, lcs)
           s0 == [s EXCEPT !.ok = TRUE]
           Runs(j) == \E f : f = [k \in 0 .. j |-> IF k = 0 THEN s0 ELSE Turn(f[k - 1], k)]
           S == {j \in Nat : ~Runs(j)}
<1>1. UpdateLoop(s, first, n, ack, lcs) =
         (CHOOSE f : f = [k \in 0 .. n |-> IF k = 0 THEN s0 ELSE Turn(f[k - 1], k)])[n]
  BY Zenon DEF UpdateLoop
<1> HIDE DEF Turn, s0
<1>2. Runs(n)
  <2> SUFFICES ASSUME S # {} PROVE FALSE
    OBVIOUS
  <2>1. PICK x \in S : \A j \in S : x <= j
    <3> HIDE DEF S
    <3>1. S \in SUBSET Nat
      BY DEF S
    <3> QED
      BY <3>1, SmallestNat
  <2>2. x # 0
    <3>1. PICK f : f = [k \in 0 .. 0 |-> s0]
      OBVIOUS
    <3>2. f = [k \in 0 .. 0 |-> IF k = 0 THEN s0 ELSE Turn(f[k - 1], k)]
      BY <3>1
    <3>3. Runs(0)
      BY <3>2
    <3> QED
      BY <3>3
  <2>3. x \in Nat /\ x - 1 \in Nat /\ x - 1 \notin S
    <3>1. x \in Nat
      BY <2>1
    <3> HIDE DEF S
    <3> QED
      BY <3>1, <2>1, <2>2
  <2>4. PICK f : f = [k \in 0 .. x - 1 |-> IF k = 0 THEN s0 ELSE Turn(f[k - 1], k)]
    BY <2>3
  <2>5. PICK g : g = [k \in 0 .. x |-> IF k = x THEN Turn(f[x - 1], x) ELSE f[k]]
    OBVIOUS
  <2>6. ASSUME NEW k \in 0 .. x PROVE g[k] = IF k = 0 THEN s0 ELSE Turn(g[k - 1], k)
    <3>1. CASE k = x
      <4>1. g[k] = Turn(f[x - 1], x) /\ g[x - 1] = f[x - 1]
        BY <3>1, <2>3, <2>5
      <4> QED
        BY <4>1, <3>1, <2>2
    <3>2. CASE k # x /\ k # 0
      <4>1. k \in 0 .. x - 1 /\ k - 1 \in 0 .. x - 1 /\ k - 1 # x
        BY <3>2, <2>3
      <4>2. g[k] = f[k] /\ g[k - 1] = f[k - 1]
        BY <4>1, <3>2, <2>5, <2>3
      <4>3. f[k] = Turn(f[k - 1], k)
        BY <4>1, <2>4, <3>2
      <4> QED
        BY <4>2, <4>3, <3>2
    <3>3. CASE k # x /\ k = 0
      <4>1. k \in 0 .. x - 1
        BY <3>3, <2>3
      <4> QED
        BY <4>1, <3>3, <2>4, <2>5
    <3> QED
      BY <3>1, <3>2, <3>3
  <2>7. g = [k \in 0 .. x |-> IF k = 0 THEN s0 ELSE Turn(g[k - 1], k)]
    BY <2>5, <2>6
  <2>8. Runs(x)
    BY <2>7
  <2> QED
    BY <2>1, <2>8
<1>3. PICK run : run = CHOOSE f : f = [k \in 0 .. n |-> IF k = 0 THEN s0 ELSE Turn(f[k - 1], k)]
  OBVIOUS
<1>4. run = [k \in 0 .. n |-> IF k = 0 THEN s0 ELSE Turn(run[k - 1], k)]
  BY <1>2, <1>3
<1>5. run[0] = s0
  BY <1>4
<1>6. ASSUME NEW k \in 1 .. n PROVE run[k] = Turn(run[k - 1], k)
  BY <1>4
<1>7. UpdateRuns(run, s, first, n, ack, lcs)
  BY <1>1, <1>3, <1>5, <1>6 DEF Turn, s0, UpdateRuns
<1> QED
  BY <1>7

\* u is where the loop of UpdateSndSegments, begun in s, ends.
LoopEnds(n, s, u, q, f, L, A, C) ==
  \E k \in Nat : Updating(n, s, u, q, f, k, L, A, C) /\ (u.ok => L <= A /\ L + k = A)

\* The loop of UpdateSndSegments.
LEMMA UpdateLoopStep ==
  ASSUME Fits, NEW n \in Node, NEW s, StepT(n, s), s.c.LCS \in Seqs, NEW q \in Nat, NEW f \in 1 .. s.a.submitted,
         NEW ack, NEW lcs, NEW L \in Nat, NEW A \in Nat, NEW C \in Nat,
         AckOf(n, s.c, s.a, q, f, ack, lcs, L, A, C),
         RingHolds(n, s.c, Posns(n, f .. s.a.submitted)), CbAt(n, s.a, f)
  PROVE  LoopEnds(n, s, UpdateLoop(s, Slot(n, L + 1), Minus(ack, s.c.LCS), ack, lcs), q, f, L, A, C)
<1>s. AppT(n, s.a) /\ Shape(s) /\ ack \in Seqs /\ Pos(n, s.c.LCS) = L /\ Pos(n, ack) = A
  BY DEF StepT, AckOf
<1>K. PICK K \in Nat : K = Minus(ack, s.c.LCS) /\ (L <= A => L + K = A) /\ (~(L <= A) => K # 0)
  <2>1. Minus(ack, s.c.LCS) = IF A >= L THEN A - L ELSE (A + SeqSpace) - L
    BY <1>s, PosMinus
  <2>2. L \in 0 .. SeqSpace - 1
    BY <1>s, PosOf
  <2>3. PICK K : K = Minus(ack, s.c.LCS)
    OBVIOUS
  <2>4. K = IF A >= L THEN A - L ELSE (A + SeqSpace) - L
    BY <2>1, <2>3
  <2>5. K \in Nat /\ (L <= A => L + K = A) /\ (~(L <= A) => K # 0)
    BY <2>2, <2>4
  <2> QED
    BY <2>3, <2>5
<1>F. PICK first \in Nat : first = Slot(n, L + 1)
  <2>1. PICK T \in Nat : T = Total(n) /\ T + SegMax < Half /\ Half \in Nat /\ Half + Half = SeqSpace
    BY FirstIs
  <2>2. f \in 1 .. Count(n)
    <3>1. s.a.submitted \in 0 .. Count(n) /\ Count(n) \in Nat
      BY <1>s, FirstIs DEF AppT, Count
    <3> QED
      BY <3>1
  <2>3. L + 1 <= T
    <3>1. PICK Z \in Nat, TT \in Nat : Z = Final(n, f) /\ TT = Total(n) /\ Z < TT
      BY <2>2, MessageSpan
    <3>2. L < Z
      BY <3>1 DEF AckOf
    <3> QED
      BY <3>1, <3>2, <2>1
  <2>4. L + 1 \in 0 .. Total(n) + SegMax
    BY <2>1, <2>3
  <2>5. Slot(n, L + 1) \in Ring
    BY <2>4, SlotIs
  <2> QED
    BY <2>5 DEF Ring
<1>t. PICK t : t = UpdateLoop(s, first, K, ack, lcs)
  OBVIOUS
<1>run. PICK run : UpdateRuns(run, s, first, K, ack, lcs)
  BY UpdateRun
<1> DEFINE P(k) == Updating(n, s, run[k], q, f, k, L, A, C)
<1>1. P(0)
  <2>1. PICK t0 : t0 = [s EXCEPT !.ok = TRUE]
    OBVIOUS
  <2>2. /\ Shape(t0) /\ t0.c = s.c /\ t0.a = s.a /\ t0.jam = s.jam /\ t0.out = s.out
        /\ t0.o = s.o /\ t0.ok = TRUE /\ t0.broken = s.broken
    BY <2>1, <1>s DEF Shape
  <2>3. StepT(n, t0)
    BY <2>2 DEF StepT
  <2>4. Beside(s.c, t0.c) /\ SettledApp(s.a, t0.a, t0.a.sendCb) /\ CbMoves(n, s.a, t0.a, q)
    BY <2>2 DEF Beside, SettledApp, CbMoves
  <2>5. RingHolds(n, t0.c, Posns(n, (f .. s.a.submitted) \ {}))
    <3>1. (f .. s.a.submitted) \ {} = f .. s.a.submitted
      OBVIOUS
    <3> QED
      BY <3>1, <2>2
  <2>6. CbLoose(n, t0.a, f, {})
    BY <2>2 DEF CbLoose, CbAt
  <2>7. \A m \in f .. s.a.submitted : ~(Final(n, m) <= L + 0)
    <3> SUFFICES ASSUME NEW m \in f .. s.a.submitted PROVE ~(Final(n, m) <= L + 0)
      OBVIOUS
    <3>1. PICK N \in Nat, S \in Nat : N = Count(n) /\ S = s.a.submitted /\ S <= N
      <4>1. s.a.submitted \in 0 .. Count(n)
        BY <1>s DEF AppT, Count
      <4>2. PICK N \in Nat : N = Count(n)
        BY FirstIs
      <4>3. s.a.submitted \in 0 .. N
        BY <4>1, <4>2
      <4> QED
        BY <4>2, <4>3
    <3>2. f \in 1 .. N /\ m \in 1 .. N /\ f <= m /\ m + 1 \in 1 .. N + 1 /\ f + 1 \in 1 .. N + 1
      BY <3>1
    <3>3. First(n, f + 1) + ((m + 1) - (f + 1)) <= First(n, m + 1)
      BY <3>1, <3>2, FirstMono
    <3>a. f \in 1 .. Count(n) /\ m \in 1 .. Count(n)
      BY <3>1, <3>2
    <3>b. PICK Zf \in Nat : Zf = Final(n, f) /\ First(n, f + 1) = Zf + 1
      BY <3>a, MessageSpan
    <3>c. PICK Zm \in Nat : Zm = Final(n, m) /\ First(n, m + 1) = Zm + 1
      BY <3>a, MessageSpan
    <3>4. Zf = Final(n, f) /\ Zm = Final(n, m)
           /\ First(n, f + 1) = Zf + 1 /\ First(n, m + 1) = Zm + 1
      BY <3>b, <3>c
    <3>5. Zf <= Zm
      BY <3>2, <3>3, <3>4
    <3>6. L < Zf
      BY <3>4 DEF AckOf
    <3> QED
      BY <3>4, <3>5, <3>6
  <2>8. UpdatingF(n, s, t0, q, f, 0, L, A, C, {})
    BY <2>2, <2>3, <2>4, <2>5, <2>6, <2>7 DEF UpdatingF
  <2>9. run[0] = t0
    BY <2>1, <1>run DEF UpdateRuns
  <2> QED
    BY <2>8, <2>9 DEF Updating
<1>2. ASSUME NEW k \in 1 .. K, P(k - 1) PROVE P(k)
  <2>1. PICK t1 : t1 = run[k - 1]
    OBVIOUS
  <2>2. Updating(n, s, t1, q, f, k - 1, L, A, C)
    BY <1>2, <2>1
  <2>3. first + k - 1 = first + (k - 1)
    OBVIOUS
  <2>4. run[k] = UpdateTurn(t1, (first + k - 1) % SegMax, ack, lcs)
    BY <2>1, <1>run DEF UpdateRuns
  <2>5. run[k] = UpdateTurn(t1, (Slot(n, L + 1) + (k - 1)) % SegMax, ack, lcs)
    BY <2>3, <2>4, <1>F
  <2>6. k \in Nat \ {0} /\ (L <= A => L + k <= A)
    BY <1>K
  <2>7. Updating(n, s, UpdateTurn(t1, (Slot(n, L + 1) + (k - 1)) % SegMax, ack, lcs), q, f, k, L, A, C)
    BY <2>2, <2>6, <1>s, UpdateTurnStep
  <2> QED
    BY <2>5, <2>7
<1> HIDE DEF P
<1> DEFINE S == {k \in 0 .. K : ~P(k)}
<1>3. S = {}
  <2> SUFFICES ASSUME S # {} PROVE FALSE
    OBVIOUS
  <2>1. S \in SUBSET Nat /\ \A k \in S : k \in 0 .. K /\ ~P(k)
    OBVIOUS
  <2>2. PICK k \in S : \A j \in S : k <= j
    <3> HIDE DEF S
    <3> QED
      BY <2>1, SmallestNat
  <2>3. k # 0
    BY <1>1, <2>1
  <2>4. k \in 1 .. K /\ k - 1 \in 0 .. K /\ k - 1 < k
    BY <2>1, <2>3
  <2>5. k - 1 \notin S
    BY <2>2, <2>4
  <2> QED
    BY <2>1, <2>4, <2>5, <1>2
<1>4. P(K)
  BY <1>3
<1>5. Updating(n, s, t, q, f, K, L, A, C)
  BY <1>4, <1>run, <1>t DEF P, UpdateRuns
<1>6. t.ok => L <= A
  BY <1>5, <1>K DEF Updating, UpdatingF
<1>7. LoopEnds(n, s, t, q, f, L, A, C)
  BY <1>5, <1>6, <1>K DEF LoopEnds
<1> QED
  BY <1>7, <1>K, <1>F, <1>t

\* Nothing but the send side differs.
SndOnly(c, d) ==
  /\ d.state = c.state /\ d.passive = c.passive /\ d.local = c.local /\ d.foreign = c.foreign
  /\ d.CUR = c.CUR /\ d.rLCS = c.rLCS /\ d.rbuf = c.rbuf /\ d.eack = c.eack
  /\ d.conTimer = c.conTimer /\ d.reason = c.reason

\* What stays true of a node when an open connection's send side changes.
SndStep(n, s, t, r, b) ==
  /\ StepT(n, t) /\ SndOnly(s.c, t.c) /\ SettledApp(s.a, t.a, t.a.sendCb)
  /\ CbMoves(n, s.a, t.a, b.consumed) /\ t.out = s.out /\ Est(n, t.c)
  /\ Knows(Peer(n), r) => Pos(n, t.c.UNA) <= Pos(n, r.CUR) + 1

\* A change of the send side moves the node.
LEMMA SndMoves ==
  ASSUME Fits, NEW n \in Node, NEW s, NEW r, NEW b, Good(n, s, r, b), s.c.state = "OPEN",
         NEW t, SndStep(n, s, t, r, b)
  PROVE  /\ Moves(n, s.c, s.a, t.c, t.a, b.consumed)
         /\ s.a.disconnectCb = <<>> /\ t.a.disconnectCb = <<>>
         /\ RcvApp(Peer(n), t.a, b.submitted) /\ Ctl(n, t.c, t.a) /\ RcvOK(n, t.c, t.a, b.submitted)
         /\ EndOf(n, t.a) <= First(n, b.consumed + 1) + SegMax
         /\ \A seg \in t.out : SegOK(n, seg, t.c, t.a, r, b)
<1>1. /\ t.a.submitted = s.a.submitted /\ t.a.rcvd = s.a.rcvd /\ t.a.held = s.a.held
      /\ t.a.consumed = s.a.consumed /\ t.a.disconnectCb = s.a.disconnectCb
  BY DEF SndStep, SettledApp
<1>2. Ctl(n, s.c, s.a) /\ RcvOK(n, s.c, s.a, b.submitted) /\ AppOK(n, s.a, b)
  BY DEF Good, ConnOK
<1>3. s.a.disconnectCb = <<>> /\ Est(n, s.c) /\ Est(n, t.c) /\ s.c.reason = "none"
  BY <1>2 DEF Ctl, SndStep
<1>4. SndOnly(s.c, t.c)
  BY DEF SndStep
<1>5. Ctl(n, t.c, t.a)
  BY <1>1, <1>2, <1>3, <1>4 DEF Ctl, SndOnly, Closed
<1>6. RcvOK(n, t.c, t.a, b.submitted)
  BY <1>1, <1>2, <1>3, <1>4 DEF RcvOK, RcvHeld, RcvAt, SndOnly
<1>7. RcvApp(Peer(n), t.a, b.submitted) /\ EndOf(n, t.a) <= First(n, b.consumed + 1) + SegMax
  BY <1>1, <1>2 DEF AppOK, RcvApp, EndOf
<1>8. s.c \in Conn /\ t.c \in Conn /\ AppT(n, s.a) /\ AppT(n, t.a)
  BY DEF Good, SndStep, StepT
<1>9. Moves(n, s.c, s.a, t.c, t.a, b.consumed)
  <2>1. Len(s.a.rcvd) <= Len(t.a.rcvd)
    <3>1. Len(s.a.rcvd) \in Nat
      BY <1>8, LenProperties DEF AppT
    <3> QED
      BY <3>1, <1>1
  <2>2. Pos(Peer(n), s.c.CUR) <= Pos(Peer(n), t.c.CUR)
    <3>1. Pos(Peer(n), s.c.CUR) \in 0 .. SeqSpace - 1
      BY <1>8, PosOf, PeerNode DEF Conn
    <3> QED
      BY <3>1, <1>4 DEF SndOnly
  <2>3. CbMoves(n, s.a, t.a, b.consumed)
    BY DEF SndStep
  <2> QED
    BY <2>1, <2>2, <2>3, <1>1, <1>3 DEF Moves
<1>10. \A seg \in t.out : SegOK(n, seg, t.c, t.a, r, b)
  <2> SUFFICES ASSUME NEW seg \in t.out PROVE SegOK(n, seg, t.c, t.a, r, b)
    OBVIOUS
  <2>1. seg \in s.out /\ SegOK(n, seg, s.c, s.a, r, b)
    BY DEF SndStep, Good
  <2>2. t.c.CUR = s.c.CUR
    BY <1>4 DEF SndOnly
  <2> QED
    BY <2>1, <2>2, <1>1, <1>8, SegSame
<1> QED
  BY <1>1, <1>3, <1>5, <1>6, <1>7, <1>9, <1>10

\* The messages from the first unsettled one on are in the ring.
LEMMA SndGood ==
  ASSUME Fits, NEW n \in Node, NEW s, NEW r, NEW b, Good(n, s, r, b), s.c.state = "OPEN",
         NEW t, SndStep(n, s, t, r, b), SndOK(n, t.c, t.a, b.consumed)
  PROVE  Good(n, t, r, b)
<1>1. /\ t.a.disconnectCb = <<>>
      /\ RcvApp(Peer(n), t.a, b.submitted) /\ Ctl(n, t.c, t.a) /\ RcvOK(n, t.c, t.a, b.submitted)
      /\ EndOf(n, t.a) <= First(n, b.consumed + 1) + SegMax
      /\ \A seg \in t.out : SegOK(n, seg, t.c, t.a, r, b)
  BY SndMoves
<1>2. \E f \in 1 .. t.a.submitted + 1 : CbAt(n, t.a, f)
  BY DEF SndOK, SndAt
<1>3. AppOK(n, t.a, b)
  BY <1>1, <1>2 DEF AppOK
<1>4. StepT(n, t) /\ PeerT(n, r, b) /\ (Knows(Peer(n), r) => Pos(n, t.c.UNA) <= Pos(n, r.CUR) + 1)
  BY DEF Good, SndStep
<1> QED
  BY <1>1, <1>3, <1>4 DEF Good, ConnOK

\* Some later messages are settled as well.
LEMMA SndLoose ==
  ASSUME Fits, NEW n \in Node, NEW s, NEW r, NEW b, Good(n, s, r, b), s.c.state = "OPEN",
         NEW t, SndStep(n, s, t, r, b),
         \E f \in 1 .. t.a.submitted + 1 : \E F : LooseAt(n, t.c, t.a, b.consumed, f, F)
  PROVE  Loose(n, t, r, b)
<1>1. /\ t.a.disconnectCb = <<>>
      /\ RcvApp(Peer(n), t.a, b.submitted) /\ Ctl(n, t.c, t.a) /\ RcvOK(n, t.c, t.a, b.submitted)
      /\ EndOf(n, t.a) <= First(n, b.consumed + 1) + SegMax
      /\ \A seg \in t.out : SegOK(n, seg, t.c, t.a, r, b)
  BY SndMoves
<1>4. StepT(n, t) /\ PeerT(n, r, b) /\ (Knows(Peer(n), r) => Pos(n, t.c.UNA) <= Pos(n, r.CUR) + 1)
  BY DEF Good, SndStep
<1> QED
  BY <1>1, <1>4 DEF Loose

\* No message in the ring has expired.
LEMMA NoExpiredRun ==
  ASSUME NEW c, NEW i \in Nat, \A j \in Ring : ~(c.sbuf[j].inUse /\ c.sbuf[j].ttl = "expired")
  PROVE  ExpiredRun(c, i) = 0
<1>1. PICK S : S = {k \in 0 .. SegMax : \A j \in Follow(i, k) : c.sbuf[j].inUse /\ c.sbuf[j].ttl = "expired"}
  OBVIOUS
<1>2. ASSUME NEW k \in S PROVE k = 0
  <2>1. k \in 0 .. SegMax /\ \A j \in Follow(i, k) : c.sbuf[j].inUse /\ c.sbuf[j].ttl = "expired"
    BY <1>1
  <2> SUFFICES ASSUME k # 0 PROVE FALSE
    OBVIOUS
  <2>2. (i + 0) % SegMax \in Follow(i, k)
    <3>1. 0 \in 0 .. k - 1
      BY <2>1
    <3> QED
      BY <3>1 DEF Follow
  <2>3. (i + 0) % SegMax \in Ring
    BY DEF Ring
  <2> QED
    BY <2>1, <2>2, <2>3
<1>3. 0 \in S
  <2>1. Follow(i, 0) = {}
    BY DEF Follow
  <2> QED
    BY <2>1, <1>1
<1>4. S = {0}
  BY <1>2, <1>3
<1>5. Max({0}) = 0
  BY DEF Max
<1> QED
  BY <1>1, <1>4, <1>5 DEF ExpiredRun

\* The send side with some of its timers cancelled.
LEMMA TimersSnd ==
  ASSUME Fits, NEW n \in Node, NEW c, NEW d, NEW a, NEW q, AppT(n, a), SndOK(n, c, a, q),
         TimersOnly(c, d), d.NXT = c.NXT, d.UNA = c.UNA, d.LCS = c.LCS, d.state = c.state
  PROVE  SndOK(n, d, a, q)
<1>1. PICK f \in 1 .. a.submitted + 1 : SndAt(n, c, a, q, f)
  BY DEF SndOK
<1>2. PICK P : P = First(n, f) .. EndOf(n, a) - 1
  OBVIOUS
<1>3. \A x \in P : Slot(n, x) \in Ring
  <2> SUFFICES ASSUME NEW x \in P PROVE Slot(n, x) \in Ring
    OBVIOUS
  <2>1. PICK N \in Nat : N = Count(n)
    BY FirstIs
  <2>2. PICK S \in Nat : S = a.submitted /\ S <= N
    BY <2>1 DEF AppT, Count
  <2>3. f \in 1 .. N + 1 /\ S + 1 \in 1 .. N + 1 /\ f <= S + 1
    BY <2>2
  <2>4. First(n, f) \in Nat /\ First(n, S + 1) \in Nat
    BY <2>1, <2>3, FirstMono
  <2>5. First(n, S + 1) <= Total(n)
    BY <2>1, <2>3, FirstMono
  <2>6. PICK T \in Nat : T = Total(n)
    BY FirstIs
  <2>7. PICK E \in Nat : E = EndOf(n, a) /\ E <= T
    BY <2>2, <2>4, <2>5, <2>6 DEF EndOf
  <2>8. PICK X \in Nat : X = First(n, f)
    BY <2>4
  <2>9. x \in 0 .. T + SegMax
    BY <1>2, <2>7, <2>8
  <2> QED
    BY <2>6, <2>9, SlotIs
<1>4. RingHolds(n, d, P)
  <2>1. RingHolds(n, c, P)
    BY <1>1, <1>2 DEF SndAt
  <2> QED
    BY <2>1, <1>3, RingTimers
<1>5. SndNumbers(n, d, a, q, f, EndOf(n, a)) /\ CbAt(n, a, f)
  BY <1>1 DEF SndAt, SndNumbers
<1>6. SndAt(n, d, a, q, f)
  BY <1>2, <1>4, <1>5 DEF SndAt
<1> QED
  BY <1>6 DEF SndOK

\* Cancelling timers changes nothing that the invariant speaks of.
LEMMA TimersGood ==
  ASSUME Fits, NEW n \in Node, NEW s, NEW r, NEW b, Good(n, s, r, b),
         NEW t, StepT(n, t), SndOnly(s.c, t.c), TimersOnly(s.c, t.c), t.a = s.a, t.out = s.out,
         t.c.NXT = s.c.NXT, t.c.UNA = s.c.UNA, t.c.LCS = s.c.LCS
  PROVE  Good(n, t, r, b) /\ Moves(n, s.c, s.a, t.c, t.a, b.consumed)
<1>1. s.c \in Conn /\ t.c \in Conn /\ AppT(n, s.a) /\ PeerT(n, r, b) /\ AppOK(n, t.a, b)
      /\ Ctl(n, s.c, s.a) /\ SndOK(n, s.c, s.a, b.consumed) /\ RcvOK(n, s.c, s.a, b.submitted)
      /\ (Knows(Peer(n), r) => Pos(n, s.c.UNA) <= Pos(n, r.CUR) + 1)
  BY DEF Good, ConnOK, StepT
<1>2. SndOK(n, t.c, t.a, b.consumed)
  BY <1>1, TimersSnd DEF SndOnly
<1>3. Ctl(n, t.c, t.a)
  BY <1>1 DEF Ctl, Closed, Est, SndOnly, TimersOnly
<1>4. RcvOK(n, t.c, t.a, b.submitted)
  BY <1>1 DEF RcvOK, RcvHeld, RcvAt, SndOnly, Est
<1>5. \A seg \in t.out : SegOK(n, seg, t.c, t.a, r, b)
  <2> SUFFICES ASSUME NEW seg \in t.out PROVE SegOK(n, seg, t.c, t.a, r, b)
    OBVIOUS
  <2>1. SegOK(n, seg, s.c, s.a, r, b)
    BY DEF Good
  <2>2. t.c.CUR = s.c.CUR
    BY DEF SndOnly
  <2> QED
    BY <2>1, <2>2, <1>1, SegSame
<1>6. Moves(n, s.c, s.a, t.c, t.a, b.consumed)
  <2>1. Len(s.a.rcvd) \in Nat
    BY <1>1, LenProperties DEF AppT
  <2>2. Pos(Peer(n), s.c.CUR) \in 0 .. SeqSpace - 1
    BY <1>1, PosOf, PeerNode DEF Conn
  <2>3. t.c.CUR = s.c.CUR
    BY DEF SndOnly
  <2>4. Pos(Peer(n), s.c.CUR) <= Pos(Peer(n), t.c.CUR)
    BY <2>2, <2>3
  <2>5. Len(s.a.rcvd) <= Len(t.a.rcvd)
    BY <2>1
  <2>6. CbMoves(n, s.a, t.a, b.consumed)
    BY DEF CbMoves
  <2> QED
    BY <2>4, <2>5, <2>6 DEF Moves, Est
<1> QED
  BY <1>1, <1>2, <1>3, <1>4, <1>5, <1>6 DEF Good, ConnOK

\* A node that is as before, but for a step that keeps the invariant.
Kept(n, s, t, r, b) ==
  /\ Good(n, t, r, b) /\ Moves(n, s.c, s.a, t.c, t.a, b.consumed)
  /\ SndOnly(s.c, t.c) /\ t.a = s.a /\ t.o = s.o /\ t.ok = s.ok

\* t is s with UNA behind ack, which the peer r has received.
Acking(n, s, t, r, ack) ==
  /\ t = [s EXCEPT !.c.UNA = Plus(ack, 1)]
  /\ ack \in Seqs /\ Pos(n, ack) < EndOf(n, s.a) /\ (r # NoConn => Pos(n, ack) <= Pos(n, r.CUR))

\* An acknowledgement moves UNA.
LEMMA UnaStep ==
  ASSUME Fits, NEW n \in Node, NEW s, NEW r, NEW b, Good(n, s, r, b), s.c.state = "OPEN",
         NEW ack, NEW t, Acking(n, s, t, r, ack)
  PROVE  Kept(n, s, t, r, b)
<1>1. StepT(n, s) /\ PeerT(n, r, b) /\ AppOK(n, s.a, b) /\ ConnOK(n, s.c, s.a, r, b)
  BY DEF Good
<1>2. Shape(s) /\ s.c \in Conn /\ AppT(n, s.a) /\ AppT(Peer(n), b)
  BY <1>1 DEF StepT, PeerT
<1>a. ack \in Seqs /\ Pos(n, ack) < EndOf(n, s.a) /\ (r # NoConn => Pos(n, ack) <= Pos(n, r.CUR))
  BY DEF Acking
<1>A. PICK A \in Nat, E \in Nat : A = Pos(n, ack) /\ E = EndOf(n, s.a) /\ A < E /\ A + 1 < SeqSpace
  <2>1. EndOf(n, s.a) \in 1 .. Total(n) /\ Total(n) \in Nat /\ Total(n) + SegMax < Half
        /\ Half \in Nat /\ Half + Half = SeqSpace
    BY <1>1, <1>2, Places
  <2>2. Pos(n, ack) \in 0 .. SeqSpace - 1
    BY <1>a, PosOf
  <2>3. PICK E \in Nat : E = EndOf(n, s.a) /\ E < Half
    BY <2>1
  <2>4. PICK A \in Nat : A = Pos(n, ack)
    BY <2>2
  <2> QED
    BY <1>a, <2>1, <2>3, <2>4
<1>3. PICK una \in Seqs : una = Plus(ack, 1) /\ Pos(n, una) = A + 1
  BY <1>a, <1>A, PosPlus
<1>4. t = [s EXCEPT !.c.UNA = una]
  BY <1>3 DEF Acking
<1>5. /\ Shape(t) /\ t.c = [s.c EXCEPT !.UNA = una] /\ t.a = s.a /\ t.jam = s.jam /\ t.out = s.out
      /\ t.o = s.o /\ t.ok = s.ok /\ t.broken = s.broken
  BY <1>4, <1>2 DEF Shape
<1>6. t.c \in Conn
  BY <1>5, <1>2, <1>3 DEF Conn
<1>7. SndOnly(s.c, t.c) /\ t.c.LCS = s.c.LCS /\ t.c.pending = s.c.pending /\ t.c.UNA = una
      /\ t.c.sbuf = s.c.sbuf /\ t.c.NXT = s.c.NXT
  BY <1>5, <1>2 DEF SndOnly, Conn
<1>8. StepT(n, t)
  BY <1>1, <1>5, <1>6 DEF StepT
<1>9. Est(n, t.c)
  <2>1. Pos(n, Iss[n]) = 0
    <3>1. Iss[n] \in Seqs
      BY IssAssumption
    <3>2. PICK z \in Seqs : z = Iss[n]
      BY <3>1
    <3>3. Minus(z, z) = 0
      BY DEF Minus, Seqs
    <3> QED
      BY <3>2, <3>3 DEF Pos
  <2>2. una # Iss[n]
    BY <2>1, <1>3
  <2> QED
    BY <2>2, <1>7 DEF Est
<1>10. Knows(Peer(n), r) => Pos(n, t.c.UNA) <= Pos(n, r.CUR) + 1
  <2> SUFFICES ASSUME Knows(Peer(n), r) PROVE Pos(n, t.c.UNA) <= Pos(n, r.CUR) + 1
    OBVIOUS
  <2>1. r # NoConn /\ r.CUR \in Seqs
    BY <1>1 DEF Knows, PeerT, Conn
  <2>2. Pos(n, r.CUR) \in 0 .. SeqSpace - 1
    BY <2>1, PosOf
  <2>3. A <= Pos(n, r.CUR)
    BY <2>1, <1>A, <1>a
  <2> QED
    BY <2>2, <2>3, <1>3, <1>7
<1>11. SndStep(n, s, t, r, b)
  <2>1. SettledApp(s.a, t.a, t.a.sendCb) /\ CbMoves(n, s.a, t.a, b.consumed)
    BY <1>5 DEF SettledApp, CbMoves
  <2> QED
    BY <2>1, <1>5, <1>7, <1>8, <1>9, <1>10 DEF SndStep
<1>12. SndOK(n, t.c, t.a, b.consumed)
  <2>1. PICK f \in 1 .. s.a.submitted + 1 : SndAt(n, s.c, s.a, b.consumed, f)
    BY <1>1 DEF ConnOK, SndOK
  <2>2. RingHolds(n, t.c, First(n, f) .. EndOf(n, s.a) - 1)
    BY <2>1, <1>7, RingSame DEF SndAt
  <2>3. Pos(n, t.c.UNA) <= EndOf(n, s.a)
    BY <1>A, <1>3, <1>7
  <2>4. t.c.state = s.c.state
    BY <1>7 DEF SndOnly
  <2>5. SndNumbers(n, t.c, s.a, b.consumed, f, EndOf(n, s.a))
    BY <2>1, <2>3, <2>4, <1>7 DEF SndAt, SndNumbers
  <2>6. SndAt(n, t.c, t.a, b.consumed, f)
    BY <2>1, <2>2, <2>5, <1>5 DEF SndAt
  <2> QED
    BY <2>6, <1>5 DEF SndOK
<1>13. Good(n, t, r, b)
  BY <1>11, <1>12, SndGood
<1>14. Moves(n, s.c, s.a, t.c, t.a, b.consumed)
  BY <1>11, SndMoves
<1> QED
  BY <1>5, <1>7, <1>13, <1>14 DEF Kept

\* The ring c.sbuf with the timers of the buffers I cancelled.
Cancelled(c, I) == [i \in Ring |-> IF i \in I THEN [c.sbuf[i] EXCEPT !.timer = FALSE] ELSE c.sbuf[i]]

\* Cancelling the timers of some buffers.
LEMMA CancelTimers ==
  ASSUME Fits, NEW n \in Node, NEW s, NEW r, NEW b, Good(n, s, r, b), NEW I
  PROVE  LET t == [s EXCEPT !.c.sbuf = Cancelled(s.c, I)]
         IN  /\ Good(n, t, r, b) /\ Moves(n, s.c, s.a, t.c, t.a, b.consumed)
             /\ SndOnly(s.c, t.c) /\ t.c.LCS = s.c.LCS /\ t.c.pending = s.c.pending
             /\ t.c.NXT = s.c.NXT /\ t.c.UNA = s.c.UNA
             /\ t.a = s.a /\ t.o = s.o /\ t.ok = s.ok /\ t.out = s.out
<1>1. StepT(n, s) /\ Shape(s) /\ s.c \in Conn
  BY DEF Good, StepT
<1>2. PICK ring : ring = Cancelled(s.c, I)
  OBVIOUS
<1>3. ASSUME NEW i \in Ring
      PROVE  /\ ring[i] \in SndBuf
             /\ ring[i].inUse = s.c.sbuf[i].inUse /\ ring[i].seq = s.c.sbuf[i].seq
             /\ ring[i].som = s.c.sbuf[i].som /\ ring[i].fcnt = s.c.sbuf[i].fcnt
             /\ ring[i].ttl = s.c.sbuf[i].ttl /\ ring[i].msg = s.c.sbuf[i].msg
             /\ ring[i].timer => s.c.sbuf[i].timer
  <2>1. PICK sb \in SndBuf : sb = s.c.sbuf[i]
    BY <1>1 DEF Conn
  <2>2. ring[i] = sb \/ ring[i] = [sb EXCEPT !.timer = FALSE]
    BY <1>2, <2>1 DEF Cancelled
  <2>3. CASE ring[i] = sb
    BY <2>1, <2>3
  <2>4. CASE ring[i] = [sb EXCEPT !.timer = FALSE]
    BY <2>1, <2>4 DEF SndBuf
  <2> QED
    BY <2>2, <2>3, <2>4
<1>4. ring \in [Ring -> SndBuf]
  BY <1>2, <1>3 DEF Cancelled
<1>5. PICK t : t = [s EXCEPT !.c.sbuf = ring]
  OBVIOUS
<1>6. /\ Shape(t) /\ t.c = [s.c EXCEPT !.sbuf = ring] /\ t.a = s.a /\ t.jam = s.jam /\ t.out = s.out
      /\ t.o = s.o /\ t.ok = s.ok /\ t.broken = s.broken
  BY <1>1, <1>5 DEF Shape
<1>7. t.c \in Conn
  BY <1>1, <1>4, <1>6 DEF Conn
<1>8. SndOnly(s.c, t.c) /\ t.c.LCS = s.c.LCS /\ t.c.pending = s.c.pending /\ t.c.UNA = s.c.UNA
      /\ t.c.sbuf = ring /\ t.c.NXT = s.c.NXT
  BY <1>1, <1>6 DEF SndOnly, Conn
<1>9. StepT(n, t)
  BY <1>1, <1>6, <1>7 DEF StepT
<1>10. TimersOnly(s.c, t.c)
  BY <1>3, <1>8 DEF TimersOnly
<1>11. Good(n, t, r, b) /\ Moves(n, s.c, s.a, t.c, t.a, b.consumed)
  BY <1>6, <1>8, <1>9, <1>10, TimersGood
<1> QED
  BY <1>2, <1>5, <1>6, <1>8, <1>11

\* An EACK stops retransmissions.
LEMMA CancelEackedStep ==
  ASSUME Fits, NEW n \in Node, NEW s, NEW r, NEW b, Good(n, s, r, b), NEW ack, NEW mask
  PROVE  LET t == CancelEackedSegments(s, ack, mask)
         IN  /\ Good(n, t, r, b) /\ Moves(n, s.c, s.a, t.c, t.a, b.consumed)
             /\ SndOnly(s.c, t.c) /\ t.c.LCS = s.c.LCS /\ t.c.pending = s.c.pending
             /\ t.c.NXT = s.c.NXT /\ t.c.UNA = s.c.UNA
             /\ t.a = s.a /\ t.o = s.o /\ t.ok = s.ok /\ t.out = s.out
<1>1. \E I : CancelEackedSegments(s, ack, mask) = [s EXCEPT !.c.sbuf = Cancelled(s.c, I)]
  <2> DEFINE Begin(w) == Idx(Plus(ack, 2 + w * WordBits))
             eacked == UNION {{(Begin(w) + bb) % SegMax : bb \in mask[w]} : w \in DOMAIN mask}
  <2>1. CancelEackedSegments(s, ack, mask) =
          [s EXCEPT !.c.sbuf = [i \in Ring |->
            IF i \in eacked THEN [@[i] EXCEPT !.timer = FALSE] ELSE @[i]]]
    BY Zenon DEF CancelEackedSegments
  <2> HIDE DEF eacked
  <2>2. CancelEackedSegments(s, ack, mask) = [s EXCEPT !.c.sbuf = Cancelled(s.c, eacked)]
    <3>1. Shape(s) /\ s.c \in Conn
      BY DEF Good, StepT
    <3>2. Cancelled(s.c, eacked) = [i \in Ring |->
            IF i \in eacked THEN [s.c.sbuf[i] EXCEPT !.timer = FALSE] ELSE s.c.sbuf[i]]
      BY DEF Cancelled
    <3> QED
      BY <2>1, <3>1, <3>2 DEF Shape
  <2> QED
    BY <2>2
<1>2. PICK I : CancelEackedSegments(s, ack, mask) = [s EXCEPT !.c.sbuf = Cancelled(s.c, I)]
  BY <1>1
<1> QED
  BY <1>2, CancelTimers

\* The messages whose last fragment is at most at C come first.
LEMMA PrefixSettled ==
  ASSUME Fits, NEW n \in Node, NEW S \in 0 .. Count(n), NEW f \in 1 .. S, NEW C \in Nat, NEW F,
         F \subseteq f .. S, \A m \in f .. S : m \in F <=> Final(n, m) <= C
  PROVE  \E g \in f .. S + 1 : F = f .. g - 1 /\ (g <= S => C < Final(n, g))
<1>N. PICK N \in Nat : N = Count(n) /\ S \in Nat /\ S <= N /\ f \in Nat /\ 1 <= f /\ f <= S
  BY FirstIs
<1>1. PICK G : G = {m \in f .. S + 1 : m = S + 1 \/ C < Final(n, m)}
  OBVIOUS
<1>2. G \in SUBSET Nat /\ G # {}
  <2>1. S + 1 \in f .. S + 1 /\ f .. S + 1 \subseteq Nat
    BY <1>N
  <2>2. S + 1 \in G
    BY <2>1, <1>1
  <2>3. G \subseteq f .. S + 1
    BY <1>1
  <2> QED
    BY <2>1, <2>2, <2>3
<1>3. PICK g \in G : \A j \in G : g <= j
  BY <1>2, SmallestNat
<1>4. g \in f .. S + 1 /\ (g <= S => C < Final(n, g))
  BY <1>1, <1>3, <1>N
<1>5. ASSUME NEW m \in f .. S, m \in F PROVE m \in f .. g - 1
  <2> SUFFICES ASSUME g <= m PROVE FALSE
    BY <1>4
  <2>1. g \in 1 .. N /\ m \in 1 .. N /\ g + 1 \in 1 .. N + 1 /\ m + 1 \in 1 .. N + 1 /\ g + 1 <= m + 1
        /\ g <= S
    BY <1>4, <1>N
  <2>2. First(n, g + 1) + ((m + 1) - (g + 1)) <= First(n, m + 1)
    BY <2>1, <1>N, FirstMono
  <2>3. g \in 1 .. Count(n) /\ m \in 1 .. Count(n)
    BY <2>1, <1>N
  <2>4. PICK Zg \in Nat : Zg = Final(n, g) /\ First(n, g + 1) = Zg + 1
    BY <2>3, MessageSpan
  <2>5. PICK Zm \in Nat : Zm = Final(n, m) /\ First(n, m + 1) = Zm + 1
    BY <2>3, MessageSpan
  <2>6. Zg <= Zm
    BY <2>1, <2>2, <2>4, <2>5
  <2>7. C < Zg
    BY <2>1, <2>4, <1>4
  <2>8. Zm <= C
    BY <1>5, <2>5
  <2> QED
    BY <2>6, <2>7, <2>8
<1>6. ASSUME NEW m \in f .. g - 1 PROVE m \in F
  <2>1. m \in f .. S /\ m < g /\ m # S + 1 /\ m \in f .. S + 1
    BY <1>4, <1>N
  <2>2. m \notin G
    BY <2>1, <1>3, <1>4, <1>N
  <2>3. ~(C < Final(n, m))
    BY <2>1, <2>2, <1>1
  <2>4. m \in 1 .. Count(n)
    BY <2>1, <1>N
  <2>5. PICK Zm \in Nat : Zm = Final(n, m)
    BY <2>4, MessageSpan
  <2>6. Final(n, m) <= C
    BY <2>3, <2>5
  <2> QED
    BY <2>1, <2>6
<1>7. F = f .. g - 1
  BY <1>5, <1>6
<1> QED
  BY <1>4, <1>7

\* The end of UpdateSndSegments when nothing in the ring has expired.
LEMMA SkipNone ==
  ASSUME Fits, NEW n \in Node, NEW u, StepT(n, u), u.ok, NEW next \in Nat, NEW lcs \in Seqs,
         \A j \in Ring : ~(u.c.sbuf[j].inUse /\ u.c.sbuf[j].ttl = "expired")
  PROVE  LET t == SkipExpired(u, next, lcs)
         IN  /\ StepT(n, t) /\ SndOnly(u.c, t.c) /\ t.c.LCS = lcs /\ t.c.NXT = u.c.NXT /\ t.c.UNA = u.c.UNA
             /\ t.c.sbuf = u.c.sbuf /\ t.c.pending = u.c.pending
             /\ t.a = u.a /\ t.out = u.out /\ t.o = u.o /\ t.ok
<1>1. ExpiredRun(u.c, next) = 0
  BY NoExpiredRun
<1>2. PICK t : t = SkipExpired(u, next, lcs)
  OBVIOUS
<1>3. 0 < SegMax /\ ~(0 > 0)
  OBVIOUS
<1>4. Shape(u) /\ u.c \in Conn /\ u.c.ackTimer \in BOOLEAN
  BY DEF StepT, Conn
<1>5. t = [u EXCEPT !.c.UNA = u.c.UNA, !.c.ackTimer = u.c.ackTimer, !.c.LCS = lcs]
  <2>1. t = [Check(u, "the search for expired segments ends", 0 < SegMax)
                EXCEPT !.c.UNA = @, !.c.ackTimer = @ \/ 0 > 0, !.c.LCS = lcs]
    BY <1>1, <1>2, <1>3 DEF SkipExpired
  <2>2. Check(u, "the search for expired segments ends", 0 < SegMax) = u
    BY <1>3 DEF Check
  <2>3. (u.c.ackTimer \/ 0 > 0) = u.c.ackTimer
    BY <1>3, <1>4
  <2>4. PICK x : x = (u.c.ackTimer \/ 0 > 0)
    OBVIOUS
  <2>5. t = [u EXCEPT !.c.UNA = @, !.c.ackTimer = x, !.c.LCS = lcs]
    BY <2>1, <2>2, <2>4, <1>4 DEF Shape, Conn
  <2> QED
    BY <2>3, <2>4, <2>5, <1>4 DEF Shape, Conn
<1>6. /\ Shape(t) /\ t.a = u.a /\ t.jam = u.jam /\ t.out = u.out
      /\ t.o = u.o /\ t.ok = u.ok /\ t.broken = u.broken
      /\ t.c = [u.c EXCEPT !.LCS = lcs]
  BY <1>4, <1>5 DEF Shape, Conn
<1>7. t.c \in Conn
  BY <1>4, <1>6 DEF Conn
<1>8. StepT(n, t)
  BY <1>6, <1>7 DEF StepT
<1>9. t.c.LCS = lcs /\ t.c.sbuf = u.c.sbuf /\ t.c.pending = u.c.pending
  BY <1>4, <1>6 DEF Conn
<1>11. SndOnly(u.c, t.c) /\ t.c.NXT = u.c.NXT /\ t.c.UNA = u.c.UNA
  BY <1>4, <1>6 DEF SndOnly, Conn
<1> QED
  BY <1>2, <1>6, <1>8, <1>9, <1>11

\* The positions of an open connection's acknowledgements.
AckSeqs(n, s, b, ack, lcs) ==
  /\ ack \in Seqs /\ lcs \in Seqs /\ Pos(n, lcs) <= Pos(n, ack) /\ Pos(n, ack) < EndOf(n, s.a)
  /\ Pos(n, lcs) < First(n, b.consumed + 1)

\* t is s after an acknowledgement, which may have been refused.
AckedTo(n, s, t, r, b) ==
  /\ Loose(n, t, r, b) /\ (t.ok => Good(n, t, r, b))
  /\ Moves(n, s.c, s.a, t.c, t.a, b.consumed)
  /\ SndOnly(s.c, t.c) /\ SettledApp(s.a, t.a, t.a.sendCb) /\ t.o = s.o

\* The number of messages submitted, and of messages.
LEMMA SubmittedIs ==
  ASSUME Fits, NEW n \in Node, NEW a, AppT(n, a)
  PROVE  \E N \in Nat, S \in Nat : N = Count(n) /\ S = a.submitted /\ S <= N
<1>1. PICK N \in Nat : N = Count(n)
  BY FirstIs
<1>2. a.submitted \in 0 .. Count(n)
  BY DEF AppT, Count
<1>3. a.submitted \in 0 .. N
  BY <1>1, <1>2
<1>4. PICK S \in Nat : S = a.submitted /\ S <= N
  BY <1>3
<1> QED
  BY <1>1, <1>4

\* UpdateSndSegments when nothing is pending.
LEMMA UpdateNothing ==
  ASSUME Fits, NEW n \in Node, NEW s, NEW r, NEW b, Good(n, s, r, b), s.c.state = "OPEN",
         NEW ack, NEW lcs, AckSeqs(n, s, b, ack, lcs), s.c.pending = 0
  PROVE  AckedTo(n, s, UpdateSndSegments(s, ack, lcs), r, b)
<1>1. StepT(n, s) /\ PeerT(n, r, b) /\ AppOK(n, s.a, b) /\ ConnOK(n, s.c, s.a, r, b) /\ Ctl(n, s.c, s.a)
      /\ (Knows(Peer(n), r) => Pos(n, s.c.UNA) <= Pos(n, r.CUR) + 1)
  BY DEF Good, ConnOK
<1>2. Shape(s) /\ s.c \in Conn /\ AppT(n, s.a) /\ AppT(Peer(n), b) /\ lcs \in Seqs
  BY <1>1 DEF StepT, PeerT, AckSeqs
<1>3. PICK t : t = [s EXCEPT !.c.LCS = lcs, !.ok = TRUE]
  OBVIOUS
<1>4. /\ Shape(t) /\ t.c = [s.c EXCEPT !.LCS = lcs] /\ t.a = s.a /\ t.jam = s.jam /\ t.out = s.out
      /\ t.o = s.o /\ t.ok = TRUE /\ t.broken = s.broken
  BY <1>3, <1>2 DEF Shape
<1>5. t.c \in Conn
  BY <1>4, <1>2 DEF Conn
<1>6. SndOnly(s.c, t.c) /\ t.c.LCS = lcs /\ t.c.pending = s.c.pending /\ t.c.UNA = s.c.UNA
      /\ t.c.sbuf = s.c.sbuf /\ t.c.NXT = s.c.NXT /\ t.c.state = s.c.state
  BY <1>4, <1>2 DEF SndOnly, Conn
<1>7. StepT(n, t)
  BY <1>1, <1>4, <1>5 DEF StepT
<1>8. Est(n, t.c)
  BY <1>1, <1>6 DEF Ctl, Est
<1>9. SettledApp(s.a, t.a, t.a.sendCb) /\ CbMoves(n, s.a, t.a, b.consumed)
  BY <1>4 DEF SettledApp, CbMoves
<1>10. SndStep(n, s, t, r, b)
  BY <1>1, <1>4, <1>6, <1>7, <1>8, <1>9 DEF SndStep
<1>11. SndOK(n, t.c, t.a, b.consumed)
  <2>1. PICK f \in 1 .. s.a.submitted + 1 : SndAt(n, s.c, s.a, b.consumed, f)
    BY <1>1 DEF ConnOK, SndOK
  <2>2. PICK N \in Nat, S \in Nat : N = Count(n) /\ S = s.a.submitted /\ S <= N
    BY <1>2, SubmittedIs
  <2>3. f \in 1 .. N + 1 /\ S \in 0 .. N /\ f <= S + 1
    BY <2>2
  <2>4. Posns(n, f .. S) = First(n, f) .. EndOf(n, s.a) - 1
    BY <2>2, <2>3, PosnsInterval DEF EndOf
  <2>5. f .. S \in SUBSET (1 .. Count(n))
    BY <2>2, <2>3
  <2>6. RingHolds(n, s.c, Posns(n, f .. S))
    BY <2>1, <2>4 DEF SndAt
  <2>7. f .. S = {}
    BY <2>5, <2>6, RingEmpty
  <2>8. f = S + 1
    BY <2>7, <2>3, <2>2
  <2>9. RingHolds(n, t.c, First(n, f) .. EndOf(n, s.a) - 1)
    BY <2>1, <1>6, RingSame DEF SndAt
  <2>10. SndNumbers(n, t.c, s.a, b.consumed, f, EndOf(n, s.a))
    <3>1. Pos(n, lcs) < EndOf(n, s.a)
      <4>1. PICK E \in Nat : E = EndOf(n, s.a)
        BY <1>1, <1>2, Places
      <4>2. PICK A \in Nat : A = Pos(n, ack)
        BY PosOf DEF AckSeqs
      <4>3. PICK C \in Nat : C = Pos(n, lcs)
        BY PosOf DEF AckSeqs
      <4> QED
        BY <4>1, <4>2, <4>3 DEF AckSeqs
    <3>2. Pos(n, lcs) < First(n, b.consumed + 1)
      BY DEF AckSeqs
    <3>3. ~(f <= s.a.submitted)
      BY <2>2, <2>8
    <3> QED
      BY <2>1, <3>1, <3>2, <3>3, <1>6 DEF SndAt, SndNumbers
  <2>11. SndAt(n, t.c, t.a, b.consumed, f)
    BY <2>1, <2>9, <2>10, <1>4 DEF SndAt
  <2> QED
    BY <2>11, <1>4 DEF SndOK
<1>12. Good(n, t, r, b)
  BY <1>10, <1>11, SndGood
<1>13. Moves(n, s.c, s.a, t.c, t.a, b.consumed)
  BY <1>10, SndMoves
<1>14. Loose(n, t, r, b)
  <2>1. ~Closed(t.c)
    BY <1>6 DEF Closed
  <2> QED
    BY <2>1, <1>12, GoodLoose
<1>15. UpdateSndSegments(s, ack, lcs) = t
  BY <1>3 DEF UpdateSndSegments
<1> QED
  BY <1>4, <1>6, <1>9, <1>12, <1>13, <1>14, <1>15 DEF AckedTo

\* The loop of UpdateSndSegments has run to its end.
LEMMA UpdateAll ==
  ASSUME Fits, NEW n \in Node, NEW s, NEW r, NEW b, Good(n, s, r, b), s.c.state = "OPEN",
         NEW ack, NEW lcs, AckSeqs(n, s, b, ack, lcs),
         NEW f \in 1 .. s.a.submitted, SndAt(n, s.c, s.a, b.consumed, f), NEW u, u.ok, NEW k \in Nat,
         NEW L \in Nat, NEW A \in Nat, NEW C \in Nat, Pos(n, lcs) = C, Pos(n, ack) = A, L + k = A,
         Updating(n, s, u, b.consumed, f, k, L, A, C), NEW next \in Nat
  PROVE  AckedTo(n, s, SkipExpired(u, next, lcs), r, b)
<1>1. StepT(n, s) /\ PeerT(n, r, b) /\ AppOK(n, s.a, b) /\ ConnOK(n, s.c, s.a, r, b) /\ Ctl(n, s.c, s.a)
      /\ (Knows(Peer(n), r) => Pos(n, s.c.UNA) <= Pos(n, r.CUR) + 1)
  BY DEF Good, ConnOK
<1>2. AppT(n, s.a) /\ AppT(Peer(n), b) /\ lcs \in Seqs /\ b.consumed \in Nat
  BY <1>1 DEF StepT, PeerT, AckSeqs, AppT
<1>3. PICK F : UpdatingF(n, s, u, b.consumed, f, k, L, A, C, F)
  BY DEF Updating
<1>4. StepT(n, u) /\ Beside(s.c, u.c) /\ u.out = s.out /\ u.o = s.o
      /\ SettledApp(s.a, u.a, u.a.sendCb) /\ CbMoves(n, s.a, u.a, b.consumed)
      /\ F \subseteq f .. s.a.submitted /\ F \subseteq 1 .. b.consumed
      /\ RingHolds(n, u.c, Posns(n, (f .. s.a.submitted) \ F))
      /\ CbLoose(n, u.a, f, F)
  BY <1>3 DEF UpdatingF
<1>N. PICK N \in Nat, S \in Nat : N = Count(n) /\ S = s.a.submitted /\ S <= N
  BY <1>2, SubmittedIs
<1>E. PICK E \in Nat : E = EndOf(n, s.a) /\ C <= A /\ A < E
  <2>1. PICK E \in Nat : E = EndOf(n, s.a)
    BY <1>1, <1>2, Places
  <2> QED
    BY <2>1 DEF AckSeqs
<1>5. \A m \in f .. S : m \in F <=> Final(n, m) <= C
  <2> SUFFICES ASSUME NEW m \in f .. S PROVE m \in F <=> Final(n, m) <= C
    OBVIOUS
  <2>1. m \in 1 .. Count(n)
    BY <1>N
  <2>2. PICK Z \in Nat : Z = Final(n, m)
    BY <2>1, MessageSpan
  <2>3. m \in F => Z <= C
    BY <1>3, <2>2 DEF UpdatingF
  <2>4. Z <= C => Z <= L + k
    BY <1>E
  <2>5. Z <= C => m \in F
    BY <1>3, <1>N, <2>2, <2>4 DEF UpdatingF
  <2> QED
    BY <2>2, <2>3, <2>5
<1>6. S \in 0 .. Count(n) /\ f \in 1 .. S /\ F \subseteq f .. S
  BY <1>N, <1>4
<1>g. PICK g \in f .. S + 1 : F = f .. g - 1 /\ (g <= S => C < Final(n, g))
  BY <1>5, <1>6, PrefixSettled
<1>7. (f .. S) \ F = g .. S /\ g \in 1 .. N + 1 /\ S \in 0 .. N /\ g <= S + 1 /\ g \in 1 .. S + 1
      /\ g \in Nat
  BY <1>g, <1>6, <1>N
<1>8. Posns(n, g .. S) = First(n, g) .. E - 1
  BY <1>7, <1>N, <1>E, PosnsInterval DEF EndOf
<1>9. RingHolds(n, u.c, First(n, g) .. E - 1)
  BY <1>4, <1>7, <1>8, <1>N
<1>10. \A j \in Ring : ~(u.c.sbuf[j].inUse /\ u.c.sbuf[j].ttl = "expired")
  <2> SUFFICES ASSUME NEW j \in Ring, u.c.sbuf[j].inUse, u.c.sbuf[j].ttl = "expired" PROVE FALSE
    OBVIOUS
  <2>1. PICK x \in First(n, g) .. E - 1 : j = Slot(n, x)
    BY <1>9 DEF RingHolds
  <2>2. SndBufAt(n, u.c.sbuf[j], x)
    BY <2>1, <1>9 DEF RingHolds
  <2> QED
    BY <2>2 DEF SndBufAt
<1>t. PICK t : t = SkipExpired(u, next, lcs)
  OBVIOUS
<1>11. /\ StepT(n, t) /\ SndOnly(u.c, t.c) /\ t.c.LCS = lcs /\ t.c.NXT = u.c.NXT /\ t.c.UNA = u.c.UNA
       /\ t.c.sbuf = u.c.sbuf /\ t.c.pending = u.c.pending
       /\ t.a = u.a /\ t.out = u.out /\ t.o = u.o /\ t.ok
  BY <1>t, <1>4, <1>10, <1>2, SkipNone
<1>12. SndOnly(s.c, t.c) /\ t.c.NXT = s.c.NXT /\ t.c.UNA = s.c.UNA /\ t.c.state = s.c.state
  BY <1>11, <1>4 DEF SndOnly, Beside
<1>13. Est(n, t.c)
  BY <1>1, <1>12 DEF Ctl, Est
<1>14. SndStep(n, s, t, r, b)
  BY <1>1, <1>4, <1>11, <1>12, <1>13 DEF SndStep
<1>15. RingHolds(n, t.c, First(n, g) .. E - 1)
  BY <1>9, <1>11, RingSame
<1>16. CbAt(n, t.a, g)
  <2> SUFFICES ASSUME NEW m \in 1 .. Count(n)
               PROVE  IF m < g THEN t.a.sendCb[m] \in Reported ELSE t.a.sendCb[m] = <<>>
    BY DEF CbAt, Count
  <2>0. IF m < f THEN u.a.sendCb[m] \in Reported
        ELSE IF m \in F THEN u.a.sendCb[m] = <<"ok">> ELSE u.a.sendCb[m] = <<>>
    BY <1>4 DEF CbLoose, Count
  <2>m. m \in 1 .. N
    BY <1>N
  <2>1. CASE m < f
    <3>1. m < g
      BY <2>1, <2>m, <1>g, <1>7, <1>6
    <3> QED
      BY <3>1, <2>1, <2>0, <1>11
  <2>2. CASE m \in F
    <3>1. m < g /\ ~(m < f)
      BY <2>2, <2>m, <1>g, <1>7, <1>6
    <3> QED
      BY <3>1, <2>2, <2>0, <1>11 DEF Reported
  <2>3. CASE ~(m < f) /\ m \notin F
    <3>1. ~(m < g)
      BY <2>3, <2>m, <1>g, <1>7, <1>6
    <3> QED
      BY <3>1, <2>3, <2>0, <1>11
  <2> QED
    BY <2>1, <2>2, <2>3
<1>17. SndNumbers(n, t.c, s.a, b.consumed, g, E)
  <2>1. SndNumbers(n, s.c, s.a, b.consumed, f, E)
    BY <1>E DEF SndAt
  <2>2. Pos(n, t.c.LCS) = C /\ C < E /\ C < First(n, b.consumed + 1)
    BY <1>11, <1>E DEF AckSeqs
  <2>3. g <= S => C < First(n, g + 1) - 1
    BY <1>g DEF Final
  <2>4. E - First(n, g) <= SegMax
    <3>1. f \in 1 .. Count(n) + 1 /\ g \in 1 .. Count(n) + 1 /\ f <= g
      BY <1>7, <1>N, <1>g
    <3>2. First(n, f) \in Nat /\ First(n, g) \in Nat /\ First(n, f) + (g - f) <= First(n, g)
      BY <3>1, FirstMono
    <3>3. E - First(n, f) <= SegMax
      BY <2>1 DEF SndNumbers
    <3>4. PICK X \in Nat, Y \in Nat : X = First(n, f) /\ Y = First(n, g)
      BY <3>2
    <3>5. g - f >= 0 /\ g - f \in Int
      BY <1>g, <1>7, <1>6
    <3> QED
      BY <3>2, <3>3, <3>4, <3>5
  <2>5. g <= b.consumed + 1
    <3>1. CASE g = f
      BY <3>1, <2>1, <1>12 DEF SndNumbers
    <3>2. CASE g # f
      <4>1. g - 1 \in f .. g - 1
        BY <3>2, <1>7, <1>g, <1>6
      <4>2. g - 1 \in 1 .. b.consumed
        BY <4>1, <1>g, <1>4
      <4> QED
        BY <4>2, <1>2, <1>7
    <3> QED
      BY <3>1, <3>2
  <2>6. t.c.NXT = SeqAt(n, E) /\ Pos(n, t.c.UNA) <= E
    BY <2>1, <1>12 DEF SndNumbers
  <2> QED
    BY <2>2, <2>3, <2>4, <2>5, <2>6, <1>N DEF SndNumbers
<1>18. t.a.submitted = s.a.submitted
  BY <1>4, <1>11 DEF SettledApp
<1>19. EndOf(n, t.a) = E
  BY <1>18, <1>E DEF EndOf
<1>20. SndNumbers(n, t.c, t.a, b.consumed, g, E)
  BY <1>17, <1>18 DEF SndNumbers
<1>21. SndOK(n, t.c, t.a, b.consumed)
  <2>1. SndAt(n, t.c, t.a, b.consumed, g)
    BY <1>15, <1>16, <1>19, <1>20 DEF SndAt
  <2>2. g \in 1 .. t.a.submitted + 1
    BY <1>7, <1>18, <1>N
  <2> QED
    BY <2>1, <2>2 DEF SndOK
<1>22. Good(n, t, r, b)
  BY <1>14, <1>21, SndGood
<1>23. Moves(n, s.c, s.a, t.c, t.a, b.consumed)
  BY <1>14, SndMoves
<1>24. Loose(n, t, r, b)
  <2>1. ~Closed(t.c)
    BY <1>12 DEF Closed
  <2> QED
    BY <2>1, <1>22, GoodLoose
<1>25. SettledApp(s.a, t.a, t.a.sendCb) /\ t.o = s.o
  BY <1>4, <1>11
<1> QED
  BY <1>t, <1>12, <1>22, <1>23, <1>24, <1>25 DEF AckedTo

\* The loop of UpdateSndSegments has stopped at a buffer it did not expect.
LEMMA UpdateRefused ==
  ASSUME Fits, NEW n \in Node, NEW s, NEW r, NEW b, Good(n, s, r, b), s.c.state = "OPEN",
         NEW f \in 1 .. s.a.submitted, SndAt(n, s.c, s.a, b.consumed, f), NEW u, ~u.ok, NEW k,
         NEW L, NEW A, NEW C, Updating(n, s, u, b.consumed, f, k, L, A, C)
  PROVE  AckedTo(n, s, u, r, b)
<1>1. StepT(n, s) /\ Ctl(n, s.c, s.a)
      /\ (Knows(Peer(n), r) => Pos(n, s.c.UNA) <= Pos(n, r.CUR) + 1)
  BY DEF Good, ConnOK
<1>3. PICK F : UpdatingF(n, s, u, b.consumed, f, k, L, A, C, F)
  BY DEF Updating
<1>4. StepT(n, u) /\ Beside(s.c, u.c) /\ u.out = s.out /\ u.o = s.o
      /\ SettledApp(s.a, u.a, u.a.sendCb) /\ CbMoves(n, s.a, u.a, b.consumed)
      /\ F \subseteq f .. s.a.submitted /\ F \subseteq 1 .. b.consumed
      /\ RingHolds(n, u.c, Posns(n, (f .. s.a.submitted) \ F))
      /\ CbLoose(n, u.a, f, F)
  BY <1>3 DEF UpdatingF
<1>5. SndOnly(s.c, u.c) /\ u.c.NXT = s.c.NXT /\ u.c.UNA = s.c.UNA /\ u.c.LCS = s.c.LCS
      /\ u.c.state = s.c.state
  BY <1>4 DEF SndOnly, Beside
<1>6. Est(n, u.c)
  BY <1>1, <1>5 DEF Ctl, Est
<1>7. SndStep(n, s, u, r, b)
  BY <1>1, <1>4, <1>5, <1>6 DEF SndStep
<1>8. u.a.submitted = s.a.submitted /\ EndOf(n, u.a) = EndOf(n, s.a)
  BY <1>4 DEF SettledApp, EndOf
<1>9. SndNumbers(n, u.c, u.a, b.consumed, f, EndOf(n, u.a))
  BY <1>5, <1>8 DEF SndAt, SndNumbers
<1>10. LooseAt(n, u.c, u.a, b.consumed, f, F)
  BY <1>4, <1>8, <1>9 DEF LooseAt
<1>11. f \in 1 .. u.a.submitted + 1
  <2>1. PICK N \in Nat, S \in Nat : N = Count(n) /\ S = s.a.submitted /\ S <= N
    BY <1>1, SubmittedIs DEF StepT
  <2> QED
    BY <2>1, <1>8
<1>12. Loose(n, u, r, b)
  BY <1>7, <1>10, <1>11, SndLoose
<1>13. Moves(n, s.c, s.a, u.c, u.a, b.consumed)
  BY <1>7, SndMoves
<1> QED
  BY <1>4, <1>5, <1>12, <1>13 DEF AckedTo

\* The buffer behind the last one known to be consumed.
LEMMA SlotOfNext ==
  ASSUME Fits, NEW n \in Node, NEW q \in Seqs, NEW L \in Nat, Pos(n, q) = L, L + 1 < SeqSpace
  PROVE  Idx(Plus(q, 1)) = Slot(n, L + 1)
<1>1. PICK p \in Seqs : p = Plus(q, 1) /\ Pos(n, p) = L + 1
  BY PosPlus
<1>2. SeqAt(n, L + 1) = p
  BY <1>1, PosOf
<1> QED
  BY <1>1, <1>2 DEF Slot

\* UpdateSndSegments.
LEMMA UpdateSndStep ==
  ASSUME Fits, NEW n \in Node, NEW s, NEW r, NEW b, Good(n, s, r, b), s.c.state = "OPEN",
         NEW ack, NEW lcs, AckSeqs(n, s, b, ack, lcs)
  PROVE  AckedTo(n, s, UpdateSndSegments(s, ack, lcs), r, b)
<1>0. CASE s.c.pending = 0
  BY <1>0, UpdateNothing
<1>p. CASE s.c.pending # 0
  <2>1. StepT(n, s) /\ AppOK(n, s.a, b) /\ SndOK(n, s.c, s.a, b.consumed) /\ AppT(n, s.a)
        /\ AppT(Peer(n), b) /\ s.c \in Conn /\ s.c.LCS \in Seqs /\ b.consumed \in Nat
    BY DEF Good, ConnOK, StepT, PeerT, Conn, AppT
  <2>2. PICK f \in 1 .. s.a.submitted + 1 : SndAt(n, s.c, s.a, b.consumed, f)
    BY <2>1 DEF SndOK
  <2>N. PICK N \in Nat, S \in Nat : N = Count(n) /\ S = s.a.submitted /\ S <= N
    BY <2>1, SubmittedIs
  <2>3. f \in 1 .. N + 1 /\ S \in 0 .. N /\ f <= S + 1
    BY <2>N
  <2>4. Posns(n, f .. S) = First(n, f) .. EndOf(n, s.a) - 1
    BY <2>N, <2>3, PosnsInterval DEF EndOf
  <2>5. RingHolds(n, s.c, Posns(n, f .. S))
    BY <2>2, <2>4 DEF SndAt
  <2>6. f # S + 1
    <3> SUFFICES ASSUME f = S + 1 PROVE FALSE
      OBVIOUS
    <3>1. f .. S = {}
      BY <2>N
    <3>2. Posns(n, {}) = {}
      BY DEF Posns
    <3>3. RingHolds(n, s.c, {})
      BY <3>1, <3>2, <2>5
    <3>4. InUse(s.c) = {}
      BY <3>3 DEF RingHolds, InUse
    <3>5. s.c.pending = Cardinality(InUse(s.c))
      BY <3>3 DEF RingHolds
    <3> QED
      BY <3>4, <3>5, <1>p, PendingIs
  <2>7. f \in 1 .. S /\ f \in 1 .. s.a.submitted
    BY <2>3, <2>6, <2>N
  <2>E. PICK E \in Nat, T \in Nat : E = EndOf(n, s.a) /\ T = Total(n) /\ E <= T /\ T + SegMax < Half
          /\ Half \in Nat /\ Half + Half = SeqSpace
    <3>1. EndOf(n, s.a) \in 1 .. Total(n) /\ Total(n) \in Nat /\ Total(n) + SegMax < Half
          /\ Half \in Nat /\ Half + Half = SeqSpace
      BY <2>1, Places
    <3>2. PICK T \in Nat : T = Total(n)
      BY <3>1
    <3>3. PICK E \in Nat : E = EndOf(n, s.a) /\ E <= T
      BY <3>1, <3>2
    <3> QED
      BY <3>1, <3>2, <3>3
  <2>L. PICK L \in Nat : L = Pos(n, s.c.LCS) /\ L + 1 < SeqSpace
    <3>1. PICK L \in Nat : L = Pos(n, s.c.LCS)
      BY <2>1, PosOf
    <3>2. L < E
      BY <2>2, <2>E, <3>1 DEF SndAt, SndNumbers
    <3> QED
      BY <3>1, <3>2, <2>E
  <2>A. PICK A \in Nat : A = Pos(n, ack)
    BY PosOf DEF AckSeqs
  <2>C. PICK C \in Nat : C = Pos(n, lcs)
    BY PosOf DEF AckSeqs
  <2>8. AckOf(n, s.c, s.a, b.consumed, f, ack, lcs, L, A, C)
    <3>1. L < Final(n, f)
      BY <2>2, <2>7, <2>L DEF SndAt, SndNumbers, Final
    <3> QED
      BY <3>1, <2>L, <2>A, <2>C DEF AckOf, AckSeqs
  <2>9. CbAt(n, s.a, f)
    BY <2>2 DEF SndAt
  <2>10. PICK first : first = Slot(n, L + 1)
    OBVIOUS
  <2>11. Idx(Plus(s.c.LCS, 1)) = first
    BY <2>1, <2>L, <2>10, SlotOfNext
  <2>12. PICK d \in Nat : d = Minus(ack, s.c.LCS)
    <3>1. Minus(ack, s.c.LCS) \in Seqs
      BY <2>1, PosMinus DEF AckSeqs
    <3> QED
      BY <3>1 DEF Seqs
  <2>13. PICK u : u = UpdateLoop(s, first, d, ack, lcs)
    OBVIOUS
  <2>14. LoopEnds(n, s, u, b.consumed, f, L, A, C)
    <3>1. RingHolds(n, s.c, Posns(n, f .. s.a.submitted))
      BY <2>5, <2>N
    <3>2. u = UpdateLoop(s, Slot(n, L + 1), Minus(ack, s.c.LCS), ack, lcs)
      BY <2>10, <2>12, <2>13
    <3>5. LoopEnds(n, s, UpdateLoop(s, Slot(n, L + 1), Minus(ack, s.c.LCS), ack, lcs), b.consumed, f, L, A, C)
      BY <3>1, <2>1, <2>7, <2>8, <2>9, UpdateLoopStep
    <3> QED
      BY <3>5, <3>2
  <2>15. PICK k \in Nat : Updating(n, s, u, b.consumed, f, k, L, A, C) /\ (u.ok => L <= A /\ L + k = A)
    BY <2>14 DEF LoopEnds
  <2>16. PICK next \in Nat : next = (first + d) % SegMax
    <3>1. first \in Nat
      <4>1. L + 1 \in 0 .. T + SegMax
        <5>1. L < E
          BY <2>2, <2>E, <2>L DEF SndAt, SndNumbers
        <5> QED
          BY <5>1, <2>E
      <4>2. Slot(n, L + 1) \in Ring
        BY <4>1, <2>E, SlotIs
      <4> QED
        BY <4>2, <2>10 DEF Ring
    <3> QED
      BY <3>1
  <2>17. UpdateSndSegments(s, ack, lcs) = SkipExpired(u, next, lcs)
    BY <1>p, <2>11, <2>12, <2>13, <2>16 DEF UpdateSndSegments
  <2>18. CASE u.ok
    BY <2>18, <2>2, <2>7, <2>15, <2>17, <2>A, <2>C, UpdateAll
  <2>19. CASE ~u.ok
    <3>1. SkipExpired(u, next, lcs) = u
      BY <2>19 DEF SkipExpired
    <3> QED
      BY <3>1, <2>19, <2>2, <2>7, <2>15, <2>17, UpdateRefused
  <2> QED
    BY <2>18, <2>19
<1> QED
  BY <1>0, <1>p

\* Nothing done.
LEMMA KeptSame ==
  ASSUME Fits, NEW n \in Node, NEW s, NEW r, NEW b, Good(n, s, r, b)
  PROVE  Kept(n, s, s, r, b)
<1>1. StepT(n, s)
  BY DEF Good
<1>2. SndOnly(s.c, s.c) /\ TimersOnly(s.c, s.c)
  BY DEF SndOnly, TimersOnly
<1>3. Moves(n, s.c, s.a, s.c, s.a, b.consumed)
  BY <1>1, <1>2, TimersGood
<1> QED
  BY <1>2, <1>3 DEF Kept

\* One such step after another.
LEMMA KeptTrans ==
  ASSUME Fits, NEW n \in Node, NEW s, NEW t, NEW u, NEW r, NEW b, Good(n, s, r, b),
         Kept(n, s, t, r, b), Kept(n, t, u, r, b)
  PROVE  Kept(n, s, u, r, b)
<1>1. s.c \in Conn /\ t.c \in Conn /\ u.c \in Conn /\ AppT(n, s.a) /\ AppT(n, t.a) /\ AppT(n, u.a)
  BY DEF Good, Kept, StepT
<1>2. Moves(n, s.c, s.a, u.c, u.a, b.consumed)
  <2>1. Moves(n, s.c, s.a, t.c, t.a, b.consumed) /\ Moves(n, t.c, t.a, u.c, u.a, b.consumed)
    BY DEF Kept
  <2> QED
    BY <1>1, <2>1, MovesTrans
<1>3. SndOnly(s.c, u.c)
  BY DEF Kept, SndOnly
<1> QED
  BY <1>2, <1>3 DEF Kept

\* The end of AckPart.
LEMMA AckedAfter ==
  ASSUME Fits, NEW n \in Node, NEW s, NEW t, NEW u, NEW r, NEW b, Good(n, s, r, b),
         Kept(n, s, t, r, b), AckedTo(n, t, u, r, b)
  PROVE  AckedTo(n, s, u, r, b)
<1>1. s.c \in Conn /\ t.c \in Conn /\ u.c \in Conn /\ AppT(n, s.a) /\ AppT(n, t.a) /\ AppT(n, u.a)
  BY DEF Good, Kept, StepT, AckedTo, Loose
<1>2. Moves(n, s.c, s.a, u.c, u.a, b.consumed)
  <2>1. Moves(n, s.c, s.a, t.c, t.a, b.consumed) /\ Moves(n, t.c, t.a, u.c, u.a, b.consumed)
    BY DEF Kept, AckedTo
  <2> QED
    BY <1>1, <2>1, MovesTrans
<1>3. SndOnly(s.c, u.c)
  BY DEF Kept, AckedTo, SndOnly
<1>4. SettledApp(s.a, u.a, u.a.sendCb) /\ u.o = s.o
  BY DEF Kept, AckedTo
<1> QED
  BY <1>2, <1>3, <1>4 DEF AckedTo

\* What the acknowledgements of a segment from the peer say.
LEMMA AckSeqsOf ==
  ASSUME Fits, NEW n \in Node, NEW s, NEW r, NEW b, NEW seg \in Segs,
         IsNormal(Peer(n), seg, r, b, s.c, s.a)
  PROVE  /\ AckSeqs(n, s, b, seg.ack, seg.lcs)
         /\ r # NoConn => Pos(n, seg.ack) <= Pos(n, r.CUR)
<1>1. Peer(Peer(n)) = n
  BY PeerNode
<1>2. seg.ack \in Seqs /\ seg.lcs \in Seqs
  BY DEF Segs
<1> QED
  BY <1>1, <1>2 DEF IsNormal, AckSeqs

\* AckPart.
LEMMA AckPartStep ==
  ASSUME Fits, NEW n \in Node, NEW s, NEW r, NEW b, Good(n, s, r, b), s.c.state = "OPEN", s.ok,
         NEW seg \in Segs, IsNormal(Peer(n), seg, r, b, s.c, s.a)
  PROVE  AckedTo(n, s, AckPart(s, seg), r, b)
<1>1. /\ AckSeqs(n, s, b, seg.ack, seg.lcs)
      /\ r # NoConn => Pos(n, seg.ack) <= Pos(n, r.CUR)
      /\ seg.ack \in Seqs
  BY AckSeqsOf DEF Segs
<1>2. PICK h \in BOOLEAN : h <=> (\/ IN_RANGE(s.c.UNA, Minus(s.c.NXT, s.c.UNA) + 1, seg.ack)
                                  \/ s.c.LCS # seg.lcs)
  OBVIOUS
<1>3. PICK una : una = IF h THEN [s EXCEPT !.c.UNA = Plus(seg.ack, 1)] ELSE s
  OBVIOUS
<1>4. Kept(n, s, una, r, b)
  <2>1. CASE h
    <3>1. una = [s EXCEPT !.c.UNA = Plus(seg.ack, 1)]
      BY <2>1, <1>3
    <3>2. Acking(n, s, una, r, seg.ack)
      BY <3>1, <1>1 DEF Acking, AckSeqs
    <3> QED
      BY <3>2, UnaStep
  <2>2. CASE ~h
    BY <2>2, <1>3, KeptSame
  <2> QED
    BY <2>1, <2>2
<1>5. PICK eacked : eacked = IF "EACK" \in seg.flg THEN CancelEackedSegments(una, seg.ack, seg.eack)
                             ELSE una
  OBVIOUS
<1>6. Good(n, una, r, b)
  BY <1>4 DEF Kept
<1>7. Kept(n, una, eacked, r, b)
  <2>1. CASE "EACK" \in seg.flg
    <3>1. eacked = CancelEackedSegments(una, seg.ack, seg.eack)
      BY <2>1, <1>5
    <3> QED
      BY <3>1, <1>6, CancelEackedStep DEF Kept
  <2>2. CASE "EACK" \notin seg.flg
    BY <2>2, <1>5, <1>6, KeptSame
  <2> QED
    BY <2>1, <2>2
<1>8. Kept(n, s, eacked, r, b)
  BY <1>4, <1>7, KeptTrans
<1>9. Good(n, eacked, r, b) /\ eacked.c.state = "OPEN" /\ eacked.a = s.a /\ eacked.ok = s.ok
  BY <1>8 DEF Kept, SndOnly
<1>10. AckPart(s, seg) = IF h THEN UpdateSndSegments(eacked, seg.ack, seg.lcs) ELSE eacked
  <2>1. CASE h
    BY <2>1, <1>2, <1>3, <1>5 DEF AckPart
  <2>2. CASE ~h
    BY <2>2, <1>2, <1>3, <1>5 DEF AckPart
  <2> QED
    BY <2>1, <2>2
<1>11. CASE h
  <2>1. AckSeqs(n, eacked, b, seg.ack, seg.lcs)
    BY <1>1, <1>9 DEF AckSeqs
  <2>2. AckedTo(n, eacked, UpdateSndSegments(eacked, seg.ack, seg.lcs), r, b)
    BY <1>9, <2>1, UpdateSndStep
  <2>3. AckedTo(n, s, UpdateSndSegments(eacked, seg.ack, seg.lcs), r, b)
    BY <1>8, <2>2, AckedAfter
  <2> QED
    BY <1>10, <1>11, <2>3
<1>12. CASE ~h
  <2>1. AckPart(s, seg) = eacked
    BY <1>10, <1>12
  <2>2. ~Closed(eacked.c)
    BY <1>9 DEF Closed
  <2>3. Loose(n, eacked, r, b)
    BY <1>9, <2>2, GoodLoose
  <2>4. SettledApp(s.a, eacked.a, eacked.a.sendCb)
    BY <1>9 DEF SettledApp
  <2> QED
    BY <2>1, <2>3, <2>4, <1>8, <1>9 DEF AckedTo, Kept
<1> QED
  BY <1>11, <1>12

\* Nothing but the receive side differs.
RcvOnly(c, d) ==
  /\ d.state = c.state /\ d.passive = c.passive /\ d.local = c.local /\ d.foreign = c.foreign
  /\ d.NXT = c.NXT /\ d.UNA = c.UNA /\ d.LCS = c.LCS /\ d.pending = c.pending /\ d.sbuf = c.sbuf
  /\ d.conTimer = c.conTimer /\ d.reason = c.reason

\* Nothing but what was received differs.
RcvdApp(a, e) ==
  /\ e.submitted = a.submitted /\ e.sendCb = a.sendCb /\ e.consumed = a.consumed
  /\ e.connectCb = a.connectCb /\ e.disconnectCb = a.disconnectCb

\* The open receiver has everything up to CUR in order and waits for CUR + 1.
RcvOpen(n, c, a, sub) ==
  LET p == Peer(n)
  IN  /\ RcvAt(p, c, a, sub, Pos(p, c.CUR))
      /\ Pos(p, c.CUR) < Pos(p, c.rLCS) + SegMax => ~c.rbuf[Slot(p, Pos(p, c.CUR) + 1)].inUse

\* t is s after a step of the receive side.
RcvStep(n, s, t, b) ==
  /\ StepT(n, t) /\ RcvOnly(s.c, t.c) /\ RcvdApp(s.a, t.a) /\ t.out = s.out
  /\ Len(s.a.rcvd) <= Len(t.a.rcvd)
  /\ Pos(Peer(n), s.c.CUR) <= Pos(Peer(n), t.c.CUR)
  /\ RcvApp(Peer(n), t.a, b.submitted) /\ RcvOpen(n, t.c, t.a, b.submitted)

\* How far the receiver is: r messages delivered, W the last position
\* consumed, D the first one not delivered.
Reach(p, a, sub, r, W, D) ==
  /\ r = Len(a.rcvd) /\ r <= sub /\ sub <= Count(p) /\ a.consumed \in 0 .. r
  /\ W + 1 = First(p, a.consumed + 1) /\ D = First(p, r + 1) /\ W + 1 <= D /\ D <= First(p, sub + 1)
  /\ First(p, sub + 1) <= Total(p)

\* A receiver has these numbers.
LEMMA ReachIs ==
  ASSUME Fits, NEW p \in Node, NEW sub \in 0 .. Count(p), NEW a, a.rcvd \in Seq(Seq(Nat \X Nat)),
         a.consumed \in Nat, RcvApp(p, a, sub)
  PROVE  \E r \in Nat, W \in Nat, D \in Nat : Reach(p, a, sub, r, W, D)
<1>1. PICK N \in Nat : N = Count(p)
  BY FirstIs
<1>2. PICK r \in Nat : r = Len(a.rcvd)
  BY LenProperties
<1>3. r <= sub /\ a.consumed <= r
  BY <1>2 DEF RcvApp
<1>4. PICK q \in 0 .. r : q = a.consumed
  BY <1>3
<1>5. q + 1 \in 1 .. N + 1 /\ r + 1 \in 1 .. N + 1 /\ sub + 1 \in 1 .. N + 1 /\ q + 1 <= r + 1
      /\ r + 1 <= sub + 1 /\ sub <= N
  BY <1>1, <1>3
<1>6. First(p, q + 1) \in Nat /\ First(p, q + 1) >= 1 /\ First(p, r + 1) \in Nat
      /\ First(p, q + 1) + ((r + 1) - (q + 1)) <= First(p, r + 1)
  BY <1>1, <1>5, FirstMono
<1>7. First(p, sub + 1) \in Nat /\ First(p, sub + 1) <= Total(p)
      /\ First(p, r + 1) + ((sub + 1) - (r + 1)) <= First(p, sub + 1)
  BY <1>1, <1>5, FirstMono
<1>8. PICK D \in Nat, E \in Nat, V \in Nat : D = First(p, r + 1) /\ E = First(p, sub + 1) /\ V = First(p, q + 1)
  BY <1>6, <1>7
<1>9. V >= 1 /\ V <= D /\ D <= E
  BY <1>5, <1>6, <1>7, <1>8
<1>10. PICK W \in Nat : W + 1 = V
  <2>1. V - 1 \in Nat /\ (V - 1) + 1 = V
    BY <1>9
  <2> QED
    BY <2>1
<1>11. Reach(p, a, sub, r, W, D)
  BY <1>1, <1>2, <1>3, <1>4, <1>5, <1>7, <1>8, <1>9, <1>10 DEF Reach
<1> QED
  BY <1>11

\* An open receiver is one in order.
LEMMA RcvOpened ==
  ASSUME Fits, NEW n \in Node, NEW c \in Conn, NEW a, AppT(n, a), NEW sub \in 0 .. Count(Peer(n)),
         RcvApp(Peer(n), a, sub), RcvOpen(n, c, a, sub)
  PROVE  RcvOK(n, c, a, sub)
<1>p. PICK p \in Node : p = Peer(n)
  BY PeerNode
<1>1. PICK r \in Nat, W \in Nat, D \in Nat : Reach(p, a, sub, r, W, D)
  <2>1. a.rcvd \in Seq(Seq(Nat \X Nat)) /\ a.consumed \in Nat
    BY DEF AppT
  <2> QED
    BY <2>1, <1>p, ReachIs
<1>2. PICK C \in Nat : C = Pos(p, c.CUR)
  BY <1>p, PosOf DEF Conn
<1>3. RcvAt(p, c, a, sub, C)
  BY <1>p, <1>2 DEF RcvOpen
<1>4. r = Len(a.rcvd) /\ First(p, a.consumed + 1) - 1 = W /\ First(p, r + 1) = D /\ W + 1 <= D
      /\ r <= sub /\ sub <= Count(p) /\ D <= First(p, sub + 1)
  BY <1>1 DEF Reach
<1>5. /\ Pos(p, c.rLCS) = W /\ D - 1 <= C /\ C <= W + SegMax
      /\ IF r < sub THEN C < First(p, r + 2) - 1 ELSE C = D - 1
      /\ \A x \in W + 1 .. W + SegMax :
            LET bf == c.rbuf[Slot(p, x)]
            IN  /\ x < D <=> bf.delivered
                /\ x <= C => bf.inUse
                /\ bf.inUse => RcvBufAt(p, bf, x) /\ x < First(p, sub + 1)
  <2>1. First(p, Len(a.rcvd) + 1) = D /\ First(p, Len(a.rcvd) + 2) = First(p, r + 2)
    BY <1>4
  <2> QED
    BY <1>3, <1>4, <2>1 DEF RcvAt
<1>6. RcvHeld(p, c, a)
  <2>1. ASSUME NEW x \in W + 1 .. D - 1
        PROVE  LET bf == c.rbuf[Slot(p, x)] IN bf.delivered /\ RcvBufAt(p, bf, x)
    <3>1. x \in W + 1 .. W + SegMax /\ x < D /\ x <= C
      BY <1>5
    <3> QED
      BY <3>1, <1>5
  <2>2. (D - 1) - W <= SegMax
    BY <1>5
  <2> QED
    BY <2>1, <2>2, <1>4 DEF RcvHeld
<1>7. Pos(p, c.rLCS) <= Pos(p, c.CUR) /\ Pos(p, c.CUR) < First(p, sub + 1) /\ Pos(p, c.rLCS) < First(p, a.consumed + 1)
  <2>1. W <= C
    BY <1>4, <1>5
  <2>2. PICK E \in Nat : E = First(p, sub + 1) /\ D <= E
    <3>1. sub + 1 \in Nat
      BY <1>4
    <3>2. \A m \in Nat : First(p, m) \in Nat
      BY FirstIs
    <3>3. PICK E \in Nat : E = First(p, sub + 1)
      BY <3>1, <3>2
    <3> QED
      BY <3>3, <1>4
  <2>3. C < E
    <3>1. CASE r < sub
      <4>1. PICK N \in Nat : N = Count(p)
        BY FirstIs
      <4>2. r + 2 \in 1 .. N + 1 /\ sub + 1 \in 1 .. N + 1 /\ r + 2 <= sub + 1
        BY <3>1, <4>1, <1>4
      <4>3. First(p, r + 2) \in Nat /\ First(p, r + 2) + ((sub + 1) - (r + 2)) <= E
        BY <4>1, <4>2, <2>2, FirstMono
      <4>4. C < First(p, r + 2) - 1
        BY <3>1, <1>5
      <4> QED
        BY <4>2, <4>3, <4>4
    <3>2. CASE ~(r < sub)
      <4>1. C = D - 1
        BY <3>2, <1>5
      <4> QED
        BY <4>1, <2>2
    <3> QED
      BY <3>1, <3>2
  <2>4. First(p, a.consumed + 1) = W + 1
    BY <1>1 DEF Reach
  <2> QED
    BY <2>1, <2>2, <2>3, <2>4, <1>2, <1>5
<1> QED
  BY <1>p, <1>6, <1>7 DEF RcvOK, RcvOpen

\* A segment stays as it is when more has been received.
LEMMA SegReceived ==
  ASSUME Fits, NEW n \in Node, NEW c \in Conn, NEW d \in Conn, NEW a, NEW e, NEW r, NEW b, NEW seg \in Segs,
         SegOK(n, seg, c, a, r, b), Pos(Peer(n), c.CUR) <= Pos(Peer(n), d.CUR),
         e.submitted = a.submitted, e.consumed = a.consumed
  PROVE  SegOK(n, seg, d, e, r, b)
<1>1. CASE IsRst(seg) \/ IsSyn(n, seg)
  BY <1>1 DEF SegOK
<1>2. CASE IsNormal(n, seg, c, a, r, b)
  <2>1. PICK p \in Node : p = Peer(n)
    BY PeerNode
  <2>2. EndOf(n, e) = EndOf(n, a)
    BY DEF EndOf
  <2>3. c # NoConn /\ d # NoConn
    BY DEF Conn, NoConn
  <2>4. PICK A \in Nat : A = Pos(p, seg.ack)
    BY <2>1, PosOf DEF Segs
  <2>5. PICK C \in Nat : C = Pos(p, c.CUR)
    BY <2>1, PosOf DEF Conn
  <2>6. PICK G \in Nat : G = Pos(p, d.CUR)
    BY <2>1, PosOf DEF Conn
  <2>7. A <= G
    BY <1>2, <2>1, <2>3, <2>4, <2>5, <2>6 DEF IsNormal
  <2>8. IsNormal(n, seg, d, e, r, b)
    BY <1>2, <2>1, <2>2, <2>4, <2>6, <2>7 DEF IsNormal
  <2> QED
    BY <2>8 DEF SegOK
<1> QED
  BY <1>1, <1>2 DEF SegOK

\* A step of the receive side of an open connection keeps the invariant.
LEMMA RcvGood ==
  ASSUME Fits, NEW n \in Node, NEW s, NEW r, NEW b, Good(n, s, r, b), s.c.state = "OPEN",
         NEW t, RcvStep(n, s, t, b)
  PROVE  Good(n, t, r, b) /\ Moves(n, s.c, s.a, t.c, t.a, b.consumed)
<1>1. StepT(n, s) /\ s.c \in Conn /\ AppT(n, s.a) /\ PeerT(n, r, b) /\ AppOK(n, s.a, b)
      /\ Ctl(n, s.c, s.a) /\ SndOK(n, s.c, s.a, b.consumed)
      /\ (Knows(Peer(n), r) => Pos(n, s.c.UNA) <= Pos(n, r.CUR) + 1)
      /\ AppT(Peer(n), b)
  BY DEF Good, ConnOK, StepT, PeerT
<1>2. StepT(n, t) /\ t.c \in Conn /\ AppT(n, t.a) /\ RcvOnly(s.c, t.c) /\ RcvdApp(s.a, t.a)
  BY DEF RcvStep, StepT
<1>3. b.submitted \in 0 .. Count(Peer(n))
  BY <1>1 DEF AppT, Count
<1>4. RcvOK(n, t.c, t.a, b.submitted)
  BY <1>2, <1>3, RcvOpened DEF RcvStep
<1>5. t.c.state = "OPEN" /\ Est(n, s.c) /\ Est(n, t.c) /\ s.c.reason = "none" /\ s.a.disconnectCb = <<>>
  BY <1>1, <1>2 DEF Ctl, RcvOnly, Est
<1>6. Ctl(n, t.c, t.a)
  BY <1>1, <1>2, <1>5 DEF Ctl, RcvOnly, Closed, RcvdApp
<1>7. SndOK(n, t.c, t.a, b.consumed)
  <2>1. PICK f \in 1 .. s.a.submitted + 1 : SndAt(n, s.c, s.a, b.consumed, f)
    BY <1>1 DEF SndOK
  <2>2. EndOf(n, t.a) = EndOf(n, s.a) /\ t.a.submitted = s.a.submitted
    BY <1>2 DEF EndOf, RcvdApp
  <2>3. RingHolds(n, t.c, First(n, f) .. EndOf(n, t.a) - 1)
    BY <2>1, <2>2, <1>2, RingSame DEF SndAt, RcvOnly
  <2>4. SndNumbers(n, t.c, t.a, b.consumed, f, EndOf(n, t.a))
    BY <2>1, <2>2, <1>2 DEF SndAt, SndNumbers, RcvOnly
  <2>5. CbAt(n, t.a, f)
    BY <2>1, <1>2 DEF SndAt, CbAt, RcvdApp
  <2> QED
    BY <2>2, <2>1, <2>3, <2>4, <2>5 DEF SndOK, SndAt
<1>8. AppOK(n, t.a, b)
  <2>1. PICK f \in 1 .. s.a.submitted + 1 : CbAt(n, s.a, f)
    BY <1>1 DEF AppOK
  <2>2. CbAt(n, t.a, f) /\ f \in 1 .. t.a.submitted + 1
    BY <2>1, <1>2 DEF CbAt, RcvdApp
  <2>3. t.a.disconnectCb = <<>>
    BY <1>2, <1>5 DEF RcvdApp
  <2>4. EndOf(n, t.a) <= First(n, b.consumed + 1) + SegMax
    BY <1>1, <1>2 DEF AppOK, EndOf, RcvdApp
  <2>5. RcvApp(Peer(n), t.a, b.submitted)
    BY DEF RcvStep
  <2> QED
    BY <2>2, <2>3, <2>4, <2>5 DEF AppOK
<1>9. \A seg \in t.out : SegOK(n, seg, t.c, t.a, r, b)
  <2> SUFFICES ASSUME NEW seg \in t.out PROVE SegOK(n, seg, t.c, t.a, r, b)
    OBVIOUS
  <2>1. SegOK(n, seg, s.c, s.a, r, b) /\ seg \in Segs
    BY <1>1 DEF Good, RcvStep, StepT
  <2>2. Pos(Peer(n), s.c.CUR) <= Pos(Peer(n), t.c.CUR)
    BY DEF RcvStep
  <2>3. t.a.submitted = s.a.submitted /\ t.a.consumed = s.a.consumed
    BY <1>2 DEF RcvdApp
  <2> QED
    BY <2>1, <2>2, <2>3, <1>1, <1>2, SegReceived
<1>10. Moves(n, s.c, s.a, t.c, t.a, b.consumed)
  <2>1. CbMoves(n, s.a, t.a, b.consumed)
    BY <1>2 DEF CbMoves, RcvdApp
  <2> QED
    BY <2>1, <1>2, <1>5 DEF Moves, RcvStep, RcvdApp
<1>11. Knows(Peer(n), r) => Pos(n, t.c.UNA) <= Pos(n, r.CUR) + 1
  BY <1>1, <1>2 DEF RcvOnly
<1> QED
  BY <1>1, <1>2, <1>4, <1>6, <1>7, <1>8, <1>9, <1>10, <1>11 DEF Good, ConnOK

\* The parts of RcvAt: how far the order goes, the ring, and the mask.
RcvFront(p, sub, r, W, D, C) ==
  /\ D - 1 <= C /\ C <= W + SegMax
  /\ IF r < sub THEN C < First(p, r + 2) - 1 ELSE C = D - 1

RcvBufOK(p, bf, sub, D, C, x) ==
  /\ x < D <=> bf.delivered
  /\ x <= C => bf.inUse
  /\ bf.inUse => RcvBufAt(p, bf, x) /\ x < First(p, sub + 1)

RcvRing(p, c, sub, W, D, C) ==
  \A x \in W + 1 .. W + SegMax : RcvBufOK(p, c.rbuf[Slot(p, x)], sub, D, C, x)

RcvMask(p, c, W, C) ==
  /\ WellFormed(c.eack)
  /\ Words <= 2 => c.eack.htnMask = c.eack.mask
  /\ \A d \in Nat \ {0} : d \in Announced(c.eack.mask) <=>
        C + 1 + d <= W + SegMax /\ c.rbuf[Slot(p, C + 1 + d)].inUse

RcvParts(p, c, sub, r, W, D, C) ==
  /\ Pos(p, c.rLCS) = W /\ RcvFront(p, sub, r, W, D, C) /\ RcvRing(p, c, sub, W, D, C)
  /\ \A i \in Ring : c.rbuf[i].ttl = "inf"
  /\ RcvMask(p, c, W, C)

\* RcvAt in parts.
LEMMA RcvAtIs ==
  ASSUME NEW p, NEW c, NEW a, NEW sub, NEW C, NEW r \in Nat, NEW W \in Nat, NEW D \in Nat, Reach(p, a, sub, r, W, D)
  PROVE  RcvAt(p, c, a, sub, C) <=> RcvParts(p, c, sub, r, W, D, C)
<1>1. r = Len(a.rcvd) /\ First(p, a.consumed + 1) - 1 = W /\ First(p, r + 1) = D
  BY DEF Reach
<1>2. First(p, Len(a.rcvd) + 1) = D /\ First(p, Len(a.rcvd) + 2) = First(p, r + 2)
  BY <1>1
<1>3. RcvAt(p, c, a, sub, C) =>  RcvParts(p, c, sub, r, W, D, C)
  <2> SUFFICES ASSUME RcvAt(p, c, a, sub, C) PROVE RcvParts(p, c, sub, r, W, D, C)
    OBVIOUS
  <2>1. Pos(p, c.rLCS) = W /\ RcvFront(p, sub, r, W, D, C)
    BY <1>1, <1>2 DEF RcvAt, RcvFront
  <2>2. RcvRing(p, c, sub, W, D, C)
    BY <1>1, <1>2 DEF RcvAt, RcvRing, RcvBufOK
  <2>3. \A i \in Ring : c.rbuf[i].ttl = "inf"
    BY DEF RcvAt
  <2>4. RcvMask(p, c, W, C)
    BY <1>1, <1>2 DEF RcvAt, RcvMask
  <2> QED
    BY <2>1, <2>2, <2>3, <2>4 DEF RcvParts
<1>4. RcvParts(p, c, sub, r, W, D, C) => RcvAt(p, c, a, sub, C)
  <2> SUFFICES ASSUME RcvParts(p, c, sub, r, W, D, C) PROVE RcvAt(p, c, a, sub, C)
    OBVIOUS
  <2>1. Pos(p, c.rLCS) = W /\ RcvFront(p, sub, r, W, D, C) /\ RcvRing(p, c, sub, W, D, C)
        /\ RcvMask(p, c, W, C) /\ \A i \in Ring : c.rbuf[i].ttl = "inf"
    BY DEF RcvParts
  <2>2. D - 1 <= C /\ C <= W + SegMax /\ IF r < sub THEN C < First(p, r + 2) - 1 ELSE C = D - 1
    BY <2>1 DEF RcvFront
  <2>3. \A x \in W + 1 .. W + SegMax :
            LET b == c.rbuf[Slot(p, x)]
            IN  /\ x < D <=> b.delivered
                /\ x <= C => b.inUse
                /\ b.inUse => RcvBufAt(p, b, x) /\ x < First(p, sub + 1)
    BY <2>1 DEF RcvRing, RcvBufOK
  <2>4. /\ WellFormed(c.eack)
        /\ Words <= 2 => c.eack.htnMask = c.eack.mask
        /\ \A d \in Nat \ {0} : d \in Announced(c.eack.mask) <=>
              C + 1 + d <= W + SegMax /\ c.rbuf[Slot(p, C + 1 + d)].inUse
    BY <2>1 DEF RcvMask
  <2> QED
    BY <2>1, <2>2, <2>3, <2>4, <1>1, <1>2 DEF RcvAt
<1> QED
  BY <1>3, <1>4

\* The receiver waits for message r + 1, of which it has everything up to C + 1.
Waits(p, c, sub, r, D, C) ==
  /\ r < sub /\ r + 1 \in 1 .. Count(p) /\ C + 1 < First(p, r + 2)
  /\ \A y \in D .. C + 1 :
        LET bf == c.rbuf[Slot(p, y)]
        IN  /\ bf.inUse /\ ~bf.delivered /\ bf.seq = SeqAt(p, y) /\ bf.data = <<r + 1, y - D>>
            /\ bf.som = SeqAt(p, D) /\ bf.fcnt = Msgs[p][r + 1].fcnt

\* The message that the receiver waits for has number r + 1.
LEMMA Waiting ==
  ASSUME Fits, NEW p \in Node, NEW c, NEW a, NEW sub \in 0 .. Count(p), NEW C \in Nat,
         NEW r \in Nat, NEW W \in Nat, NEW D \in Nat, Reach(p, a, sub, r, W, D),
         RcvFront(p, sub, r, W, D, C), RcvRing(p, c, sub, W, D, C),
         C + 1 <= W + SegMax, c.rbuf[Slot(p, C + 1)].inUse
  PROVE  Waits(p, c, sub, r, D, C)
<1>1. W + 1 <= D /\ D = First(p, r + 1) /\ r <= sub /\ D - 1 <= C
  BY DEF Reach, RcvFront
<1>2. C + 1 \in W + 1 .. W + SegMax
  BY <1>1
<1>3. C + 1 < First(p, sub + 1)
  BY <1>2 DEF RcvRing, RcvBufOK
<1>4. r < sub
  <2> SUFFICES ASSUME r = sub PROVE FALSE
    BY <1>1
  <2>1. C = D - 1
    BY DEF RcvFront
  <2>2. C + 1 < D
    BY <1>1, <1>3
  <2> QED
    BY <2>1, <2>2
<1>N. PICK N \in Nat : N = Count(p)
  BY FirstIs
<1>5. r + 1 \in 1 .. Count(p)
  BY <1>N, <1>4
<1>6. PICK E \in Nat : E = First(p, r + 2) /\ D < E
  <2>1. r + 2 \in 1 .. Count(p) + 1 /\ r + 1 \in 1 .. Count(p) + 1 /\ r + 1 <= r + 2
    BY <1>N, <1>5
  <2>2. First(p, r + 2) \in Nat /\ First(p, r + 1) + ((r + 2) - (r + 1)) <= First(p, r + 2)
    BY <2>1, FirstMono
  <2>3. PICK E \in Nat : E = First(p, r + 2)
    BY <2>2
  <2> QED
    BY <2>2, <2>3, <1>1
<1>7. C + 1 < E
  BY <1>4, <1>6 DEF RcvFront
<1>8. ASSUME NEW y \in D .. C + 1
      PROVE  LET bf == c.rbuf[Slot(p, y)]
             IN  /\ bf.inUse /\ ~bf.delivered /\ bf.seq = SeqAt(p, y) /\ bf.data = <<r + 1, y - D>>
                 /\ bf.som = SeqAt(p, D) /\ bf.fcnt = Msgs[p][r + 1].fcnt
  <2>1. y \in W + 1 .. W + SegMax /\ y \in Nat /\ ~(y < D) /\ y < E
    BY <1>1, <1>7
  <2>2. PICK bf : bf = c.rbuf[Slot(p, y)]
    OBVIOUS
  <2>3. RcvBufOK(p, bf, sub, D, C, y)
    BY <2>1, <2>2 DEF RcvRing
  <2>4. bf.inUse
    <3>1. CASE y <= C
      BY <3>1, <2>3 DEF RcvBufOK
    <3>2. CASE y = C + 1
      BY <3>2, <2>2
    <3> QED
      BY <3>1, <3>2
  <2>5. ~bf.delivered /\ RcvBufAt(p, bf, y)
    BY <2>1, <2>3, <2>4 DEF RcvBufOK
  <2>6. PICK m \in 1 .. Count(p) :
          /\ bf.data = <<m, y - First(p, m)>> /\ bf.som = SeqAt(p, First(p, m))
          /\ bf.fcnt = Msgs[p][m].fcnt
          /\ First(p, m) <= y /\ y < First(p, m + 1)
    BY <2>5 DEF RcvBufAt, Count
  <2>7. First(p, r + 1) <= y /\ y < First(p, (r + 1) + 1) /\ y \in Int
    <3>1. (r + 1) + 1 = r + 2
      OBVIOUS
    <3> QED
      BY <3>1, <2>1, <1>1, <1>6
  <2>8. m = r + 1
    BY <2>6, <2>7, <1>5, OneMessage
  <2> QED
    BY <2>2, <2>4, <2>5, <2>6, <2>8, <1>1 DEF RcvBufAt
<1> QED
  BY <1>4, <1>5, <1>6, <1>7, <1>8 DEF Waits

\* The mask after one more segment in order.
LEMMA MaskShifted ==
  ASSUME NEW p, NEW c, NEW d, NEW W \in Nat, NEW C \in Nat, RcvMask(p, c, W, C),
         d.eack = ShiftRcvMsk(c.eack),
         \A x \in W + 1 .. W + SegMax : d.rbuf[Slot(p, x)].inUse = c.rbuf[Slot(p, x)].inUse, W <= C
  PROVE  RcvMask(p, d, W, C + 1)
<1>1. PICK e : e = c.eack
  OBVIOUS
<1>2. PICK f : f = ShiftRcvMsk(e) /\ f = d.eack
  BY <1>1
<1>3. WellFormed(e) /\ (Words <= 2 => e.htnMask = e.mask)
      /\ \A x \in Nat \ {0} : x \in Announced(e.mask) <=>
              C + 1 + x <= W + SegMax /\ c.rbuf[Slot(p, C + 1 + x)].inUse
  BY <1>1 DEF RcvMask
<1>4. WellFormed(f) /\ \A x \in Nat \ {0} : x \in Announced(f.mask) <=> x + 1 \in Announced(e.mask)
  BY <1>2, <1>3, ShiftAnnounces
<1>5. Words <= 2 => f.htnMask = f.mask
  BY <1>2, <1>3, TwoWordsExact
<1>6. ASSUME NEW x \in Nat \ {0}
      PROVE  x \in Announced(f.mask) <=> (C + 1) + 1 + x <= W + SegMax /\ d.rbuf[Slot(p, (C + 1) + 1 + x)].inUse
  <2>1. x + 1 \in Nat \ {0} /\ C + 1 + (x + 1) = (C + 1) + 1 + x
    OBVIOUS
  <2>2. x + 1 \in Announced(e.mask) <=>
          (C + 1) + 1 + x <= W + SegMax /\ c.rbuf[Slot(p, (C + 1) + 1 + x)].inUse
    BY <2>1, <1>3
  <2>3. (C + 1) + 1 + x <= W + SegMax => (C + 1) + 1 + x \in W + 1 .. W + SegMax
    OBVIOUS
  <2> QED
    BY <2>2, <2>3, <1>4
<1> QED
  BY <1>2, <1>4, <1>5, <1>6 DEF RcvMask

\* The receive rings of c and d differ in that the buffers G have been delivered.
Delivering(c, d, G) ==
  \A j \in Ring :
      /\ d.rbuf[j].inUse = c.rbuf[j].inUse /\ d.rbuf[j].seq = c.rbuf[j].seq
      /\ d.rbuf[j].som = c.rbuf[j].som /\ d.rbuf[j].fcnt = c.rbuf[j].fcnt
      /\ d.rbuf[j].ttl = c.rbuf[j].ttl /\ d.rbuf[j].data = c.rbuf[j].data
      /\ d.rbuf[j].delivered <=> c.rbuf[j].delivered \/ j \in G

\* The positions of the receive window have slots.
LEMMA WindowSlot ==
  ASSUME Fits, NEW p \in Node, NEW sub, NEW a, NEW r \in Nat, NEW W \in Nat, NEW D \in Nat, sub \in 0 .. Count(p),
         Reach(p, a, sub, r, W, D)
  PROVE  /\ \A x \in W + 1 .. W + SegMax : Slot(p, x) \in Ring /\ x \in 0 .. Total(p) + SegMax
         /\ \A x \in W + 1 .. W + SegMax : \A y \in W + 1 .. W + SegMax : Slot(p, x) = Slot(p, y) => x = y
         /\ \E T \in Nat : T = Total(p) /\ W + 1 <= D /\ D <= T /\ T + SegMax < Half
                           /\ Half \in Nat /\ Half + Half = SeqSpace
<1>1. PICK T \in Nat : T = Total(p) /\ T + SegMax < Half /\ Half \in Nat /\ Half + Half = SeqSpace
  BY FirstIs
<1>2. PICK E \in Nat : E = First(p, sub + 1) /\ E <= T
  <2>1. sub + 1 \in Nat
    BY FirstIs
  <2>2. First(p, sub + 1) \in Nat
    BY <2>1, FirstIs
  <2> QED
    BY <2>2, <1>1 DEF Reach
<1>3. W + 1 <= D /\ D <= E
  BY <1>2 DEF Reach
<1>4. ASSUME NEW x \in W + 1 .. W + SegMax PROVE Slot(p, x) \in Ring /\ x \in 0 .. Total(p) + SegMax /\ x \in 0 .. T + SegMax
  <2>1. x \in 0 .. T + SegMax
    BY <1>1, <1>2, <1>3
  <2>2. x \in 0 .. Total(p) + SegMax
    BY <2>1, <1>1
  <2> QED
    BY <2>1, <2>2, SlotIs
<1>5. ASSUME NEW x \in W + 1 .. W + SegMax, NEW y \in W + 1 .. W + SegMax, Slot(p, x) = Slot(p, y) PROVE x = y
  <2>1. x - y < SegMax /\ y - x < SegMax
    OBVIOUS
  <2> QED
    BY <2>1, <1>4, <1>5, SlotDistinct
<1> QED
  BY <1>1, <1>2, <1>3, <1>4, <1>5

\* A segment in order that does not complete its message.
LEMMA FrontMoves ==
  ASSUME Fits, NEW p \in Node, NEW c, NEW d, NEW a, NEW sub \in 0 .. Count(p), NEW C \in Nat,
         NEW r \in Nat, NEW W \in Nat, NEW D \in Nat, Reach(p, a, sub, r, W, D),
         RcvParts(p, c, sub, r, W, D, C), C + 1 <= W + SegMax, c.rbuf[Slot(p, C + 1)].inUse,
         C + 1 # First(p, r + 2) - 1,
         d.eack = ShiftRcvMsk(c.eack), d.rbuf = c.rbuf, d.rLCS = c.rLCS
  PROVE  RcvParts(p, d, sub, r, W, D, C + 1)
<1>1. Pos(p, c.rLCS) = W /\ RcvFront(p, sub, r, W, D, C) /\ RcvRing(p, c, sub, W, D, C)
      /\ (\A i \in Ring : c.rbuf[i].ttl = "inf") /\ RcvMask(p, c, W, C)
  BY DEF RcvParts
<1>2. W + 1 <= D /\ D - 1 <= C
  BY <1>1 DEF Reach, RcvFront
<1>3. RcvMask(p, d, W, C + 1)
  BY <1>1, <1>2, MaskShifted
<1>4. r < sub /\ C + 1 < First(p, r + 2)
  BY <1>1, Waiting DEF Waits
<1>5. RcvFront(p, sub, r, W, D, C + 1)
  <2>1. First(p, r + 2) \in Nat
    BY FirstIs
  <2> QED
    BY <2>1, <1>2, <1>4 DEF RcvFront
<1>6. RcvRing(p, d, sub, W, D, C + 1)
  <2> SUFFICES ASSUME NEW x \in W + 1 .. W + SegMax PROVE RcvBufOK(p, d.rbuf[Slot(p, x)], sub, D, C + 1, x)
    BY DEF RcvRing
  <2>1. PICK bf : bf = c.rbuf[Slot(p, x)]
    OBVIOUS
  <2>2. RcvBufOK(p, bf, sub, D, C, x)
    BY <2>1, <1>1 DEF RcvRing
  <2>3. x <= C + 1 => bf.inUse
    <3>1. x <= C => bf.inUse
      BY <2>2 DEF RcvBufOK
    <3>2. x = C + 1 => bf.inUse
      BY <2>1
    <3> QED
      BY <3>1, <3>2
  <2>4. RcvBufOK(p, bf, sub, D, C + 1, x)
    BY <2>2, <2>3 DEF RcvBufOK
  <2> QED
    BY <2>1, <2>4
<1> QED
  BY <1>1, <1>3, <1>5, <1>6 DEF RcvParts

\* A segment in order that completes its message, which is delivered.
LEMMA FrontDelivers ==
  ASSUME Fits, NEW p \in Node, NEW c, NEW d, NEW a, NEW sub \in 0 .. Count(p), NEW C \in Nat,
         NEW r \in Nat, NEW W \in Nat, NEW D \in Nat, Reach(p, a, sub, r, W, D),
         RcvParts(p, c, sub, r, W, D, C), C + 1 <= W + SegMax, c.rbuf[Slot(p, C + 1)].inUse,
         C + 1 = First(p, r + 2) - 1,
         d.eack = ShiftRcvMsk(c.eack), d.rLCS = c.rLCS,
         Delivering(c, d, {Slot(p, y) : y \in D .. C + 1})
  PROVE  RcvParts(p, d, sub, r + 1, W, C + 2, C + 1)
<1>1. Pos(p, c.rLCS) = W /\ RcvFront(p, sub, r, W, D, C) /\ RcvRing(p, c, sub, W, D, C)
      /\ (\A i \in Ring : c.rbuf[i].ttl = "inf") /\ RcvMask(p, c, W, C)
  BY DEF RcvParts
<1>2. W + 1 <= D /\ D - 1 <= C /\ W <= C
  BY <1>1 DEF Reach, RcvFront
<1>w. /\ \A x \in W + 1 .. W + SegMax : Slot(p, x) \in Ring
      /\ \A x \in W + 1 .. W + SegMax : \A y \in W + 1 .. W + SegMax : Slot(p, x) = Slot(p, y) => x = y
  BY WindowSlot
<1>G. PICK G : G = {Slot(p, y) : y \in D .. C + 1}
  OBVIOUS
<1>3. RcvMask(p, d, W, C + 1)
  <2>1. \A x \in W + 1 .. W + SegMax : d.rbuf[Slot(p, x)].inUse = c.rbuf[Slot(p, x)].inUse
    BY <1>w DEF Delivering
  <2> QED
    BY <2>1, <1>1, <1>2, MaskShifted
<1>4. r < sub /\ C + 1 < First(p, r + 2)
  BY <1>1, Waiting DEF Waits
<1>5. RcvFront(p, sub, r + 1, W, C + 2, C + 1)
  <2>1. (C + 2) - 1 <= C + 1 /\ C + 1 = (C + 2) - 1
    OBVIOUS
  <2>2. ASSUME r + 1 < sub PROVE C + 1 < First(p, (r + 1) + 2) - 1
    <3>1. PICK N \in Nat : N = Count(p)
      BY FirstIs
    <3>2. r + 2 \in 1 .. Count(p) + 1 /\ r + 3 \in 1 .. Count(p) + 1 /\ r + 2 <= r + 3 /\ (r + 1) + 2 = r + 3
      BY <3>1, <2>2
    <3>3. First(p, r + 2) \in Nat /\ First(p, r + 3) \in Nat /\ First(p, r + 2) + ((r + 3) - (r + 2)) <= First(p, r + 3)
      BY <3>2, FirstMono
    <3>4. PICK X \in Nat, Y \in Nat : X = First(p, r + 2) /\ Y = First(p, r + 3)
      BY <3>3
    <3>5. X + 1 <= Y
      BY <3>3, <3>4
    <3> QED
      BY <3>2, <3>4, <3>5
  <2> QED
    BY <2>1, <2>2 DEF RcvFront
<1>6. RcvRing(p, d, sub, W, C + 2, C + 1)
  <2> SUFFICES ASSUME NEW x \in W + 1 .. W + SegMax PROVE RcvBufOK(p, d.rbuf[Slot(p, x)], sub, C + 2, C + 1, x)
    BY DEF RcvRing
  <2>1. PICK i \in Ring : i = Slot(p, x)
    BY <1>w
  <2>2. PICK bf : bf = c.rbuf[i]
    OBVIOUS
  <2>3. PICK df : df = d.rbuf[i]
    OBVIOUS
  <2>4. RcvBufOK(p, bf, sub, D, C, x)
    BY <2>1, <2>2, <1>1 DEF RcvRing
  <2>5. df.inUse = bf.inUse /\ df.seq = bf.seq /\ df.som = bf.som /\ df.fcnt = bf.fcnt /\ df.data = bf.data
        /\ (df.delivered <=> bf.delivered \/ i \in G)
    BY <2>2, <2>3, <1>G DEF Delivering
  <2>6. i \in G <=> x \in D .. C + 1
    <3>1. ASSUME i \in G PROVE x \in D .. C + 1
      <4>1. PICK y \in D .. C + 1 : i = Slot(p, y)
        BY <3>1, <1>G
      <4>2. y \in W + 1 .. W + SegMax
        BY <1>2
      <4>3. x = y
        BY <4>1, <4>2, <2>1, <1>w
      <4> QED
        BY <4>3
    <3> QED
      BY <3>1, <1>G, <2>1
  <2>7. x < C + 2 <=> df.delivered
    <3>1. x < D <=> bf.delivered
      BY <2>4 DEF RcvBufOK
    <3>2. x < C + 2 <=> x < D \/ x \in D .. C + 1
      BY <1>2
    <3> QED
      BY <3>1, <3>2, <2>5, <2>6
  <2>8. x <= C + 1 => df.inUse
    <3>1. x <= C => bf.inUse
      BY <2>4 DEF RcvBufOK
    <3>2. x = C + 1 => bf.inUse
      BY <2>1, <2>2
    <3> QED
      BY <3>1, <3>2, <2>5
  <2>9. df.inUse => RcvBufAt(p, df, x) /\ x < First(p, sub + 1)
    BY <2>4, <2>5 DEF RcvBufOK, RcvBufAt
  <2>10. RcvBufOK(p, df, sub, C + 2, C + 1, x)
    BY <2>7, <2>8, <2>9 DEF RcvBufOK
  <2> QED
    BY <2>1, <2>3, <2>10
<1>7. \A i \in Ring : d.rbuf[i].ttl = "inf"
  BY <1>1 DEF Delivering
<1>8. Pos(p, d.rLCS) = W
  BY <1>1
<1> QED
  BY <1>3, <1>5, <1>6, <1>7, <1>8 DEF RcvParts

\* The upper layer after the delivery of message r + 1.
Delivery(p, a, e, r, D) ==
  /\ e.rcvd = Append(a.rcvd, FragsOf(p, r + 1)) /\ e.held = Append(a.held, Slot(p, D))
  /\ RcvdApp(a, e)

\* r + 1 messages were delivered.
DeliveredApp(p, e, sub, r, W) ==
  /\ e.rcvd \in Seq(Seq(Nat \X Nat)) /\ e.held \in Seq(Ring)
  /\ RcvApp(p, e, sub) /\ Reach(p, e, sub, r + 1, W, First(p, r + 2)) /\ Len(e.rcvd) = r + 1

\* A message delivered is the next one.
LEMMA AppDelivers ==
  ASSUME Fits, NEW p \in Node, NEW a, a.rcvd \in Seq(Seq(Nat \X Nat)), a.held \in Seq(Ring), a.consumed \in Nat,
         NEW e, NEW sub \in 0 .. Count(p),
         NEW r \in Nat, NEW W \in Nat, NEW D \in Nat, Reach(p, a, sub, r, W, D), RcvApp(p, a, sub),
         r < sub, Slot(p, D) \in Ring, Delivery(p, a, e, r, D)
  PROVE  DeliveredApp(p, e, sub, r, W)
<1>1. /\ r = Len(a.rcvd) /\ r <= sub /\ sub <= Count(p) /\ a.consumed \in 0 .. r
      /\ W + 1 = First(p, a.consumed + 1) /\ D = First(p, r + 1) /\ W + 1 <= D /\ D <= First(p, sub + 1)
      /\ First(p, sub + 1) <= Total(p)
  BY DEF Reach
<1>2. PICK q \in 0 .. r : q = a.consumed
  BY <1>1
<1>n. q \in Nat /\ q <= r
  OBVIOUS
<1>3. e.consumed = q
  BY <1>2 DEF Delivery, RcvdApp
<1>4. FragsOf(p, r + 1) \in Seq(Nat \X Nat)
  <2>1. r + 1 \in 1 .. Count(p)
    <3>1. PICK N \in Nat : N = Count(p)
      BY FirstIs
    <3> QED
      BY <3>1, <1>1
  <2>2. Msgs[p][r + 1].fcnt \in 1 .. SegMax
    BY <2>1, FirstIs
  <2>3. PICK z \in Nat : z = Msgs[p][r + 1].fcnt
    BY <2>2
  <2>4. FragsOf(p, r + 1) = [k \in 1 .. z |-> <<r + 1, k - 1>>]
    BY <2>3 DEF FragsOf
  <2>5. \A k \in 1 .. z : <<r + 1, k - 1>> \in Nat \X Nat
    OBVIOUS
  <2>6. FragsOf(p, r + 1) \in [1 .. z -> Nat \X Nat]
    BY <2>4, <2>5
  <2> QED
    BY <2>6
<1>5. e.rcvd \in Seq(Seq(Nat \X Nat)) /\ Len(e.rcvd) = r + 1
      /\ \A k \in 1 .. r + 1 : e.rcvd[k] = IF k = r + 1 THEN FragsOf(p, r + 1) ELSE a.rcvd[k]
  <2>1. PICK x \in Seq(Nat \X Nat) : x = FragsOf(p, r + 1)
    BY <1>4
  <2>2. e.rcvd = Append(a.rcvd, x)
    BY <2>1 DEF Delivery
  <2>r. r = Len(a.rcvd)
    BY <1>1
  <2>3. e.rcvd \in Seq(Seq(Nat \X Nat)) /\ Len(e.rcvd) = r + 1
        /\ (\A k \in 1 .. r : e.rcvd[k] = a.rcvd[k])
        /\ e.rcvd[r + 1] = x
    <3>1. e.rcvd \in Seq(Seq(Nat \X Nat)) /\ Len(e.rcvd) = Len(a.rcvd) + 1
          /\ (\A k \in 1 .. Len(a.rcvd) : e.rcvd[k] = a.rcvd[k])
          /\ e.rcvd[Len(a.rcvd) + 1] = x
      BY <2>2, AppendProperties
    <3> QED
      BY <3>1, <2>r, Zenon
  <2>4. ASSUME NEW k \in 1 .. r + 1 PROVE e.rcvd[k] = IF k = r + 1 THEN x ELSE a.rcvd[k]
    <3>1. CASE k = r + 1
      BY <3>1, <2>3
    <3>2. CASE k # r + 1
      <4>1. k \in 1 .. r
        BY <3>2
      <4> QED
        BY <4>1, <3>2, <2>3
    <3> QED
      BY <3>1, <3>2
  <2> QED
    BY <2>1, <2>3, <2>4
<1>6. e.rcvd = [k \in 1 .. r + 1 |-> FragsOf(p, k)]
  <2>1. a.rcvd = [k \in 1 .. r |-> FragsOf(p, k)]
    BY <1>1 DEF RcvApp
  <2>2. \A k \in 1 .. r + 1 : e.rcvd[k] = FragsOf(p, k)
    <3> SUFFICES ASSUME NEW k \in 1 .. r + 1 PROVE e.rcvd[k] = FragsOf(p, k)
      OBVIOUS
    <3>1. CASE k = r + 1
      BY <3>1, <1>5
    <3>2. CASE k # r + 1
      <4>1. k \in 1 .. r
        BY <3>2
      <4>2. a.rcvd[k] = FragsOf(p, k)
        BY <4>1, <2>1
      <4> QED
        BY <3>2, <4>2, <1>5
    <3> QED
      BY <3>1, <3>2
  <2>3. e.rcvd = [k \in 1 .. r + 1 |-> e.rcvd[k]]
    BY <1>5
  <2> QED
    BY <2>2, <2>3
<1>7. e.held \in Seq(Ring) /\ e.held = [k \in 1 .. (r + 1) - q |-> Slot(p, First(p, q + k))]
  <2>1. a.held = [k \in 1 .. r - q |-> Slot(p, First(p, q + k))]
    BY <1>1, <1>2 DEF RcvApp
  <2>2. PICK h \in Nat : h = r - q
    BY <1>2
  <2>3. Len(a.held) = h
    BY <2>1, <2>2, LenProperties
  <2>4. PICK i \in Ring : i = Slot(p, D)
    OBVIOUS
  <2>5. e.held = Append(a.held, i)
    BY <2>4 DEF Delivery
  <2>6. e.held \in Seq(Ring) /\ Len(e.held) = h + 1
        /\ (\A k \in 1 .. h : e.held[k] = a.held[k]) /\ e.held[h + 1] = i
    <3>1. e.held \in Seq(Ring) /\ Len(e.held) = Len(a.held) + 1
          /\ (\A k \in 1 .. Len(a.held) : e.held[k] = a.held[k]) /\ e.held[Len(a.held) + 1] = i
      BY <2>5, AppendProperties
    <3> QED
      BY <3>1, <2>3
  <2>7. \A k \in 1 .. h + 1 : e.held[k] = Slot(p, First(p, q + k))
    <3> SUFFICES ASSUME NEW k \in 1 .. h + 1 PROVE e.held[k] = Slot(p, First(p, q + k))
      OBVIOUS
    <3>1. CASE k = h + 1
      <4>1. q + k = r + 1
        BY <3>1, <2>2, <1>n
      <4> QED
        BY <4>1, <3>1, <2>6, <2>4, <1>1
    <3>2. CASE k # h + 1
      <4>1. k \in 1 .. h
        BY <3>2, <2>2
      <4>2. a.held[k] = Slot(p, First(p, q + k))
        BY <4>1, <2>1, <2>2
      <4> QED
        BY <4>1, <4>2, <2>6
    <3> QED
      BY <3>1, <3>2
  <2>8. e.held = [k \in 1 .. h + 1 |-> e.held[k]]
    BY <2>6
  <2>9. h + 1 = (r + 1) - q
    BY <2>2, <1>n
  <2>10. e.held = [k \in 1 .. h + 1 |-> Slot(p, First(p, q + k))]
    BY <2>7, <2>8
  <2> QED
    BY <2>6, <2>9, <2>10
<1>8. RcvApp(p, e, sub)
  <2>0. r + 1 <= sub /\ q <= r + 1
    BY <1>n
  <2>1. Len(e.rcvd) = r + 1 /\ e.consumed = q /\ r + 1 <= sub /\ q <= r + 1
    BY <2>0, <1>3, <1>5
  <2> QED
    BY <2>1, <1>6, <1>7 DEF RcvApp
<1>9. Reach(p, e, sub, r + 1, W, First(p, r + 2))
  <2>1. PICK N \in Nat : N = Count(p)
    BY FirstIs
  <2>0. sub \in 0 .. N
    BY <2>1
  <2>2. r + 1 \in 1 .. N + 1 /\ r + 2 \in 1 .. N + 1 /\ sub + 1 \in 1 .. N + 1 /\ r + 1 <= r + 2 /\ r + 2 <= sub + 1
    BY <2>0
  <2>3. First(p, r + 2) \in Nat /\ First(p, r + 1) + ((r + 2) - (r + 1)) <= First(p, r + 2)
    BY <2>1, <2>2, FirstMono
  <2>4. First(p, sub + 1) \in Nat /\ First(p, r + 2) + ((sub + 1) - (r + 2)) <= First(p, sub + 1)
    BY <2>1, <2>2, FirstMono
  <2>5. PICK X \in Nat, Y \in Nat : X = First(p, r + 2) /\ Y = First(p, sub + 1)
    BY <2>3, <2>4
  <2>6. D <= X /\ X <= Y /\ W + 1 <= X
    <3>1. D + ((r + 2) - (r + 1)) <= X
      BY <2>3, <2>5, <1>1
    <3>2. X + ((sub + 1) - (r + 2)) <= Y /\ r + 2 <= sub + 1
      BY <2>2, <2>4, <2>5
    <3>3. W + 1 <= D
      BY <1>1
    <3> QED
      BY <3>1, <3>2, <3>3, <2>0
  <2>7. (r + 1) + 1 = r + 2 /\ r + 1 <= sub /\ q \in 0 .. r + 1
    BY <1>n, <2>0
  <2> QED
    BY <2>5, <2>6, <2>7, <1>1, <1>2, <1>3, <1>5 DEF Reach
<1> QED
  BY <1>5, <1>7, <1>8, <1>9 DEF DeliveredApp

\* s with its mask shifted by one segment.
ShiftedStep(s) == [s EXCEPT !.c.eack = ShiftRcvMsk(@)]

\* s after the delivery of the message to which buffer b belongs.
DeliveredStep(s, b) ==
  [RecvCb(s, Idx(b.som)) EXCEPT
      !.c.rbuf = [j \in Ring |-> IF j \in Follow(Idx(b.som), b.fcnt)
                                 THEN [@[j] EXCEPT !.delivered = TRUE] ELSE @[j]]]

\* The locals z of the loop of AdvanceRcvQueue after a turn that begins with q and leads to t.
TurnTo(z, q, t) ==
  /\ z.s = t /\ z.i = (q.i + 1) % SegMax /\ z.seq = Plus(q.seq, 1) /\ ~z.isExpiring
  /\ z.more <=> (t.c.rbuf[z.i].inUse /\ ~t.c.rbuf[z.i].delivered)

\* Buffer b holds the last fragment of its message.
LastFragment(b) == b.seq = Plus(b.som, b.fcnt - 1)

\* A turn of the loop without expiry.
LEMMA TurnIs ==
  ASSUME NEW q, ~q.isExpiring, NEW late, Minus(q.seq, q.s.c.rLCS) <= SegMax,
         NEW b, b = ShiftedStep(q.s).c.rbuf[q.i], b.ttl = "inf"
  PROVE  TurnTo(AdvanceOne(q, late), q, IF LastFragment(b) THEN DeliveredStep(ShiftedStep(q.s), b) ELSE ShiftedStep(q.s))
<1>1. PICK s1 : s1 = ShiftedStep(q.s)
  OBVIOUS
<1>2. s1 = Check(ShiftedStep(q.s), "seq - LCS <= SEGMAX", Minus(q.seq, q.s.c.rLCS) <= SegMax)
  BY <1>1 DEF Check
<1>3. b = s1.c.rbuf[q.i]
  BY <1>1
<1>4. b.ttl # "ttl"
  OBVIOUS
<1>5. CASE LastFragment(b)
  <2>1. PICK t : t = DeliveredStep(s1, b)
    OBVIOUS
  <2>h. PICK h : h = (FALSE \/ (t.c.rbuf[(q.i + 1) % SegMax].inUse /\ ~t.c.rbuf[(q.i + 1) % SegMax].delivered))
    OBVIOUS
  <2>2. AdvanceOne(q, late) = [s |-> t, i |-> (q.i + 1) % SegMax, seq |-> Plus(q.seq, 1), isExpiring |-> FALSE,
             startSeq |-> q.startSeq, fcnt |-> q.fcnt,
             more |-> h]
    BY <1>2, <1>3, <1>4, <1>5, <2>1, <2>h, Zenon DEF AdvanceOne, LastFragment, DeliveredStep, ShiftedStep
  <2>3. PICK z : z = AdvanceOne(q, late)
    OBVIOUS
  <2>4. TurnTo(z, q, t)
    <3>1. z.s = t /\ z.i = (q.i + 1) % SegMax /\ z.seq = Plus(q.seq, 1) /\ z.isExpiring = FALSE
      BY <2>2, <2>3
    <3>2. z.more = h
      BY <2>2, <2>3
    <3>3. z.more <=> (t.c.rbuf[(q.i + 1) % SegMax].inUse /\ ~t.c.rbuf[(q.i + 1) % SegMax].delivered)
      BY <3>2, <2>h, Zenon
    <3> QED
      BY <3>1, <3>3, Zenon DEF TurnTo
  <2> QED
    BY <2>1, <2>3, <2>4, <1>1, <1>5
<1>6. CASE ~LastFragment(b)
  <2>h. PICK h : h = (FALSE \/ (s1.c.rbuf[(q.i + 1) % SegMax].inUse /\ ~s1.c.rbuf[(q.i + 1) % SegMax].delivered))
    OBVIOUS
  <2>2. AdvanceOne(q, late) = [s |-> s1, i |-> (q.i + 1) % SegMax, seq |-> Plus(q.seq, 1), isExpiring |-> FALSE,
             startSeq |-> q.startSeq, fcnt |-> q.fcnt,
             more |-> h]
    BY <1>2, <1>3, <1>4, <1>6, <2>h, Zenon DEF AdvanceOne, LastFragment, ShiftedStep
  <2>3. PICK z : z = AdvanceOne(q, late)
    OBVIOUS
  <2>4. TurnTo(z, q, s1)
    <3>1. z.s = s1 /\ z.i = (q.i + 1) % SegMax /\ z.seq = Plus(q.seq, 1) /\ z.isExpiring = FALSE
      BY <2>2, <2>3
    <3>2. z.more = h
      BY <2>2, <2>3
    <3>3. z.more <=> (s1.c.rbuf[(q.i + 1) % SegMax].inUse /\ ~s1.c.rbuf[(q.i + 1) % SegMax].delivered)
      BY <3>2, <2>h, Zenon
    <3> QED
      BY <3>1, <3>3, Zenon DEF TurnTo
  <2> QED
    BY <2>3, <2>4, <1>1, <1>6
<1> QED
  BY <1>5, <1>6

\* A well-formed mask is one of a connection.
LEMMA WellFormedEack == ASSUME NEW e, WellFormed(e) PROVE e \in Eack
  BY DEF WellFormed, Eack

\* Shifting the mask changes nothing else.
LEMMA ShiftStep ==
  ASSUME NEW n, NEW s, StepT(n, s), WellFormed(s.c.eack)
  PROVE  LET t == ShiftedStep(s)
         IN  /\ StepT(n, t) /\ RcvOnly(s.c, t.c) /\ t.c.CUR = s.c.CUR /\ t.c.rLCS = s.c.rLCS
             /\ t.c.rbuf = s.c.rbuf /\ t.c.eack = ShiftRcvMsk(s.c.eack)
             /\ t.a = s.a /\ t.out = s.out /\ t.o = s.o /\ t.ok = s.ok
<1>1. PICK e : e = ShiftRcvMsk(s.c.eack)
  OBVIOUS
<1>2. e \in Eack
  BY <1>1, ShiftAnnounces, WellFormedEack
<1>3. PICK t : t = ShiftedStep(s)
  OBVIOUS
<1>4. t = [s EXCEPT !.c.eack = e]
  BY <1>1, <1>3 DEF ShiftedStep
<1>5. Shape(s)
  BY DEF StepT
<1>6. /\ Shape(t) /\ t.c = [s.c EXCEPT !.eack = e] /\ t.a = s.a /\ t.jam = s.jam /\ t.out = s.out
      /\ t.o = s.o /\ t.ok = s.ok /\ t.broken = s.broken
  BY <1>4, <1>5 DEF Shape
<1>7. s.c \in Conn
  BY DEF StepT
<1>8. t.c \in Conn
  BY <1>2, <1>6, <1>7 DEF Conn
<1>9. RcvOnly(s.c, t.c) /\ t.c.CUR = s.c.CUR /\ t.c.rLCS = s.c.rLCS /\ t.c.rbuf = s.c.rbuf /\ t.c.eack = e
  BY <1>6, <1>7 DEF Conn, RcvOnly
<1>10. StepT(n, t)
  BY <1>6, <1>8 DEF StepT
<1> QED
  BY <1>1, <1>3, <1>6, <1>9, <1>10

\* The fragments that the delivery of the message in buffers i .. hands out.
Handed(c, i, fcnt) == [k \in 1 .. fcnt |-> c.rbuf[(i + k - 1) % SegMax].data]

\* t is s after the delivery of the message in buffers i ..
AfterDelivery(n, s, t, i, fcnt) ==
  /\ StepT(n, t) /\ RcvOnly(s.c, t.c) /\ t.c.CUR = s.c.CUR /\ t.c.rLCS = s.c.rLCS
  /\ Delivering(s.c, t.c, Follow(i, fcnt)) /\ t.c.eack = s.c.eack
  /\ t.a.rcvd = Append(s.a.rcvd, Handed(s.c, i, fcnt)) /\ t.a.held = Append(s.a.held, i)
  /\ RcvdApp(s.a, t.a) /\ t.out = s.out /\ t.o = s.o /\ t.ok = s.ok

\* What a delivery changes.
LEMMA DeliverStep ==
  ASSUME NEW n, NEW s, StepT(n, s), NEW b, NEW i \in Ring, Idx(b.som) = i, s.c.rbuf[i].fcnt = b.fcnt,
         Handed(s.c, i, b.fcnt) \in Seq(Nat \X Nat)
  PROVE  AfterDelivery(n, s, DeliveredStep(s, b), i, b.fcnt)
<1>1. Shape(s) /\ s.c \in Conn /\ AppT(n, s.a)
  BY DEF StepT
<1>2. PICK G : G = Follow(i, b.fcnt)
  OBVIOUS
<1>3. PICK ring : ring = [j \in Ring |-> IF j \in G THEN [s.c.rbuf[j] EXCEPT !.delivered = TRUE] ELSE s.c.rbuf[j]]
  OBVIOUS
<1>4. PICK x \in Seq(Nat \X Nat) : x = Handed(s.c, i, b.fcnt)
  OBVIOUS
<1>5. PICK u : u = RecvCb(s, i)
  OBVIOUS
<1>6. u = [s EXCEPT !.a.rcvd = Append(s.a.rcvd, x), !.a.held = Append(s.a.held, i)]
  <2>1. u = [s EXCEPT !.a.rcvd = Append(@, Handed(s.c, i, s.c.rbuf[i].fcnt)), !.a.held = Append(@, i)]
    BY <1>5, Zenon DEF RecvCb, Handed
  <2>2. u = [s EXCEPT !.a.rcvd = Append(@, x), !.a.held = Append(@, i)]
    BY <2>1, <1>4
  <2> QED
    BY <2>2, <1>1 DEF Shape, AppT
<1>7. PICK e : e = [s.a EXCEPT !.rcvd = Append(s.a.rcvd, x), !.held = Append(s.a.held, i)]
  OBVIOUS
<1>8. /\ Shape(u) /\ u.c = s.c /\ u.a = e /\ u.jam = s.jam /\ u.out = s.out
      /\ u.o = s.o /\ u.ok = s.ok /\ u.broken = s.broken
  BY <1>1, <1>6, <1>7 DEF Shape, AppT
<1>9. Append(s.a.rcvd, x) \in Seq(Seq(Nat \X Nat)) /\ Append(s.a.held, i) \in Seq(Ring)
  <2>1. s.a.rcvd \in Seq(Seq(Nat \X Nat)) /\ s.a.held \in Seq(Ring)
    BY <1>1 DEF AppT
  <2> QED
    BY <2>1, AppendProperties
<1>10. /\ e.rcvd = Append(s.a.rcvd, x) /\ e.held = Append(s.a.held, i) /\ RcvdApp(s.a, e) /\ AppT(n, e)
  <2>1. PICK R \in Seq(Seq(Nat \X Nat)) : R = Append(s.a.rcvd, x)
    BY <1>9
  <2>2. PICK H \in Seq(Ring) : H = Append(s.a.held, i)
    BY <1>9
  <2>3. e = [s.a EXCEPT !.rcvd = R, !.held = H]
    BY <1>7, <2>1, <2>2
  <2>4. e.rcvd = R /\ e.held = H /\ RcvdApp(s.a, e)
    BY <2>3, <1>1 DEF AppT, RcvdApp
  <2>5. AppT(n, e)
    BY <2>3, <1>1 DEF AppT
  <2> QED
    BY <2>1, <2>2, <2>4, <2>5
<1>11. PICK t : t = DeliveredStep(s, b)
  OBVIOUS
<1>12. t = [u EXCEPT !.c.rbuf = ring]
  <2>1. t = [u EXCEPT !.c.rbuf = [j \in Ring |-> IF j \in G THEN [@[j] EXCEPT !.delivered = TRUE] ELSE @[j]]]
    BY <1>2, <1>5, <1>11, Zenon DEF DeliveredStep
  <2> QED
    BY <2>1, <1>1, <1>3, <1>8 DEF Shape, Conn
<1>13. /\ Shape(t) /\ t.c = [s.c EXCEPT !.rbuf = ring] /\ t.a = e /\ t.jam = s.jam /\ t.out = s.out
       /\ t.o = s.o /\ t.ok = s.ok /\ t.broken = s.broken
  BY <1>8, <1>12 DEF Shape
<1>14. ring \in [Ring -> RcvBuf]
  <2>1. s.c.rbuf \in [Ring -> RcvBuf]
    BY <1>1 DEF Conn
  <2>2. ASSUME NEW j \in Ring PROVE ring[j] \in RcvBuf
    <3>1. PICK bf \in RcvBuf : bf = s.c.rbuf[j]
      BY <2>1
    <3>2. [bf EXCEPT !.delivered = TRUE] \in RcvBuf
      BY DEF RcvBuf
    <3> QED
      BY <3>1, <3>2, <1>3
  <2> QED
    BY <2>2, <1>3
<1>15. t.c \in Conn
  BY <1>1, <1>13, <1>14 DEF Conn
<1>16. RcvOnly(s.c, t.c) /\ t.c.CUR = s.c.CUR /\ t.c.rLCS = s.c.rLCS /\ t.c.eack = s.c.eack /\ t.c.rbuf = ring
  BY <1>1, <1>13 DEF Conn, RcvOnly
<1>17. Delivering(s.c, t.c, G)
  <2>1. ASSUME NEW j \in Ring
        PROVE  /\ ring[j].inUse = s.c.rbuf[j].inUse /\ ring[j].seq = s.c.rbuf[j].seq
               /\ ring[j].som = s.c.rbuf[j].som /\ ring[j].fcnt = s.c.rbuf[j].fcnt
               /\ ring[j].ttl = s.c.rbuf[j].ttl /\ ring[j].data = s.c.rbuf[j].data
               /\ ring[j].delivered <=> s.c.rbuf[j].delivered \/ j \in G
    <3>1. PICK bf \in RcvBuf : bf = s.c.rbuf[j]
      BY <1>1 DEF Conn
    <3>2. ring[j] = IF j \in G THEN [bf EXCEPT !.delivered = TRUE] ELSE bf
      BY <3>1, <1>3
    <3>3. CASE j \in G
      BY <3>1, <3>2, <3>3 DEF RcvBuf
    <3>4. CASE j \notin G
      BY <3>1, <3>2, <3>4 DEF RcvBuf
    <3> QED
      BY <3>3, <3>4
  <2> QED
    BY <2>1, <1>16 DEF Delivering
<1>18. StepT(n, t)
  BY <1>10, <1>13, <1>15 DEF StepT
<1> QED
  BY <1>2, <1>4, <1>10, <1>11, <1>13, <1>16, <1>17, <1>18 DEF AfterDelivery

\* The buffers of the message that begins at D, up to position X.
Fragments(p, c, m, D, X) ==
  \A y \in D .. X :
     LET bf == c.rbuf[Slot(p, y)]
     IN  /\ bf.seq = SeqAt(p, y) /\ bf.data = <<m, y - D>>
         /\ bf.som = SeqAt(p, D) /\ bf.fcnt = Msgs[p][m].fcnt

\* A buffer is the last of its message when its position is.
LEMMA LastIs ==
  ASSUME Fits, NEW p \in Node, NEW m \in 1 .. Count(p), NEW D \in Nat, D = First(p, m), NEW c,
         NEW x \in First(p, m) .. First(p, m + 1) - 1, Fragments(p, c, m, D, x)
  PROVE  LastFragment(c.rbuf[Slot(p, x)]) <=> x = First(p, m + 1) - 1
<1>1. PICK X \in Nat, Z \in Nat, T \in Nat :
            /\ X = First(p, m) /\ Z = Final(p, m) /\ T = Total(p)
            /\ 1 <= X /\ X <= Z /\ Z < X + SegMax /\ Z < T /\ T + SegMax < Half
            /\ Z \in First(p, m) .. First(p, m + 1) - 1
            /\ First(p, m + 1) = Z + 1
  BY MessageSpan
<1>2. PICK g \in Nat : g = Msgs[p][m].fcnt /\ g >= 1 /\ X + g = Z + 1
  <2>1. Msgs[p][m].fcnt \in 1 .. SegMax /\ First(p, m + 1) = First(p, m) + Msgs[p][m].fcnt
    BY Message
  <2>2. PICK g \in 1 .. SegMax : g = Msgs[p][m].fcnt
    BY <2>1
  <2> QED
    BY <2>1, <2>2, <1>1
<1>3. x \in X .. Z /\ x \in Nat
  BY <1>1
<1>4. Half \in Nat /\ Half + Half = SeqSpace
  BY FirstIs
<1>5. PICK bf : bf = c.rbuf[Slot(p, x)]
  OBVIOUS
<1>6. bf.seq = SeqAt(p, x) /\ bf.som = SeqAt(p, X) /\ bf.fcnt = g
  BY <1>1, <1>2, <1>3, <1>5 DEF Fragments
<1>7. SeqAt(p, x) \in Seqs /\ Pos(p, SeqAt(p, x)) = x
  <2>1. x \in 0 .. SeqSpace - 1
    BY <1>1, <1>3, <1>4
  <2> QED
    BY <2>1, AtPos
<1>8. SeqAt(p, X) \in Seqs /\ Pos(p, SeqAt(p, X)) = X
  <2>1. X \in 0 .. SeqSpace - 1
    BY <1>1, <1>4
  <2> QED
    BY <2>1, AtPos
<1>9. PICK h \in Nat : h = g - 1 /\ X + h = Z
  BY <1>2
<1>10. Plus(SeqAt(p, X), h) \in Seqs /\ Pos(p, Plus(SeqAt(p, X), h)) = Z
  <2>1. X + h < SeqSpace
    BY <1>1, <1>4, <1>9
  <2>2. Plus(SeqAt(p, X), h) \in Seqs /\ Pos(p, Plus(SeqAt(p, X), h)) = X + h
    BY <2>1, <1>8, PosPlus
  <2> QED
    BY <2>2, <1>9
<1>11. SeqAt(p, x) = Plus(SeqAt(p, X), h) <=> x = Z
  <2>1. Pos(p, SeqAt(p, x)) = Pos(p, Plus(SeqAt(p, X), h)) <=> SeqAt(p, x) = Plus(SeqAt(p, X), h)
    BY <1>7, <1>10, PosEq
  <2> QED
    BY <2>1, <1>7, <1>10
<1>12. LastFragment(bf) <=> x = Z
  BY <1>6, <1>9, <1>11 DEF LastFragment
<1>13. First(p, m + 1) - 1 = Z
  BY <1>1
<1> QED
  BY <1>5, <1>12, <1>13

\* What a delivery hands out is the message.
LEMMA HandedIs ==
  ASSUME Fits, NEW p \in Node, NEW m \in 1 .. Count(p), NEW D \in Nat, D = First(p, m), NEW c,
         Fragments(p, c, m, D, First(p, m + 1) - 1)
  PROVE  /\ Handed(c, Slot(p, D), Msgs[p][m].fcnt) = FragsOf(p, m) /\ FragsOf(p, m) \in Seq(Nat \X Nat)
         /\ Slot(p, D) \in Ring
<1>1. PICK X \in Nat, Z \in Nat, T \in Nat :
            /\ X = First(p, m) /\ Z = Final(p, m) /\ T = Total(p)
            /\ 1 <= X /\ X <= Z /\ Z < X + SegMax /\ Z < T /\ T + SegMax < Half
            /\ Z \in First(p, m) .. First(p, m + 1) - 1
            /\ First(p, m + 1) = Z + 1
  BY MessageSpan
<1>2. PICK g \in Nat : g = Msgs[p][m].fcnt /\ X + g = Z + 1
  <2>1. Msgs[p][m].fcnt \in 1 .. SegMax /\ First(p, m + 1) = First(p, m) + Msgs[p][m].fcnt
    BY Message
  <2>2. PICK g \in 1 .. SegMax : g = Msgs[p][m].fcnt
    BY <2>1
  <2> QED
    BY <2>1, <2>2, <1>1
<1>3. ASSUME NEW k \in 1 .. g PROVE c.rbuf[(Slot(p, X) + k - 1) % SegMax].data = <<m, k - 1>>
  <2>1. PICK j \in Nat : j = k - 1 /\ X + j <= Z
    BY <1>2
  <2>2. X + j <= Total(p) + SegMax
    BY <2>1, <1>1
  <2>3. (Slot(p, X) + j) % SegMax = Slot(p, X + j)
    BY <2>2, SlotNext
  <2>4. Slot(p, X) + k - 1 = Slot(p, X) + j
    <3>1. PICK i \in Ring : i = Slot(p, X)
      BY <1>1, PosnIs
    <3>2. i + k - 1 = i + j
      BY <2>1 DEF Ring
    <3> QED
      BY <3>1, <3>2
  <2>5. X + j \in X .. Z /\ (X + j) - X = j
    BY <2>1
  <2>6. c.rbuf[Slot(p, X + j)].data = <<m, (X + j) - X>>
    <3>1. First(p, m + 1) - 1 = Z
      BY <1>1
    <3>2. X + j \in D .. First(p, m + 1) - 1
      BY <3>1, <2>5, <1>1
    <3> QED
      BY <3>2, <1>1 DEF Fragments
  <2> QED
    BY <2>1, <2>3, <2>4, <2>5, <2>6
<1>4. Handed(c, Slot(p, X), g) = [k \in 1 .. g |-> <<m, k - 1>>]
  BY <1>3 DEF Handed
<1>5. FragsOf(p, m) = [k \in 1 .. g |-> <<m, k - 1>>]
  BY <1>2 DEF FragsOf
<1>6. FragsOf(p, m) \in Seq(Nat \X Nat)
  <2>0. m \in Nat
    <3>1. Count(p) \in Nat
      BY FirstIs
    <3> QED
      BY <3>1
  <2>1. \A k \in 1 .. g : <<m, k - 1>> \in Nat \X Nat
    BY <2>0
  <2>2. FragsOf(p, m) \in [1 .. g -> Nat \X Nat]
    BY <2>1, <1>5
  <2> QED
    BY <2>2
<1>7. Slot(p, D) \in Ring
  BY PosnIs, <1>1
<1> QED
  BY <1>1, <1>2, <1>4, <1>5, <1>6, <1>7

\* Behind the last segment in order there is no delivered one.
LEMMA NextMore ==
  ASSUME Fits, NEW p \in Node, NEW c, NEW a, NEW sub \in 0 .. Count(p), NEW C \in Nat,
         NEW r \in Nat, NEW W \in Nat, NEW D \in Nat, Reach(p, a, sub, r, W, D),
         RcvParts(p, c, sub, r, W, D, C)
  PROVE  LET bf == c.rbuf[Slot(p, C + 1)]
         IN  /\ C + 1 <= W + SegMax => ~bf.delivered
             /\ ~(C + 1 <= W + SegMax) => C = W + SegMax /\ bf.delivered
<1>1. RcvFront(p, sub, r, W, D, C) /\ RcvRing(p, c, sub, W, D, C)
  BY DEF RcvParts
<1>2. W + 1 <= D /\ D - 1 <= C /\ C <= W + SegMax /\ D = First(p, r + 1) /\ r <= sub
  BY <1>1 DEF Reach, RcvFront
<1>3. ASSUME C + 1 <= W + SegMax PROVE ~c.rbuf[Slot(p, C + 1)].delivered
  <2>1. C + 1 \in W + 1 .. W + SegMax /\ ~(C + 1 < D)
    BY <1>2, <1>3
  <2>2. RcvBufOK(p, c.rbuf[Slot(p, C + 1)], sub, D, C, C + 1)
    BY <2>1, <1>1 DEF RcvRing
  <2> QED
    BY <2>1, <2>2 DEF RcvBufOK
<1>4. ASSUME ~(C + 1 <= W + SegMax) PROVE C = W + SegMax /\ c.rbuf[Slot(p, C + 1)].delivered
  <2>1. C = W + SegMax /\ C + 1 = (W + 1) + SegMax
    BY <1>2, <1>4
  <2>2. W + 1 < D
    <3> SUFFICES ASSUME D <= W + 1 PROVE FALSE
      BY <1>2
    <3>1. D = W + 1
      BY <1>2
    <3>2. CASE r < sub
      <4>1. PICK N \in Nat : N = Count(p)
        BY FirstIs
      <4>2. r + 1 \in 1 .. Count(p)
        BY <3>2, <4>1
      <4>3. Msgs[p][r + 1].fcnt \in 1 .. SegMax /\ First(p, (r + 1) + 1) = First(p, r + 1) + Msgs[p][r + 1].fcnt
        BY <4>2, Message
      <4>4. PICK g \in 1 .. SegMax : g = Msgs[p][r + 1].fcnt
        BY <4>3
      <4>5. First(p, r + 2) = D + g
        <5>1. (r + 1) + 1 = r + 2
          OBVIOUS
        <5> QED
          BY <5>1, <4>3, <4>4, <1>2
      <4>6. C < First(p, r + 2) - 1
        BY <3>2, <1>1 DEF RcvFront
      <4> QED
        BY <4>4, <4>5, <4>6, <3>1, <2>1
    <3>3. CASE ~(r < sub)
      <4>1. C = D - 1
        BY <3>3, <1>1 DEF RcvFront
      <4> QED
        BY <4>1, <3>1, <2>1
    <3> QED
      BY <3>2, <3>3
  <2>3. Slot(p, C + 1) = Slot(p, W + 1)
    <3>1. PICK T \in Nat : T = Total(p) /\ D <= T
      BY WindowSlot
    <3>2. (W + 1) + SegMax <= Total(p) + SegMax /\ W + 1 \in 0 .. Total(p) + SegMax
      BY <3>1, <2>2
    <3>3. (Slot(p, W + 1) + SegMax) % SegMax = Slot(p, (W + 1) + SegMax)
      BY <3>2, SlotNext
    <3>4. PICK i \in Nat : i = Slot(p, W + 1) /\ i < SegMax
      BY <3>2, SlotIs DEF Ring
    <3>5. (i + SegMax) % SegMax = i
      <4>1. SegMax % SegMax = 0
        OBVIOUS
      <4>0. PICK j \in Nat : j = i + SegMax /\ SegMax <= j /\ j - SegMax = i
        OBVIOUS
      <4>2. i % SegMax = (i + SegMax) % SegMax
        <5>1. SegMax \in Nat /\ SegMax \in Nat \ {0}
          OBVIOUS
        <5>2. (j - SegMax) % SegMax = j % SegMax
          BY <5>1, <4>0, <4>1, ModMultiple
        <5> QED
          BY <5>2, <4>0
      <4>3. i % SegMax = i
        BY <3>4
      <4> QED
        BY <4>2, <4>3
    <3> QED
      BY <3>3, <3>4, <3>5, <2>1
  <2>4. W + 1 \in W + 1 .. W + SegMax
    OBVIOUS
  <2>5. RcvBufOK(p, c.rbuf[Slot(p, W + 1)], sub, D, C, W + 1)
    BY <2>4, <1>1 DEF RcvRing
  <2> QED
    BY <2>1, <2>2, <2>3, <2>5 DEF RcvBufOK
<1> QED
  BY <1>3, <1>4

\* u is s with more received and delivered, and everything up to C in order.
AdvAt(n, s, u, sub, W, C) ==
  /\ StepT(n, u) /\ RcvOnly(s.c, u.c) /\ u.c.CUR = s.c.CUR /\ u.c.rLCS = s.c.rLCS
  /\ RcvdApp(s.a, u.a) /\ Len(s.a.rcvd) <= Len(u.a.rcvd)
  /\ u.out = s.out /\ u.o = s.o /\ u.ok = s.ok
  /\ RcvApp(Peer(n), u.a, sub)
  /\ \E r \in Nat, D \in Nat : Reach(Peer(n), u.a, sub, r, W, D) /\ RcvParts(Peer(n), u.c, sub, r, W, D, C)

\* The locals of the loop of AdvanceRcvQueue, when everything up to C is in order.
AdvLoc(p, q, W, C) ==
  /\ ~q.isExpiring /\ q.i = Slot(p, C + 1) /\ q.seq = SeqAt(p, C + 1)
  /\ q.more => C + 1 <= W + SegMax /\ q.s.c.rbuf[Slot(p, C + 1)].inUse
  /\ ~q.more /\ C < W + SegMax => ~q.s.c.rbuf[Slot(p, C + 1)].inUse

Adv(n, s, q, sub, W, C) == AdvAt(n, s, q.s, sub, W, C) /\ AdvLoc(Peer(n), q, W, C)

\* A turn of the loop puts one more segment in order.
LEMMA AdvanceOneStep ==
  ASSUME Fits, NEW n \in Node, NEW s, NEW sub \in 0 .. Count(Peer(n)), NEW W \in Nat, NEW C \in Nat,
         NEW q, NEW late, Adv(n, s, q, sub, W, C), q.more
  PROVE  Adv(n, s, AdvanceOne(q, late), sub, W, C + 1)
<1>p. PICK p \in Node : p = Peer(n)
  BY PeerNode
<1>u. PICK u : u = q.s
  OBVIOUS
<1>1. StepT(n, u) /\ RcvOnly(s.c, u.c) /\ u.c.CUR = s.c.CUR /\ u.c.rLCS = s.c.rLCS
      /\ RcvdApp(s.a, u.a) /\ Len(s.a.rcvd) <= Len(u.a.rcvd)
      /\ u.out = s.out /\ u.o = s.o /\ u.ok = s.ok /\ RcvApp(p, u.a, sub) /\ u.c \in Conn /\ AppT(n, u.a)
  BY <1>p, <1>u DEF Adv, AdvAt, StepT
<1>2. PICK r \in Nat, D \in Nat : Reach(p, u.a, sub, r, W, D) /\ RcvParts(p, u.c, sub, r, W, D, C)
  BY <1>p, <1>u DEF Adv, AdvAt
<1>3. ~q.isExpiring /\ q.i = Slot(p, C + 1) /\ q.seq = SeqAt(p, C + 1) /\ C + 1 <= W + SegMax
      /\ u.c.rbuf[Slot(p, C + 1)].inUse
  BY <1>p, <1>u DEF Adv, AdvLoc
<1>s. sub \in 0 .. Count(p)
  BY <1>p
<1>4. Pos(p, u.c.rLCS) = W /\ RcvFront(p, sub, r, W, D, C) /\ RcvRing(p, u.c, sub, W, D, C)
      /\ (\A i \in Ring : u.c.rbuf[i].ttl = "inf") /\ RcvMask(p, u.c, W, C)
  BY <1>2 DEF RcvParts
<1>5. /\ r < sub /\ r + 1 \in 1 .. Count(p) /\ C + 1 < First(p, r + 2)
      /\ \A y \in D .. C + 1 :
            LET bf == u.c.rbuf[Slot(p, y)]
            IN  /\ bf.inUse /\ ~bf.delivered /\ bf.seq = SeqAt(p, y) /\ bf.data = <<r + 1, y - D>>
                /\ bf.som = SeqAt(p, D) /\ bf.fcnt = Msgs[p][r + 1].fcnt
  <2>1. Waits(p, u.c, sub, r, D, C)
    BY <1>2, <1>3, <1>4, <1>s, Waiting
  <2> QED
    BY <2>1 DEF Waits
<1>6. PICK m \in 1 .. Count(p) : m = r + 1
  BY <1>5
<1>7. D = First(p, m) /\ W + 1 <= D /\ D - 1 <= C /\ m + 1 = r + 2
  BY <1>2, <1>4, <1>6 DEF Reach, RcvFront
<1>8. PICK x \in Nat : x = C + 1
  OBVIOUS
<1>9. Fragments(p, u.c, m, D, x)
  BY <1>5, <1>6, <1>8 DEF Fragments
<1>10. x \in First(p, m) .. First(p, m + 1) - 1
  <2>1. PICK E \in Nat : E = First(p, m + 1)
    <3>1. m + 1 \in Nat
      BY <1>6
    <3> QED
      BY <3>1, FirstIs
  <2>2. x < E /\ D <= x
    BY <1>5, <1>7, <1>8, <2>1
  <2> QED
    BY <2>1, <2>2, <1>7
<1>11. x \in Nat /\ x \in 0 .. SeqSpace - 1 /\ x < Half /\ x <= Total(p) /\ x \in 0 .. Total(p) + SegMax
       /\ Slot(p, x) \in Ring /\ SeqAt(p, x) \in Seqs /\ Pos(p, SeqAt(p, x)) = x
  BY <1>10, PosnIs
<1>12. Minus(q.seq, q.s.c.rLCS) <= SegMax
  <2>1. u.c.rLCS \in Seqs
    BY <1>1 DEF Conn
  <2>2. Minus(SeqAt(p, x), u.c.rLCS) = IF Pos(p, SeqAt(p, x)) >= Pos(p, u.c.rLCS)
          THEN Pos(p, SeqAt(p, x)) - Pos(p, u.c.rLCS)
          ELSE (Pos(p, SeqAt(p, x)) + SeqSpace) - Pos(p, u.c.rLCS)
    BY <2>1, <1>11, PosMinus
  <2>3. Minus(SeqAt(p, x), u.c.rLCS) = x - W
    <3>1. x >= W
      BY <1>7, <1>8
    <3> QED
      BY <3>1, <2>2, <1>4, <1>11
  <2>4. x - W <= SegMax
    BY <1>3, <1>8
  <2> QED
    BY <2>3, <2>4, <1>3, <1>8, <1>u
<1>13. PICK s1 : s1 = ShiftedStep(u)
  OBVIOUS
<1>14. /\ StepT(n, s1) /\ RcvOnly(u.c, s1.c) /\ s1.c.CUR = u.c.CUR /\ s1.c.rLCS = u.c.rLCS
       /\ s1.c.rbuf = u.c.rbuf /\ s1.c.eack = ShiftRcvMsk(u.c.eack)
       /\ s1.a = u.a /\ s1.out = u.out /\ s1.o = u.o /\ s1.ok = u.ok
  <2>1. WellFormed(u.c.eack)
    BY <1>4 DEF RcvMask
  <2> QED
    BY <2>1, <1>1, <1>13, ShiftStep
<1>15. PICK bf : bf = u.c.rbuf[Slot(p, x)]
  OBVIOUS
<1>16. bf.ttl = "inf" /\ bf.som = SeqAt(p, D) /\ bf.fcnt = Msgs[p][m].fcnt
  <2>1. x \in D .. C + 1
    BY <1>7, <1>8
  <2> QED
    BY <2>1, <1>4, <1>5, <1>6, <1>11, <1>15
<1>17. PICK z : z = AdvanceOne(q, late)
  OBVIOUS
<1>18. TurnTo(z, q, IF LastFragment(bf) THEN DeliveredStep(s1, bf) ELSE s1)
  <2>1. bf = ShiftedStep(q.s).c.rbuf[q.i]
    BY <1>3, <1>8, <1>13, <1>14, <1>15, <1>u
  <2>2. TurnTo(AdvanceOne(q, late), q, IF LastFragment(bf) THEN DeliveredStep(ShiftedStep(q.s), bf) ELSE ShiftedStep(q.s))
    BY <2>1, <1>3, <1>12, <1>16, TurnIs
  <2> QED
    BY <2>2, <1>13, <1>17, <1>u
<1>19. LastFragment(bf) <=> x = First(p, m + 1) - 1
  BY <1>7, <1>9, <1>10, <1>15, LastIs
<1>20. ASSUME NEW v, NEW k \in Nat, NEW E \in Nat, z.s = v, TurnTo(z, q, v), Reach(p, v.a, sub, k, W, E),
              RcvParts(p, v.c, sub, k, W, E, C + 1)
       PROVE  AdvLoc(p, z, W, C + 1)
  <2>1. (C + 1) + 1 = x + 1 /\ x = C + 1
    BY <1>8
  <2>2. z.i = Slot(p, x + 1)
    <3>1. x + 1 <= Total(p) + SegMax
      <4>1. PICK T \in Nat : T = Total(p) /\ x <= T
        BY <1>11, FirstIs
      <4> QED
        BY <4>1
    <3>2. (Slot(p, x) + 1) % SegMax = Slot(p, x + 1)
      BY <3>1, SlotNext
    <3> QED
      BY <3>2, <1>3, <1>8, <1>20 DEF TurnTo
  <2>3. z.seq = SeqAt(p, x + 1)
    <3>1. z.seq = Plus(SeqAt(p, x), 1)
      BY <1>3, <1>8, <1>20 DEF TurnTo
    <3>2. PICK T \in Nat : T = Total(p) /\ T + SegMax < Half /\ Half \in Nat /\ Half + Half = SeqSpace
      BY FirstIs
    <3>3. x + 1 \in 0 .. SeqSpace - 1 /\ x + 1 < SeqSpace
      BY <3>2, <1>11
    <3>4. Plus(SeqAt(p, x), 1) \in Seqs /\ Pos(p, Plus(SeqAt(p, x), 1)) = x + 1
      <4>1. Pos(p, SeqAt(p, x)) + 1 < SeqSpace
        BY <3>3, <1>11
      <4>2. Plus(SeqAt(p, x), 1) \in Seqs /\ Pos(p, Plus(SeqAt(p, x), 1)) = Pos(p, SeqAt(p, x)) + 1
        BY <4>1, <1>11, PosPlus
      <4> QED
        BY <4>2, <1>11
    <3>5. SeqAt(p, Pos(p, Plus(SeqAt(p, x), 1))) = Plus(SeqAt(p, x), 1)
      BY <3>4, PosOf
    <3> QED
      BY <3>1, <3>4, <3>5
  <2>4. PICK df : df = v.c.rbuf[Slot(p, x + 1)]
    OBVIOUS
  <2>5. z.more <=> df.inUse /\ ~df.delivered
    BY <2>2, <2>4, <1>20, Zenon DEF TurnTo
  <2>6. /\ x + 1 <= W + SegMax => ~df.delivered
        /\ ~(x + 1 <= W + SegMax) => x = W + SegMax /\ df.delivered
    <3>1. RcvParts(p, v.c, sub, k, W, E, x)
      BY <1>20, <2>1
    <3> QED
      BY <3>1, <2>4, <1>20, <1>s, NextMore
  <2>7. ~z.isExpiring
    BY <1>20 DEF TurnTo
  <2>8. z.more => x + 1 <= W + SegMax /\ df.inUse
    BY <2>5, <2>6, Zenon
  <2>9. ~z.more /\ x < W + SegMax => ~df.inUse
    <3>1. x < W + SegMax => x + 1 <= W + SegMax
      OBVIOUS
    <3> QED
      BY <3>1, <2>5, <2>6, Zenon
  <2>10. AdvLoc(p, z, W, x)
    BY <2>2, <2>3, <2>4, <2>7, <2>8, <2>9, <1>20 DEF AdvLoc
  <2> QED
    BY <2>10, <2>1
<1>21. CASE ~LastFragment(bf)
  <2>1. z.s = s1 /\ TurnTo(z, q, s1)
    BY <1>18, <1>21 DEF TurnTo
  <2>2. RcvParts(p, s1.c, sub, r, W, D, C + 1)
    <3>1. C + 1 # First(p, r + 2) - 1
      BY <1>7, <1>8, <1>19, <1>21
    <3> QED
      BY <3>1, <1>2, <1>3, <1>14, <1>s, FrontMoves
  <2>3. Reach(p, s1.a, sub, r, W, D)
    BY <1>2, <1>14
  <2>4. AdvLoc(p, z, W, C + 1)
    BY <2>1, <2>2, <2>3, <1>20
  <2>5. RcvOnly(s.c, s1.c)
    BY <1>1, <1>14 DEF RcvOnly
  <2>6. AdvAt(n, s, s1, sub, W, C + 1)
    BY <2>2, <2>3, <2>5, <1>1, <1>14, <1>p DEF AdvAt
  <2> QED
    BY <2>1, <2>4, <2>6, <1>17, <1>p DEF Adv
<1>22. CASE LastFragment(bf)
  <2>0. x = First(p, m + 1) - 1
    BY <1>19, <1>22
  <2>1. /\ Handed(u.c, Slot(p, D), Msgs[p][m].fcnt) = FragsOf(p, m) /\ FragsOf(p, m) \in Seq(Nat \X Nat)
        /\ Slot(p, D) \in Ring
    <3>1. Fragments(p, u.c, m, D, First(p, m + 1) - 1)
      BY <1>9, <2>0
    <3> QED
      BY <3>1, <1>7, HandedIs
  <2>2. PICK i \in Ring : i = Slot(p, D)
    BY <2>1
  <2>3. Idx(bf.som) = i /\ s1.c.rbuf[i].fcnt = bf.fcnt
    <3>1. D \in D .. C + 1
      BY <1>7
    <3>2. u.c.rbuf[Slot(p, D)].fcnt = Msgs[p][r + 1].fcnt
      BY <3>1, <1>5
    <3> QED
      BY <3>2, <2>2, <1>6, <1>14, <1>16 DEF Slot
  <2>4. Handed(s1.c, i, bf.fcnt) = FragsOf(p, m)
    BY <2>1, <2>2, <1>14, <1>16 DEF Handed
  <2>5. PICK t : t = DeliveredStep(s1, bf)
    OBVIOUS
  <2>6. /\ StepT(n, t) /\ RcvOnly(s1.c, t.c) /\ t.c.CUR = s1.c.CUR /\ t.c.rLCS = s1.c.rLCS
        /\ Delivering(s1.c, t.c, Follow(i, bf.fcnt)) /\ t.c.eack = s1.c.eack
        /\ t.a.rcvd = Append(s1.a.rcvd, Handed(s1.c, i, bf.fcnt)) /\ t.a.held = Append(s1.a.held, i)
        /\ RcvdApp(s1.a, t.a) /\ t.out = s1.out /\ t.o = s1.o /\ t.ok = s1.ok
    <3>1. Handed(s1.c, i, bf.fcnt) \in Seq(Nat \X Nat)
      BY <2>1, <2>4
    <3>2. AfterDelivery(n, s1, t, i, bf.fcnt)
      BY <3>1, <2>3, <2>5, <1>14, DeliverStep
    <3> QED
      BY <3>2 DEF AfterDelivery
  <2>7. Follow(i, bf.fcnt) = {Slot(p, y) : y \in D .. C + 1}
    <3>1. Follow(Slot(p, First(p, m)), Msgs[p][m].fcnt) = {Slot(p, y) : y \in First(p, m) .. First(p, m + 1) - 1}
      BY MessageFollow
    <3> QED
      BY <3>1, <2>0, <2>2, <1>7, <1>8, <1>16
  <2>8. Delivery(p, u.a, t.a, r, D)
    BY <2>2, <2>4, <2>6, <1>6, <1>14 DEF Delivery
  <2>9. /\ t.a.rcvd \in Seq(Seq(Nat \X Nat)) /\ t.a.held \in Seq(Ring)
        /\ RcvApp(p, t.a, sub) /\ Reach(p, t.a, sub, r + 1, W, First(p, r + 2)) /\ Len(t.a.rcvd) = r + 1
    <3>1. u.a.rcvd \in Seq(Seq(Nat \X Nat)) /\ u.a.held \in Seq(Ring) /\ u.a.consumed \in Nat
      BY <1>1 DEF AppT
    <3>2. DeliveredApp(p, t.a, sub, r, W)
      BY <3>1, <2>1, <2>8, <1>1, <1>2, <1>5, <1>s, AppDelivers
    <3> QED
      BY <3>2 DEF DeliveredApp
  <2>10. C + 2 = First(p, r + 2)
    <3>0. r + 2 \in Nat
      OBVIOUS
    <3>1. PICK E \in Nat : E = First(p, r + 2)
      BY <3>0, FirstIs
    <3>2. x = E - 1
      BY <3>1, <2>0, <1>7
    <3> QED
      BY <3>1, <3>2, <1>8
  <2>11. RcvParts(p, t.c, sub, r + 1, W, C + 2, C + 1)
    <3>1. Delivering(u.c, t.c, {Slot(p, y) : y \in D .. C + 1})
      BY <2>6, <2>7, <1>14 DEF Delivering
    <3>2. C + 1 = First(p, r + 2) - 1
      BY <2>0, <1>7, <1>8
    <3>3. t.c.eack = ShiftRcvMsk(u.c.eack) /\ t.c.rLCS = u.c.rLCS
      BY <2>6, <1>14
    <3> QED
      BY <3>1, <3>2, <3>3, <1>2, <1>3, <1>s, FrontDelivers
  <2>12. z.s = t /\ TurnTo(z, q, t)
    BY <2>5, <1>18, <1>22 DEF TurnTo
  <2>13. r + 1 \in Nat /\ C + 2 \in Nat /\ Reach(p, t.a, sub, r + 1, W, C + 2)
    BY <2>9, <2>10
  <2>14. AdvLoc(p, z, W, C + 1)
    BY <2>11, <2>12, <2>13, <1>20
  <2>15. RcvOnly(s.c, t.c) /\ RcvdApp(s.a, t.a)
    BY <2>6, <1>1, <1>14 DEF RcvOnly, RcvdApp
  <2>16. Len(s.a.rcvd) <= Len(t.a.rcvd)
    <3>1. r = Len(u.a.rcvd)
      BY <1>2 DEF Reach
    <3>2. PICK l : l = Len(s.a.rcvd)
      OBVIOUS
    <3>3. l <= r
      BY <1>1, <3>1, <3>2
    <3> QED
      BY <3>2, <3>3, <2>9
  <2>17. AdvAt(n, s, t, sub, W, C + 1)
    BY <2>6, <2>9, <2>11, <2>13, <2>15, <2>16, <1>1, <1>14, <1>p DEF AdvAt
  <2> QED
    BY <2>12, <2>14, <2>17, <1>17, <1>p DEF Adv
<1> QED
  BY <1>21, <1>22

\* The locals of AdvanceRcvQueue before its loop.
AdvanceStart(s, i) ==
  [s |-> s, i |-> i, seq |-> s.c.rbuf[i].seq, isExpiring |-> FALSE, startSeq |-> 0, fcnt |-> 0, more |-> TRUE]

\* run is the loop of AdvanceRcvQueue, turn by turn.
AdvanceRuns(run, s, i, late) ==
  /\ run[0] = AdvanceStart(s, i)
  /\ \A k \in 1 .. SegMax + 1 : run[k] = AdvanceTurn(run[k - 1], late)
  /\ AdvanceRcvQueue(s, i, late) = Advanced(run[SegMax + 1])

\* The turns of the loop of AdvanceRcvQueue, one after the other.
LEMMA AdvanceRun ==
  ASSUME NEW s, NEW i, NEW late
  PROVE  \E run : AdvanceRuns(run, s, i, late)
<1> DEFINE Turn(t) == AdvanceTurn(t, late)
           s0 == AdvanceStart(s, i)
           Runs(j) == \E f : f = [k \in 0 .. j |-> IF k = 0 THEN s0 ELSE Turn(f[k - 1])]
           S == {j \in Nat : ~Runs(j)}
<1>0. PICK last \in Nat : last = SegMax + 1
  OBVIOUS
<1>1. AdvanceRcvQueue(s, i, late) =
         Advanced((CHOOSE f : f = [k \in 0 .. last |-> IF k = 0 THEN s0 ELSE Turn(f[k - 1])])[last])
  BY <1>0, Zenon DEF AdvanceRcvQueue, AdvanceStart
<1> HIDE DEF Turn, s0
<1>2. Runs(last)
  <2> SUFFICES ASSUME S # {} PROVE FALSE
    OBVIOUS
  <2>1. PICK x \in S : \A j \in S : x <= j
    <3> HIDE DEF S
    <3>1. S \in SUBSET Nat
      BY DEF S
    <3> QED
      BY <3>1, SmallestNat
  <2>2. x # 0
    <3>1. PICK f : f = [k \in 0 .. 0 |-> s0]
      OBVIOUS
    <3>2. f = [k \in 0 .. 0 |-> IF k = 0 THEN s0 ELSE Turn(f[k - 1])]
      BY <3>1
    <3>3. Runs(0)
      BY <3>2
    <3> QED
      BY <3>3
  <2>3. x \in Nat /\ x - 1 \in Nat /\ x - 1 \notin S
    <3>1. x \in Nat
      BY <2>1
    <3> HIDE DEF S
    <3> QED
      BY <3>1, <2>1, <2>2
  <2>4. PICK f : f = [k \in 0 .. x - 1 |-> IF k = 0 THEN s0 ELSE Turn(f[k - 1])]
    BY <2>3
  <2>5. PICK g : g = [k \in 0 .. x |-> IF k = x THEN Turn(f[x - 1]) ELSE f[k]]
    OBVIOUS
  <2>6. ASSUME NEW k \in 0 .. x PROVE g[k] = IF k = 0 THEN s0 ELSE Turn(g[k - 1])
    <3>1. CASE k = x
      <4>1. g[k] = Turn(f[x - 1]) /\ g[x - 1] = f[x - 1]
        BY <3>1, <2>3, <2>5
      <4> QED
        BY <4>1, <3>1, <2>2
    <3>2. CASE k # x /\ k # 0
      <4>1. k \in 0 .. x - 1 /\ k - 1 \in 0 .. x - 1 /\ k - 1 # x
        BY <3>2, <2>3
      <4>2. g[k] = f[k] /\ g[k - 1] = f[k - 1]
        BY <4>1, <3>2, <2>5, <2>3
      <4>3. f[k] = Turn(f[k - 1])
        BY <4>1, <2>4, <3>2
      <4> QED
        BY <4>2, <4>3, <3>2
    <3>3. CASE k # x /\ k = 0
      <4>1. k \in 0 .. x - 1
        BY <3>3, <2>3
      <4> QED
        BY <4>1, <3>3, <2>4, <2>5
    <3> QED
      BY <3>1, <3>2, <3>3
  <2>7. g = [k \in 0 .. x |-> IF k = 0 THEN s0 ELSE Turn(g[k - 1])]
    BY <2>5, <2>6
  <2>8. Runs(x)
    BY <2>7
  <2> QED
    BY <2>1, <2>8
<1>3. PICK run : run = CHOOSE f : f = [k \in 0 .. last |-> IF k = 0 THEN s0 ELSE Turn(f[k - 1])]
  OBVIOUS
<1>4. run = [k \in 0 .. last |-> IF k = 0 THEN s0 ELSE Turn(run[k - 1])]
  BY <1>2, <1>3
<1>5. run[0] = s0
  BY <1>4
<1>6. ASSUME NEW k \in 1 .. last PROVE run[k] = Turn(run[k - 1])
  BY <1>4
<1>7. AdvanceRuns(run, s, i, late)
  <2>1. \A k \in 1 .. last : run[k] = AdvanceTurn(run[k - 1], late)
    BY <1>6 DEF Turn
  <2>2. AdvanceRcvQueue(s, i, late) = Advanced(run[last])
    BY <1>1, <1>3
  <2> QED
    BY <2>1, <2>2, <1>0, <1>5 DEF s0, AdvanceRuns
<1> QED
  BY <1>7

\* A turn more or less: the loop goes on while there is a next segment.
LEMMA AdvanceTurnStep ==
  ASSUME Fits, NEW n \in Node, NEW s, NEW sub \in 0 .. Count(Peer(n)), NEW W \in Nat, NEW C \in Nat,
         NEW q, NEW late, Adv(n, s, q, sub, W, C)
  PROVE  Adv(n, s, AdvanceTurn(q, late), sub, W, IF q.more THEN C + 1 ELSE C)
<1>1. CASE q.more
  BY <1>1, AdvanceOneStep DEF AdvanceTurn
<1>2. CASE ~q.more
  BY <1>2 DEF AdvanceTurn
<1> QED
  BY <1>1, <1>2

\* The receiver has everything up to C in order, at least up to B, and the loop has ended.
AdvEnded(n, s, q, sub, W, B) ==
  \E C \in Nat : B <= C /\ Adv(n, s, q, sub, W, C) /\ ~q.more

\* The loop of AdvanceRcvQueue ends with everything in order delivered.
LEMMA AdvanceLoop ==
  ASSUME Fits, NEW n \in Node, NEW s, NEW sub \in 0 .. Count(Peer(n)), NEW W \in Nat, NEW B \in Nat, W <= B,
         NEW i, NEW late, NEW run, AdvanceRuns(run, s, i, late), Adv(n, s, run[0], sub, W, B)
  PROVE  AdvEnded(n, s, run[SegMax + 1], sub, W, B)
<1>0. PICK last \in Nat : last = SegMax + 1
  OBVIOUS
<1> DEFINE P(k) == \E C \in Nat : B <= C /\ Adv(n, s, run[k], sub, W, C) /\ (run[k].more => B + k <= C)
<1>1. P(0)
  <2>1. B <= B /\ B + 0 <= B
    OBVIOUS
  <2> QED
    BY <2>1
<1>2. ASSUME NEW k \in 1 .. last, P(k - 1) PROVE P(k)
  <2>1. PICK q : q = run[k - 1]
    OBVIOUS
  <2>2. PICK C \in Nat : B <= C /\ Adv(n, s, q, sub, W, C) /\ (q.more => B + (k - 1) <= C)
    BY <1>2, <2>1
  <2>3. PICK z : z = AdvanceTurn(q, late) /\ z = run[k]
    BY <2>1, <1>0 DEF AdvanceRuns
  <2>4. Adv(n, s, z, sub, W, IF q.more THEN C + 1 ELSE C)
    BY <2>2, <2>3, AdvanceTurnStep
  <2>5. CASE q.more
    <3>1. PICK G \in Nat : G = C + 1
      OBVIOUS
    <3>2. B <= G /\ B + k <= G
      BY <2>2, <2>5, <3>1
    <3>3. Adv(n, s, z, sub, W, G)
      BY <2>4, <2>5, <3>1
    <3> QED
      BY <3>2, <3>3, <2>3
  <2>6. CASE ~q.more
    <3>1. z = q
      BY <2>3, <2>6 DEF AdvanceTurn
    <3> QED
      BY <3>1, <2>2, <2>3, <2>6
  <2> QED
    BY <2>5, <2>6
<1> HIDE DEF P
<1> DEFINE S == {k \in 0 .. last : ~P(k)}
<1>3. S = {}
  <2> SUFFICES ASSUME S # {} PROVE FALSE
    OBVIOUS
  <2>1. S \in SUBSET Nat /\ \A k \in S : k \in 0 .. last /\ ~P(k)
    OBVIOUS
  <2>2. PICK k \in S : \A j \in S : k <= j
    <3> HIDE DEF S
    <3> QED
      BY <2>1, SmallestNat
  <2>3. k # 0
    BY <1>1, <2>1
  <2>4. k \in 1 .. last /\ k - 1 \in 0 .. last /\ k - 1 < k
    BY <2>1, <2>3
  <2>5. k - 1 \notin S
    BY <2>2, <2>4
  <2> QED
    BY <2>1, <2>4, <2>5, <1>2
<1>4. P(last)
  BY <1>3
<1>5. PICK q : q = run[last]
  OBVIOUS
<1>6. PICK C \in Nat : B <= C /\ Adv(n, s, q, sub, W, C) /\ (q.more => B + last <= C)
  BY <1>4, <1>5 DEF P
<1>7. ~q.more
  <2> SUFFICES ASSUME q.more PROVE FALSE
    OBVIOUS
  <2>1. C + 1 <= W + SegMax
    BY <1>6 DEF Adv, AdvLoc
  <2>2. B + last <= C
    BY <1>6
  <2> QED
    BY <2>1, <2>2, <1>0
<1>8. AdvEnded(n, s, q, sub, W, B)
  BY <1>6, <1>7 DEF AdvEnded
<1> QED
  BY <1>0, <1>5, <1>8

\* t is s after the receive side has taken a segment.
Received(n, s, t, sub) ==
  /\ StepT(n, t) /\ RcvOnly(s.c, t.c) /\ RcvdApp(s.a, t.a) /\ t.out = s.out /\ t.o = s.o /\ t.ok = s.ok
  /\ Len(s.a.rcvd) <= Len(t.a.rcvd)
  /\ Pos(Peer(n), s.c.CUR) <= Pos(Peer(n), t.c.CUR)
  /\ RcvApp(Peer(n), t.a, sub) /\ RcvOpen(n, t.c, t.a, sub)

\* The loop's end: CUR is the last segment in order.
LEMMA AdvancedStep ==
  ASSUME Fits, NEW n \in Node, NEW s, StepT(n, s), NEW sub \in 0 .. Count(Peer(n)), NEW W \in Nat, NEW B \in Nat,
         Pos(Peer(n), s.c.CUR) = B, NEW q, AdvEnded(n, s, q, sub, W, B)
  PROVE  Received(n, s, Advanced(q), sub)
<1>p. PICK p \in Node : p = Peer(n)
  BY PeerNode
<1>u. PICK u : u = q.s
  OBVIOUS
<1>1. PICK C \in Nat : B <= C /\ Adv(n, s, q, sub, W, C) /\ ~q.more
  BY DEF AdvEnded
<1>2. StepT(n, u) /\ RcvOnly(s.c, u.c) /\ u.c.CUR = s.c.CUR /\ u.c.rLCS = s.c.rLCS
      /\ RcvdApp(s.a, u.a) /\ Len(s.a.rcvd) <= Len(u.a.rcvd)
      /\ u.out = s.out /\ u.o = s.o /\ u.ok = s.ok /\ RcvApp(p, u.a, sub) /\ u.c \in Conn /\ AppT(n, u.a) /\ Shape(u)
  BY <1>1, <1>p, <1>u DEF Adv, AdvAt, StepT
<1>3. PICK r \in Nat, D \in Nat : Reach(p, u.a, sub, r, W, D) /\ RcvParts(p, u.c, sub, r, W, D, C)
  BY <1>1, <1>p, <1>u DEF Adv, AdvAt
<1>4. q.seq = SeqAt(p, C + 1) /\ (C < W + SegMax => ~u.c.rbuf[Slot(p, C + 1)].inUse)
  BY <1>1, <1>p, <1>u DEF Adv, AdvLoc
<1>5. C <= W + SegMax /\ Pos(p, u.c.rLCS) = W
  BY <1>3 DEF RcvParts, RcvFront
<1>6. PICK T \in Nat : T = Total(p) /\ W + 1 <= D /\ D <= T /\ T + SegMax < Half
                           /\ Half \in Nat /\ Half + Half = SeqSpace
  BY <1>3, <1>p, WindowSlot
<1>7. C < Half /\ C + 1 \in 0 .. SeqSpace - 1
  BY <1>5, <1>6
<1>8. SeqAt(p, C + 1) \in Seqs /\ Pos(p, SeqAt(p, C + 1)) = C + 1
  BY <1>7, AtPos
<1>9. PICK cur \in Seqs : cur = Minus(q.seq, 1) /\ Pos(p, cur) = C
  <2>1. 1 <= Pos(p, SeqAt(p, C + 1))
    BY <1>8
  <2>2. Minus(SeqAt(p, C + 1), 1) \in Seqs /\ Pos(p, Minus(SeqAt(p, C + 1), 1)) = Pos(p, SeqAt(p, C + 1)) - 1
    BY <2>1, <1>8, PosBefore
  <2>3. PICK cur \in Seqs : cur = Minus(SeqAt(p, C + 1), 1)
    BY <2>2
  <2>4. Pos(p, cur) = C
    BY <2>2, <2>3, <1>8
  <2> QED
    BY <2>3, <2>4, <1>4
<1>10. PICK x \in Seqs : x = (IF SEQ32_LT(u.c.CUR, cur) THEN cur ELSE u.c.CUR) /\ Pos(p, x) = C
  <2>1. PICK o \in Seqs : o = u.c.CUR
    BY <1>2 DEF Conn
  <2>2. Pos(p, o) = B
    BY <2>1, <1>2, <1>p
  <2>3. SEQ32_LT(o, cur) <=> B < C
    <3>1. Pos(p, o) < Half /\ Pos(p, cur) < Half
      <4>1. B <= C
        BY <1>1
      <4>2. B < Half
        BY <4>1, <1>6, <1>7
      <4> QED
        BY <4>2, <2>2, <1>7, <1>9
    <3> QED
      BY <3>1, <2>2, <1>9, PosLT
  <2>4. CASE B < C
    BY <2>1, <2>3, <2>4, <1>9
  <2>5. CASE ~(B < C)
    <3>1. B = C
      BY <2>5, <1>1
    <3> QED
      BY <2>1, <2>2, <2>3, <2>5, <3>1
  <2> QED
    BY <2>4, <2>5
<1>11. PICK t : t = Advanced(q)
  OBVIOUS
<1>12. t = [[u EXCEPT !.c.CUR = x] EXCEPT !.c.ackTimer = TRUE]
  <2>1. Check(q.s, "seq - LCS <= SEGMAX", ~q.more) = u
    BY <1>1, <1>u DEF Check
  <2>2. t = StartAckTimer([u EXCEPT !.c.CUR = IF SEQ32_LT(@, Minus(q.seq, 1)) THEN Minus(q.seq, 1) ELSE @])
    BY <2>1, <1>11, Zenon DEF Advanced
  <2>3. [u EXCEPT !.c.CUR = IF SEQ32_LT(@, Minus(q.seq, 1)) THEN Minus(q.seq, 1) ELSE @] = [u EXCEPT !.c.CUR = x]
    BY <1>2, <1>9, <1>10 DEF Shape, Conn
  <2> QED
    BY <2>2, <2>3 DEF StartAckTimer
<1>13. /\ Shape(t) /\ t.c = [u.c EXCEPT !.CUR = x, !.ackTimer = TRUE] /\ t.a = u.a /\ t.jam = u.jam /\ t.out = u.out
       /\ t.o = u.o /\ t.ok = u.ok /\ t.broken = u.broken
  BY <1>2, <1>12 DEF Shape
<1>14. t.c \in Conn
  <2>1. x \in Seqs /\ u.c \in Conn
    BY <1>2, <1>10
  <2>2. t.c = [u.c EXCEPT !.CUR = x, !.ackTimer = TRUE]
    BY <1>13
  <2> QED
    BY <2>1, <2>2 DEF Conn
<1>15. RcvOnly(u.c, t.c) /\ t.c.CUR = x /\ t.c.rLCS = u.c.rLCS /\ t.c.eack = u.c.eack /\ t.c.rbuf = u.c.rbuf
  BY <1>2, <1>13 DEF Conn, RcvOnly
<1>16. StepT(n, t)
  BY <1>2, <1>13, <1>14 DEF StepT
<1>17. RcvOnly(s.c, t.c)
  BY <1>2, <1>15 DEF RcvOnly
<1>18. RcvOpen(n, t.c, t.a, sub)
  <2>1. RcvParts(p, t.c, sub, r, W, D, C)
    BY <1>3, <1>15 DEF RcvParts, RcvRing, RcvMask
  <2>2. RcvAt(p, t.c, t.a, sub, C)
    BY <2>1, <1>3, <1>13, RcvAtIs
  <2>3. Pos(p, t.c.CUR) = C /\ Pos(p, t.c.rLCS) = W
    BY <1>5, <1>10, <1>15
  <2>4. C < W + SegMax => ~t.c.rbuf[Slot(p, C + 1)].inUse
    BY <1>4, <1>15
  <2> QED
    BY <2>2, <2>3, <2>4, <1>p DEF RcvOpen
<1>19. Pos(p, s.c.CUR) <= Pos(p, t.c.CUR)
  BY <1>1, <1>10, <1>15, <1>p
<1> QED
  BY <1>2, <1>11, <1>13, <1>16, <1>17, <1>18, <1>19, <1>p DEF Received

\* AdvanceRcvQueue, when the next segment is in its buffer.
LEMMA AdvanceQueueStep ==
  ASSUME Fits, NEW n \in Node, NEW s, StepT(n, s), NEW sub \in 0 .. Count(Peer(n)), RcvApp(Peer(n), s.a, sub),
         NEW r \in Nat, NEW W \in Nat, NEW D \in Nat, Reach(Peer(n), s.a, sub, r, W, D), NEW B \in Nat,
         Pos(Peer(n), s.c.CUR) = B, RcvParts(Peer(n), s.c, sub, r, W, D, B),
         B + 1 <= W + SegMax, s.c.rbuf[Slot(Peer(n), B + 1)].inUse,
         s.c.rbuf[Slot(Peer(n), B + 1)].seq = SeqAt(Peer(n), B + 1),
         NEW i, i = Slot(Peer(n), B + 1), NEW late
  PROVE  Received(n, s, AdvanceRcvQueue(s, i, late), sub)
<1>p. PICK p \in Node : p = Peer(n)
  BY PeerNode
<1>1. PICK run : AdvanceRuns(run, s, i, late)
  BY AdvanceRun
<1>2. PICK q : q = AdvanceStart(s, i) /\ q = run[0]
  BY <1>1 DEF AdvanceRuns
<1>3. q.s = s /\ q.i = i /\ q.seq = s.c.rbuf[i].seq /\ q.isExpiring = FALSE /\ q.more = TRUE
  BY <1>2 DEF AdvanceStart
<1>4. AdvLoc(p, q, W, B)
  BY <1>3, <1>p DEF AdvLoc
<1>5. AdvAt(n, s, s, sub, W, B)
  <2>1. RcvOnly(s.c, s.c) /\ RcvdApp(s.a, s.a)
    BY DEF RcvOnly, RcvdApp
  <2>2. Len(s.a.rcvd) <= Len(s.a.rcvd)
    <3>1. s.a.rcvd \in Seq(Seq(Nat \X Nat))
      BY DEF StepT, AppT
    <3>2. Len(s.a.rcvd) \in Nat
      BY <3>1, LenProperties
    <3>3. PICK l \in Nat : l = Len(s.a.rcvd)
      BY <3>2
    <3> QED
      BY <3>3
  <2> QED
    BY <2>1, <2>2 DEF AdvAt
<1>6. Adv(n, s, run[0], sub, W, B)
  BY <1>2, <1>3, <1>4, <1>5, <1>p DEF Adv
<1>7. W <= B
  BY DEF RcvParts, RcvFront, Reach
<1>8. AdvEnded(n, s, run[SegMax + 1], sub, W, B)
  BY <1>1, <1>6, <1>7, AdvanceLoop
<1>9. Received(n, s, Advanced(run[SegMax + 1]), sub)
  BY <1>8, AdvancedStep
<1> QED
  BY <1>1, <1>9 DEF AdvanceRuns

\* The buffer that keeps segment seg.
Keeping(seg) ==
  [seq |-> seg.seq, inUse |-> TRUE, delivered |-> FALSE, som |-> seg.som, fcnt |-> seg.fcnt,
   ttl |-> seg.ttl, data |-> seg.data]

\* t is s with segment seg in buffer i.
Filled(n, s, t, i, seg) ==
  /\ StepT(n, t) /\ RcvOnly(s.c, t.c) /\ t.c.CUR = s.c.CUR /\ t.c.rLCS = s.c.rLCS /\ t.c.eack = s.c.eack
  /\ t.a = s.a /\ t.out = s.out /\ t.o = s.o /\ t.ok = s.ok
  /\ \A j \in Ring : t.c.rbuf[j] = IF j = i THEN Keeping(seg) ELSE s.c.rbuf[j]

\* A segment is put into its buffer.
LEMMA FilledIs ==
  ASSUME NEW n, NEW s, StepT(n, s), s.ok, NEW i \in Ring, NEW seg \in Segs
  PROVE  Filled(n, s, [s EXCEPT !.ok = TRUE, !.c.rbuf[i] = Keeping(seg)], i, seg)
<1>1. Shape(s) /\ s.c \in Conn /\ s.ok = TRUE
  BY DEF StepT
<1>2. PICK bf \in RcvBuf : bf = Keeping(seg)
  BY DEF Keeping, RcvBuf, Segs
<1>3. PICK ring \in [Ring -> RcvBuf] : ring = [s.c.rbuf EXCEPT ![i] = bf]
  <2>1. s.c.rbuf \in [Ring -> RcvBuf]
    BY <1>1 DEF Conn
  <2> QED
    BY <2>1
<1>4. PICK t : t = [s EXCEPT !.ok = TRUE, !.c.rbuf[i] = Keeping(seg)]
  OBVIOUS
<1>5. t = [s EXCEPT !.ok = TRUE, !.c.rbuf = ring]
  <2>1. t = [s EXCEPT !.ok = TRUE, !.c.rbuf[i] = bf]
    BY <1>2, <1>4
  <2> QED
    BY <2>1, <1>3, <1>1 DEF Shape, Conn
<1>6. /\ Shape(t) /\ t.c = [s.c EXCEPT !.rbuf = ring] /\ t.a = s.a /\ t.jam = s.jam /\ t.out = s.out
      /\ t.o = s.o /\ t.ok = s.ok /\ t.broken = s.broken
  BY <1>1, <1>5 DEF Shape
<1>7. t.c \in Conn
  BY <1>1, <1>3, <1>6 DEF Conn
<1>8. RcvOnly(s.c, t.c) /\ t.c.CUR = s.c.CUR /\ t.c.rLCS = s.c.rLCS /\ t.c.eack = s.c.eack /\ t.c.rbuf = ring
  BY <1>1, <1>6 DEF Conn, RcvOnly
<1>9. StepT(n, t)
  BY <1>6, <1>7 DEF StepT
<1>10. \A j \in Ring : ring[j] = IF j = i THEN bf ELSE s.c.rbuf[j]
  <2>1. s.c.rbuf \in [Ring -> RcvBuf]
    BY <1>1 DEF Conn
  <2> QED
    BY <2>1, <1>3
<1>11. Filled(n, s, t, i, seg)
  BY <1>2, <1>6, <1>8, <1>9, <1>10 DEF Filled
<1> QED
  BY <1>4, <1>11

\* The ring of d is that of c with the buffer for position x taken.
FilledRing(p, c, d, sub, W, D, C, x) ==
  /\ RcvRing(p, d, sub, W, D, C) /\ \A i \in Ring : d.rbuf[i].ttl = "inf"
  /\ \A y \in W + 1 .. W + SegMax :
        d.rbuf[Slot(p, y)].inUse = (IF y = x THEN TRUE ELSE c.rbuf[Slot(p, y)].inUse)

\* The ring with one more segment in it.
LEMMA RingFilled ==
  ASSUME Fits, NEW n \in Node, NEW s, NEW t, NEW p \in Node, NEW a, NEW sub \in 0 .. Count(p), NEW C \in Nat,
         NEW r \in Nat, NEW W \in Nat, NEW D \in Nat, Reach(p, a, sub, r, W, D), RcvParts(p, s.c, sub, r, W, D, C),
         NEW x \in C + 1 .. W + SegMax, NEW seg, Filled(n, s, t, Slot(p, x), seg), seg.ttl = "inf",
         RcvBufAt(p, Keeping(seg), x), x < First(p, sub + 1)
  PROVE  FilledRing(p, s.c, t.c, sub, W, D, C, x)
<1>1. RcvRing(p, s.c, sub, W, D, C) /\ RcvFront(p, sub, r, W, D, C) /\ \A i \in Ring : s.c.rbuf[i].ttl = "inf"
  BY DEF RcvParts
<1>2. W + 1 <= D /\ D - 1 <= C /\ x \in W + 1 .. W + SegMax
  BY <1>1 DEF RcvFront, Reach
<1>3. /\ \A y \in W + 1 .. W + SegMax : Slot(p, y) \in Ring
      /\ \A y \in W + 1 .. W + SegMax : \A z \in W + 1 .. W + SegMax : Slot(p, y) = Slot(p, z) => y = z
  BY WindowSlot
<1>4. ASSUME NEW y \in W + 1 .. W + SegMax
      PROVE  t.c.rbuf[Slot(p, y)] = IF y = x THEN Keeping(seg) ELSE s.c.rbuf[Slot(p, y)]
  <2>1. Slot(p, y) \in Ring /\ (Slot(p, y) = Slot(p, x) <=> y = x)
    BY <1>2, <1>3
  <2> QED
    BY <2>1 DEF Filled
<1>5. Keeping(seg).inUse = TRUE /\ Keeping(seg).delivered = FALSE /\ Keeping(seg).ttl = "inf"
  BY DEF Keeping
<1>6. RcvRing(p, t.c, sub, W, D, C)
  <2> SUFFICES ASSUME NEW y \in W + 1 .. W + SegMax PROVE RcvBufOK(p, t.c.rbuf[Slot(p, y)], sub, D, C, y)
    BY DEF RcvRing
  <2>1. CASE y = x
    <3>1. ~(x < D)
      BY <1>2
    <3>2. RcvBufOK(p, Keeping(seg), sub, D, C, x)
      BY <3>1, <1>5 DEF RcvBufOK
    <3> QED
      BY <3>2, <2>1, <1>4
  <2>2. CASE y # x
    <3>1. RcvBufOK(p, s.c.rbuf[Slot(p, y)], sub, D, C, y)
      BY <1>1 DEF RcvRing
    <3> QED
      BY <3>1, <2>2, <1>4
  <2> QED
    BY <2>1, <2>2
<1>7. ASSUME NEW i \in Ring PROVE t.c.rbuf[i].ttl = "inf"
  BY <1>1, <1>5 DEF Filled
<1> QED
  BY <1>4, <1>5, <1>6, <1>7 DEF FilledRing

\* The mask with one more segment.
LEMMA MaskAdded ==
  ASSUME NEW p, NEW c, NEW d, NEW W \in Nat, NEW C \in Nat, RcvMask(p, c, W, C), W <= C,
         NEW x \in C + 2 .. W + SegMax, d.eack = AddRcvMsk(c.eack, x - (C + 1)),
         \A y \in W + 1 .. W + SegMax :
            d.rbuf[Slot(p, y)].inUse = (IF y = x THEN TRUE ELSE c.rbuf[Slot(p, y)].inUse)
  PROVE  RcvMask(p, d, W, C)
<1>1. PICK e : e = c.eack
  OBVIOUS
<1>d. PICK k \in 1 .. SegMax : k = x - (C + 1) /\ C + 1 + k = x
  OBVIOUS
<1>2. PICK f : f = AddRcvMsk(e, k) /\ f = d.eack
  BY <1>1, <1>d
<1>3. WellFormed(e) /\ (Words <= 2 => e.htnMask = e.mask)
      /\ \A z \in Nat \ {0} : z \in Announced(e.mask) <=>
              C + 1 + z <= W + SegMax /\ c.rbuf[Slot(p, C + 1 + z)].inUse
  BY <1>1 DEF RcvMask
<1>4. WellFormed(f) /\ Announced(f.mask) = Announced(e.mask) \cup {k} /\ (e.htnMask = e.mask => f.htnMask = f.mask)
  <2>0. WellFormed(e)
    BY <1>3
  <2>1. WellFormed(AddRcvMsk(e, k)) /\ Announced(AddRcvMsk(e, k).mask) = Announced(e.mask) \cup {k}
        /\ (e.htnMask = e.mask => AddRcvMsk(e, k).htnMask = AddRcvMsk(e, k).mask)
    BY <2>0, AddAnnounces
  <2> QED
    BY <2>1, <1>2, Zenon
<1>5. ASSUME NEW z \in Nat \ {0}
      PROVE  z \in Announced(f.mask) <=> C + 1 + z <= W + SegMax /\ d.rbuf[Slot(p, C + 1 + z)].inUse
  <2>1. z \in Announced(f.mask) <=> z \in Announced(e.mask) \/ z = k
    BY <1>4
  <2>2. z = k <=> C + 1 + z = x
    BY <1>d
  <2>3. C + 1 + z <= W + SegMax => C + 1 + z \in W + 1 .. W + SegMax
    OBVIOUS
  <2>4. CASE z = k
    <3>1. C + 1 + z <= W + SegMax /\ C + 1 + z = x
      BY <2>2, <2>4
    <3>2. d.rbuf[Slot(p, C + 1 + z)].inUse
      BY <2>3, <3>1
    <3> QED
      BY <2>1, <2>4, <3>1, <3>2
  <2>5. CASE z # k
    <3>1. C + 1 + z # x
      BY <2>2, <2>5
    <3>2. z \in Announced(e.mask) <=> C + 1 + z <= W + SegMax /\ c.rbuf[Slot(p, C + 1 + z)].inUse
      BY <1>3
    <3>3. C + 1 + z <= W + SegMax => (d.rbuf[Slot(p, C + 1 + z)].inUse = c.rbuf[Slot(p, C + 1 + z)].inUse)
      BY <2>3, <3>1
    <3> QED
      BY <2>1, <2>5, <3>2, <3>3, Zenon
  <2> QED
    BY <2>4, <2>5
<1> QED
  BY <1>2, <1>3, <1>4, <1>5 DEF RcvMask

\* Nothing was received.
LEMMA ReceivedSame ==
  ASSUME Fits, NEW n \in Node, NEW s, StepT(n, s), s.ok, NEW sub, RcvApp(Peer(n), s.a, sub),
         RcvOpen(n, s.c, s.a, sub), NEW t, t = s \/ t = [s EXCEPT !.ok = TRUE]
  PROVE  Received(n, s, t, sub)
<1>1. Shape(s) /\ s.ok = TRUE
  BY DEF StepT
<1>2. /\ Shape(t) /\ t.c = s.c /\ t.a = s.a /\ t.jam = s.jam /\ t.out = s.out
      /\ t.o = s.o /\ t.ok = s.ok /\ t.broken = s.broken
  <2>1. CASE t = s
    BY <2>1, <1>1
  <2>2. CASE t = [s EXCEPT !.ok = TRUE]
    BY <2>2, <1>1 DEF Shape
  <2> QED
    BY <2>1, <2>2
<1>3. StepT(n, t)
  BY <1>2 DEF StepT
<1>4. RcvOnly(s.c, t.c) /\ RcvdApp(s.a, t.a)
  BY <1>2 DEF RcvOnly, RcvdApp
<1>5. Len(s.a.rcvd) <= Len(s.a.rcvd)
  <2>1. s.a.rcvd \in Seq(Seq(Nat \X Nat))
    BY DEF StepT, AppT
  <2>2. PICK l \in Nat : l = Len(s.a.rcvd)
    BY <2>1, LenProperties
  <2> QED
    BY <2>2
<1>6. Pos(Peer(n), s.c.CUR) <= Pos(Peer(n), s.c.CUR)
  <2>1. PICK p \in Node : p = Peer(n)
    BY PeerNode
  <2>2. s.c.CUR \in Seqs
    BY DEF StepT, Conn
  <2>3. PICK k \in Nat : k = Pos(p, s.c.CUR)
    BY <2>2, PosOf
  <2> QED
    BY <2>1, <2>3
<1> QED
  BY <1>2, <1>3, <1>4, <1>5, <1>6 DEF Received

\* The data of a segment, at position x, is right for its buffer.
LEMMA KeepingIs ==
  ASSUME Fits, NEW p \in Node, NEW sub \in 0 .. Count(p), NEW seg \in Segs, DataOK(p, seg, First(p, sub + 1)),
         NEW x \in Nat, x = Pos(p, seg.seq)
  PROVE  /\ RcvBufAt(p, Keeping(seg), x) /\ seg.ttl = "inf" /\ x < First(p, sub + 1)
         /\ seg.seq = SeqAt(p, x) /\ Idx(seg.seq) = Slot(p, x)
<1>1. seg.seq \in Seqs
  BY DEF Segs
<1>2. seg.seq = SeqAt(p, x)
  BY <1>1, PosOf
<1>3. PICK m \in 1 .. Len(Msgs[p]) :
        /\ seg.data = <<m, x - First(p, m)>>
        /\ seg.som = SeqAt(p, First(p, m)) /\ seg.fcnt = Msgs[p][m].fcnt
        /\ First(p, m) <= x /\ x < First(p, m + 1)
  BY DEF DataOK
<1>4. PICK bf : bf = Keeping(seg)
  OBVIOUS
<1>5. bf.inUse /\ bf.seq = seg.seq /\ bf.data = seg.data /\ bf.som = seg.som /\ bf.fcnt = seg.fcnt
  BY <1>4 DEF Keeping
<1>6. RcvBufAt(p, bf, x)
  BY <1>2, <1>3, <1>5 DEF RcvBufAt
<1> QED
  BY <1>2, <1>4, <1>6 DEF DataOK, Slot

\* A segment of the receive window that is still to come.
Ahead(p, c, seg) ==
  /\ Pos(p, c.CUR) < Pos(p, seg.seq) /\ Pos(p, seg.seq) <= Pos(p, c.rLCS) + SegMax

\* AddRcvBuffer keeps a segment that is still to come.
LEMMA AddRcvBufferStep ==
  ASSUME Fits, NEW n \in Node, NEW s, StepT(n, s), s.ok, NEW sub \in 0 .. Count(Peer(n)),
         RcvApp(Peer(n), s.a, sub), RcvOpen(n, s.c, s.a, sub), NEW seg \in Segs,
         DataOK(Peer(n), seg, First(Peer(n), sub + 1)), Ahead(Peer(n), s.c, seg), NEW late
  PROVE  Received(n, s, AddRcvBuffer(s, seg, late), sub)
<1>p. PICK p \in Node : p = Peer(n)
  BY PeerNode
<1>s. sub \in 0 .. Count(p) /\ s.c \in Conn /\ AppT(n, s.a) /\ Shape(s)
  BY <1>p DEF StepT
<1>1. PICK r \in Nat, W \in Nat, D \in Nat : Reach(p, s.a, sub, r, W, D)
  <2>1. s.a.rcvd \in Seq(Seq(Nat \X Nat)) /\ s.a.consumed \in Nat
    BY <1>s DEF AppT
  <2> QED
    BY <2>1, <1>p, <1>s, ReachIs
<1>2. PICK C \in Nat : C = Pos(p, s.c.CUR)
  BY <1>s, PosOf DEF Conn
<1>3. PICK x \in Nat : x = Pos(p, seg.seq)
  BY PosOf DEF Segs
<1>4. RcvAt(p, s.c, s.a, sub, C)
  BY <1>p, <1>2 DEF RcvOpen
<1>5. RcvParts(p, s.c, sub, r, W, D, C)
  BY <1>1, <1>4, RcvAtIs
<1>6. Pos(p, s.c.rLCS) = W /\ RcvFront(p, sub, r, W, D, C) /\ RcvRing(p, s.c, sub, W, D, C) /\ RcvMask(p, s.c, W, C)
  BY <1>5 DEF RcvParts
<1>7. C < W + SegMax => ~s.c.rbuf[Slot(p, C + 1)].inUse
  BY <1>2, <1>6, <1>p DEF RcvOpen
<1>8. W + 1 <= D /\ D - 1 <= C /\ C <= W + SegMax
  BY <1>1, <1>6 DEF RcvFront, Reach
<1>9. x \in C + 1 .. W + SegMax
  BY <1>2, <1>3, <1>6, <1>p DEF Ahead
<1>10. RcvBufAt(p, Keeping(seg), x) /\ seg.ttl = "inf" /\ x < First(p, sub + 1)
       /\ seg.seq = SeqAt(p, x) /\ Idx(seg.seq) = Slot(p, x)
  BY <1>3, <1>p, <1>s, KeepingIs
<1>11. PICK i \in Ring : i = Slot(p, x)
  <2>1. x \in W + 1 .. W + SegMax
    BY <1>8, <1>9
  <2> QED
    BY <2>1, <1>1, <1>s, WindowSlot
<1>12. PICK bf : bf = s.c.rbuf[i]
  OBVIOUS
<1>13. PICK added : added = [s EXCEPT !.ok = TRUE, !.c.rbuf[i] = Keeping(seg)]
  OBVIOUS
<1>14. Filled(n, s, added, i, seg)
  BY <1>13, FilledIs
<1>15. /\ StepT(n, added) /\ RcvOnly(s.c, added.c) /\ added.c.CUR = s.c.CUR /\ added.c.rLCS = s.c.rLCS
       /\ added.c.eack = s.c.eack /\ added.a = s.a /\ added.out = s.out /\ added.o = s.o /\ added.ok = s.ok
       /\ \A j \in Ring : added.c.rbuf[j] = IF j = i THEN Keeping(seg) ELSE s.c.rbuf[j]
  BY <1>14 DEF Filled
<1>16. PICK t : t = AddRcvBuffer(s, seg, late)
  OBVIOUS
<1>17. t = IF HoldsSegment(bf, seg) THEN [s EXCEPT !.ok = TRUE]
           ELSE IF bf.inUse THEN [Check(s, "buffer in use overwritten", FALSE) EXCEPT !.ok = FALSE]
           ELSE IF seg.seq = Plus(s.c.CUR, 1) THEN AdvanceRcvQueue(added, i, late)
           ELSE AnnounceSegment(added, Minus(seg.seq, Plus(s.c.CUR, 1)))
  <2>1. Idx(seg.seq) = i
    BY <1>10, <1>11
  <2>2. PICK kept : kept = Keeping(seg)
    OBVIOUS
  <2>3. kept = [seq |-> seg.seq, inUse |-> TRUE, delivered |-> FALSE, som |-> seg.som, fcnt |-> seg.fcnt,
                ttl |-> seg.ttl, data |-> seg.data]
    BY <2>2 DEF Keeping
  <2>4. added = [s EXCEPT !.ok = TRUE, !.c.rbuf[i] = kept]
    BY <2>2, <1>13, Zenon
  <2>5. KeepSegment(s, seg) = added
    BY <2>1, <2>3, <2>4, Zenon DEF KeepSegment
  <2> QED
    BY <2>1, <2>5, <1>12, <1>16, Zenon DEF AddRcvBuffer
<1>18. CASE HoldsSegment(bf, seg)
  <2>1. t = [s EXCEPT !.ok = TRUE]
    BY <1>17, <1>18
  <2>2. Received(n, s, t, sub)
    BY <2>1, <1>p, ReceivedSame
  <2> QED
    BY <2>2, <1>16
<1>19. CASE ~HoldsSegment(bf, seg)
  <2>1. ~bf.inUse
    <3> SUFFICES ASSUME bf.inUse PROVE FALSE
      OBVIOUS
    <3>1. x \in W + 1 .. W + SegMax
      BY <1>8, <1>9
    <3>2. RcvBufOK(p, bf, sub, D, C, x)
      BY <3>1, <1>6, <1>11, <1>12 DEF RcvRing
    <3>3. bf.seq = SeqAt(p, x)
      BY <3>2 DEF RcvBufOK, RcvBufAt
    <3> QED
      BY <3>3, <1>10, <1>19 DEF HoldsSegment
  <2>n. PICK next \in Seqs : next = Plus(s.c.CUR, 1) /\ Pos(p, next) = C + 1
    <3>1. PICK T \in Nat : T = Total(p) /\ W + 1 <= D /\ D <= T /\ T + SegMax < Half
                           /\ Half \in Nat /\ Half + Half = SeqSpace
      BY <1>1, <1>s, WindowSlot
    <3>2. C + 1 < SeqSpace
      BY <3>1, <1>8
    <3>3. s.c.CUR \in Seqs /\ Pos(p, s.c.CUR) + 1 < SeqSpace
      BY <3>2, <1>2, <1>s DEF Conn
    <3>4. Plus(s.c.CUR, 1) \in Seqs /\ Pos(p, Plus(s.c.CUR, 1)) = Pos(p, s.c.CUR) + 1
      BY <3>3, PosPlus
    <3> QED
      BY <3>4, <1>2
  <2>2. seg.seq \in Seqs /\ (seg.seq = next <=> x = C + 1)
    <3>1. seg.seq \in Seqs
      BY DEF Segs
    <3>2. Pos(p, seg.seq) = Pos(p, next) <=> seg.seq = next
      BY <3>1, PosEq
    <3> QED
      BY <3>1, <3>2, <2>n, <1>3
  <2>3. RcvRing(p, added.c, sub, W, D, C) /\ (\A j \in Ring : added.c.rbuf[j].ttl = "inf")
        /\ \A y \in W + 1 .. W + SegMax :
               added.c.rbuf[Slot(p, y)].inUse = (IF y = x THEN TRUE ELSE s.c.rbuf[Slot(p, y)].inUse)
    <3>1. Filled(n, s, added, Slot(p, x), seg)
      BY <1>11, <1>14
    <3>2. Reach(p, s.a, sub, r, W, D) /\ RcvParts(p, s.c, sub, r, W, D, C) /\ x \in C + 1 .. W + SegMax
          /\ seg.ttl = "inf" /\ RcvBufAt(p, Keeping(seg), x) /\ x < First(p, sub + 1) /\ sub \in 0 .. Count(p)
      BY <1>1, <1>5, <1>9, <1>10, <1>s
    <3>3. FilledRing(p, s.c, added.c, sub, W, D, C, x)
      BY <3>1, <3>2, RingFilled
    <3> QED
      BY <3>3 DEF FilledRing
  <2>4. CASE x = C + 1
    <3>1. t = AdvanceRcvQueue(added, i, late)
      BY <1>17, <1>19, <2>1, <2>2, <2>4, <2>n
    <3>2. RcvMask(p, added.c, W, C)
      <4>1. ASSUME NEW d \in Nat \ {0}
            PROVE  d \in Announced(added.c.eack.mask) <=>
                      C + 1 + d <= W + SegMax /\ added.c.rbuf[Slot(p, C + 1 + d)].inUse
        <5>1. d \in Announced(s.c.eack.mask) <=>
                      C + 1 + d <= W + SegMax /\ s.c.rbuf[Slot(p, C + 1 + d)].inUse
          BY <1>6 DEF RcvMask
        <5>2. C + 1 + d <= W + SegMax => (added.c.rbuf[Slot(p, C + 1 + d)].inUse = s.c.rbuf[Slot(p, C + 1 + d)].inUse)
          <6> SUFFICES ASSUME C + 1 + d <= W + SegMax
                       PROVE  added.c.rbuf[Slot(p, C + 1 + d)].inUse = s.c.rbuf[Slot(p, C + 1 + d)].inUse
            OBVIOUS
          <6>1. C + 1 + d \in W + 1 .. W + SegMax /\ C + 1 + d # x
            BY <1>8, <2>4
          <6> QED
            BY <6>1, <2>3
        <5>3. added.c.eack = s.c.eack
          BY <1>15
        <5> QED
          BY <5>1, <5>2, <5>3, Zenon
      <4>2. WellFormed(s.c.eack) /\ (Words <= 2 => s.c.eack.htnMask = s.c.eack.mask)
        BY <1>6 DEF RcvMask
      <4>3. WellFormed(added.c.eack) /\ (Words <= 2 => added.c.eack.htnMask = added.c.eack.mask)
        BY <4>2, <1>15
      <4> QED
        BY <4>1, <4>3 DEF RcvMask
    <3>3. RcvParts(p, added.c, sub, r, W, D, C)
      BY <3>2, <2>3, <1>6, <1>15 DEF RcvParts
    <3>4. added.c.rbuf[Slot(p, C + 1)].inUse /\ added.c.rbuf[Slot(p, C + 1)].seq = SeqAt(p, C + 1) /\ i = Slot(p, C + 1)
          /\ C + 1 <= W + SegMax
      <4>1. added.c.rbuf[i] = Keeping(seg)
        BY <1>15
      <4>2. Keeping(seg).inUse = TRUE /\ Keeping(seg).seq = seg.seq
        BY DEF Keeping
      <4> QED
        BY <4>1, <4>2, <2>4, <1>9, <1>10, <1>11
    <3>5. Reach(p, added.a, sub, r, W, D) /\ RcvApp(p, added.a, sub) /\ Pos(p, added.c.CUR) = C /\ StepT(n, added)
      BY <1>1, <1>2, <1>15, <1>p
    <3>6. Received(n, added, t, sub)
      BY <3>1, <3>3, <3>4, <3>5, <1>p, AdvanceQueueStep
    <3>7. RcvOnly(s.c, t.c) /\ RcvdApp(s.a, t.a)
      BY <3>6, <1>15 DEF Received, RcvOnly, RcvdApp
    <3>8. Received(n, s, t, sub)
      BY <3>6, <3>7, <1>15 DEF Received
    <3> QED
      BY <3>8, <1>16
  <2>5. CASE x # C + 1
    <3>0. x \in C + 2 .. W + SegMax
      BY <1>9, <2>5
    <3>1. Minus(seg.seq, next) = x - (C + 1)
      <4>1. Minus(seg.seq, next) = IF Pos(p, seg.seq) >= Pos(p, next) THEN Pos(p, seg.seq) - Pos(p, next)
                          ELSE (Pos(p, seg.seq) + SeqSpace) - Pos(p, next)
        BY <2>2, <2>n, PosMinus
      <4> QED
        BY <4>1, <3>0, <2>n, <1>3
    <3>2. PICK e : e = AddRcvMsk(s.c.eack, x - (C + 1))
      OBVIOUS
    <3>k. PICK k \in 1 .. SegMax : k = x - (C + 1)
      BY <3>0, <1>8
    <3>3. WellFormed(e)
      <4>1. WellFormed(s.c.eack)
        BY <1>6 DEF RcvMask
      <4>2. WellFormed(AddRcvMsk(s.c.eack, k))
        BY <4>1, AddAnnounces
      <4> QED
        BY <4>2, <3>2, <3>k
    <3>4. t = [added EXCEPT !.c.eack = e]
      <4>1. t = AnnounceSegment(added, x - (C + 1))
        BY <1>17, <1>19, <2>1, <2>2, <2>5, <2>n, <3>1
      <4>2. AnnounceSegment(added, x - (C + 1)) = [added EXCEPT !.c.eack = AddRcvMsk(added.c.eack, x - (C + 1))]
        BY DEF AnnounceSegment
      <4> QED
        BY <4>1, <4>2, <3>2, <1>15
    <3>5. /\ Shape(t) /\ t.c = [added.c EXCEPT !.eack = e] /\ t.a = s.a /\ t.jam = added.jam /\ t.out = s.out
          /\ t.o = s.o /\ t.ok = s.ok /\ t.broken = added.broken
      BY <3>4, <1>15 DEF StepT, Shape
    <3>6. added.c \in Conn /\ e \in Eack
      BY <3>3, <1>15, WellFormedEack DEF StepT
    <3>7. t.c \in Conn
      BY <3>5, <3>6 DEF Conn
    <3>8. RcvOnly(added.c, t.c) /\ t.c.CUR = added.c.CUR /\ t.c.rLCS = added.c.rLCS /\ t.c.eack = e /\ t.c.rbuf = added.c.rbuf
      BY <3>5, <3>6 DEF Conn, RcvOnly
    <3>9. StepT(n, t)
      BY <3>5, <3>7, <1>15 DEF StepT
    <3>10. RcvMask(p, t.c, W, C)
      <4>1. t.c.eack = AddRcvMsk(s.c.eack, x - (C + 1))
        BY <3>2, <3>8
      <4>2. \A y \in W + 1 .. W + SegMax :
               t.c.rbuf[Slot(p, y)].inUse = (IF y = x THEN TRUE ELSE s.c.rbuf[Slot(p, y)].inUse)
        BY <3>8, <2>3
      <4>3. W <= C
        BY <1>8
      <4> QED
        BY <4>1, <4>2, <4>3, <3>0, <1>6, MaskAdded
    <3>11. RcvParts(p, t.c, sub, r, W, D, C)
      <4>1. RcvRing(p, t.c, sub, W, D, C) /\ \A j \in Ring : t.c.rbuf[j].ttl = "inf"
        BY <2>3, <3>8 DEF RcvRing
      <4> QED
        BY <4>1, <3>8, <3>10, <1>6, <1>15 DEF RcvParts
    <3>12. RcvOpen(n, t.c, t.a, sub)
      <4>1. RcvAt(p, t.c, t.a, sub, C)
        BY <3>5, <3>11, <1>1, RcvAtIs
      <4>2. Pos(p, t.c.CUR) = C /\ Pos(p, t.c.rLCS) = W
        BY <3>8, <1>2, <1>6, <1>15
      <4>3. C < W + SegMax => ~t.c.rbuf[Slot(p, C + 1)].inUse
        <5> SUFFICES ASSUME C < W + SegMax PROVE ~t.c.rbuf[Slot(p, C + 1)].inUse
          OBVIOUS
        <5>1. C + 1 \in W + 1 .. W + SegMax /\ C + 1 # x
          BY <1>8, <2>5
        <5> QED
          BY <5>1, <3>8, <2>3, <1>7
      <4> QED
        BY <4>1, <4>2, <4>3, <1>p DEF RcvOpen
    <3>13. Received(n, s, s, sub)
      BY <1>p, ReceivedSame
    <3>14. RcvOnly(s.c, t.c) /\ RcvdApp(s.a, t.a)
      BY <3>5, <3>8, <1>15 DEF RcvOnly, RcvdApp
    <3>15. Received(n, s, t, sub)
      BY <3>5, <3>8, <3>9, <3>12, <3>13, <3>14, <1>15 DEF Received
    <3> QED
      BY <3>15, <1>16
  <2> QED
    BY <2>4, <2>5
<1> QED
  BY <1>18, <1>19

\* A handler of node n keeps the node's part of the invariant, and moves n as it may.
Stepped(n, s, t, r, b) ==
  Good(n, t, r, b) /\ Moves(n, s.c, s.a, t.c, t.a, b.consumed)

\* Two steps, one after the other.
LEMMA SteppedTrans ==
  ASSUME Fits, NEW n \in Node, NEW s, NEW t, NEW u, NEW r, NEW b, Good(n, s, r, b),
         Stepped(n, s, t, r, b), Stepped(n, t, u, r, b)
  PROVE  Stepped(n, s, u, r, b)
<1>1. s.c \in Conn /\ t.c \in Conn /\ u.c \in Conn /\ AppT(n, s.a) /\ AppT(n, t.a) /\ AppT(n, u.a)
  BY DEF Stepped, Good, StepT
<1>2. PICK c1 \in Conn, c2 \in Conn, c3 \in Conn : c1 = s.c /\ c2 = t.c /\ c3 = u.c
  BY <1>1
<1>3. PICK q : q = b.consumed
  OBVIOUS
<1>4. Moves(n, c1, s.a, c2, t.a, q) /\ Moves(n, c2, t.a, c3, u.a, q)
  BY <1>2, <1>3 DEF Stepped
<1>5. Moves(n, c1, s.a, c3, u.a, q)
  BY <1>1, <1>4, MovesTrans
<1> QED
  BY <1>2, <1>3, <1>5 DEF Stepped

\* A step that changes timers and counters only.
LEMMA QuietStep ==
  ASSUME Fits, NEW n \in Node, NEW s, NEW t, NEW r, NEW b, Good(n, s, r, b), StepT(n, t),
         Core(s.c, t.c), SameApp(s.a, t.a), t.out = s.out
  PROVE  Stepped(n, s, t, r, b)
  BY Quiet DEF Stepped

\* StartAckTimer, and a call that reports success.
LEMMA StartAckTimerStep ==
  ASSUME Fits, NEW n \in Node, NEW s, NEW r, NEW b, Good(n, s, r, b), NEW h \in BOOLEAN, NEW t,
         t = [s EXCEPT !.c.ackTimer = h] \/ t = [s EXCEPT !.ok = TRUE]
                                         \/ t = [s EXCEPT !.ok = TRUE, !.c.ackTimer = h]
  PROVE  Stepped(n, s, t, r, b)
<1>1. StepT(n, s) /\ Shape(s) /\ s.c \in Conn
  BY DEF Good, StepT
<1>2. PICK d \in Conn : d = [s.c EXCEPT !.ackTimer = h]
  <2>1. [s.c EXCEPT !.ackTimer = h] \in Conn
    BY <1>1 DEF Conn
  <2> QED
    BY <2>1
<1>3. Core(s.c, d)
  BY <1>1, <1>2 DEF Conn, Core
<1>c. Core(s.c, s.c)
  BY DEF Core
<1>4. Shape(t) /\ (t.c = d \/ t.c = s.c) /\ t.a = s.a /\ t.jam = s.jam /\ t.out = s.out /\ t.o = s.o
      /\ t.ok \in {s.ok, TRUE} /\ t.broken = s.broken
  <2>1. CASE t = [s EXCEPT !.c.ackTimer = h]
    BY <2>1, <1>1, <1>2 DEF Shape
  <2>2. CASE t = [s EXCEPT !.ok = TRUE]
    BY <2>2, <1>1 DEF Shape
  <2>3. CASE t = [s EXCEPT !.ok = TRUE, !.c.ackTimer = h]
    BY <2>3, <1>1, <1>2 DEF Shape
  <2> QED
    BY <2>1, <2>2, <2>3
<1>5. StepT(n, t) /\ Core(s.c, t.c)
  <2>1. t.c \in Conn /\ Core(s.c, t.c)
    BY <1>4, <1>3, <1>1, <1>c
  <2> QED
    BY <2>1, <1>1, <1>4 DEF StepT
<1>6. SameApp(s.a, t.a)
  BY <1>4 DEF SameApp
<1> QED
  BY <1>4, <1>5, <1>6, QuietStep

\* SendAck of a node that knows its peer.
LEMMA SendAckStep ==
  ASSUME Fits, NEW n \in Node, NEW s, NEW r, NEW b, Good(n, s, r, b), n = "B" \/ Est(n, s.c)
  PROVE  Stepped(n, s, SendAck(s), r, b)
<1>1. PICK flg : flg = {"ACK"}
  OBVIOUS
<1>2. PICK t : t = Send(s, flg, s.c.NXT, s.c.CUR)
  OBVIOUS
<1>3. Good(n, t, r, b) /\ Moves(n, s.c, s.a, t.c, t.a, b.consumed)
  BY <1>1, <1>2, SendOK
<1>4. t = SendAck(s)
  BY <1>1, <1>2 DEF SendAck
<1> QED
  BY <1>3, <1>4 DEF Stepped

\* An open connection knows its peer.
LEMMA OpenKnows ==
  ASSUME NEW n \in Node, NEW s, NEW r, NEW b, Good(n, s, r, b), s.c.state = "OPEN"
  PROVE  Est(n, s.c) /\ s.c \in Conn /\ s.c # NoConn /\ RcvApp(Peer(n), s.a, b.submitted)
         /\ RcvOpen(n, s.c, s.a, b.submitted)
<1>1. ConnOK(n, s.c, s.a, r, b) /\ AppOK(n, s.a, b) /\ s.c \in Conn
  BY DEF Good, StepT
<1>2. Ctl(n, s.c, s.a) /\ RcvOK(n, s.c, s.a, b.submitted)
  BY <1>1 DEF ConnOK
<1>3. Est(n, s.c)
  BY <1>2 DEF Ctl
<1>4. RcvOpen(n, s.c, s.a, b.submitted)
  BY <1>2 DEF RcvOK, RcvOpen
<1>5. s.c # NoConn
  BY DEF NoConn
<1> QED
  BY <1>1, <1>3, <1>4, <1>5 DEF AppOK

\* The receive window: a segment in it that is not before CUR + 1 is ahead.
LEMMA AheadIs ==
  ASSUME Fits, NEW n \in Node, NEW s, NEW r, NEW b, Good(n, s, r, b), s.c.state = "OPEN",
         NEW seg \in Segs, Pos(Peer(n), seg.seq) < EndOf(Peer(n), b),
         IN_RANGE(Plus(s.c.rLCS, 1), SegMax, seg.seq), ~SEQ32_LT(seg.seq, Plus(s.c.CUR, 1))
  PROVE  Ahead(Peer(n), s.c, seg)
<1>p. PICK p \in Node : p = Peer(n)
  BY PeerNode
<1>1. s.c \in Conn /\ AppT(n, s.a) /\ AppT(Peer(n), b) /\ AppOK(n, s.a, b)
  BY DEF Good, StepT, PeerT
<1>2. PICK T \in Nat : T = Total(p) /\ EndOf(p, b) <= T /\ T + SegMax < Half /\ Half \in Nat /\ Half + Half = SeqSpace
  <2>1. EndOf(p, b) \in 1 .. Total(p) /\ Total(p) \in Nat /\ Total(p) + SegMax < Half
        /\ Half \in Nat /\ Half + Half = SeqSpace
    BY <1>1, <1>p, Places
  <2> QED
    BY <2>1
<1>e. PICK E \in Nat : E = EndOf(p, b) /\ E <= T
  <2>1. EndOf(p, b) \in 1 .. Total(p)
    BY <1>1, <1>p, Places
  <2> QED
    BY <2>1, <1>2
<1>3. s.c.CUR \in Seqs /\ s.c.rLCS \in Seqs /\ seg.seq \in Seqs
  BY <1>1 DEF Conn, Segs
<1>4. PICK C \in Nat : C = Pos(p, s.c.CUR)
  BY <1>3, PosOf
<1>5. PICK W \in Nat : W = Pos(p, s.c.rLCS)
  BY <1>3, PosOf
<1>6. PICK x \in Nat : x = Pos(p, seg.seq)
  BY <1>3, PosOf
<1>7. x < T
  BY <1>e, <1>6, <1>p
<1>8. W <= C /\ C < T
  <2>1. RcvOK(n, s.c, s.a, b.submitted)
    BY DEF Good, ConnOK
  <2>2. Est(n, s.c)
    BY OpenKnows
  <2>3. Pos(p, s.c.rLCS) <= Pos(p, s.c.CUR) /\ Pos(p, s.c.CUR) < First(p, b.submitted + 1)
    BY <2>1, <2>2, <1>p DEF RcvOK
  <2> QED
    BY <2>3, <1>4, <1>5, <1>e DEF EndOf
<1>9. PICK next \in Seqs : next = Plus(s.c.CUR, 1) /\ Pos(p, next) = C + 1
  <2>1. C + 1 < SeqSpace
    BY <1>2, <1>8
  <2> QED
    BY <2>1, <1>3, <1>4, PosPlus
<1>10. PICK beg \in Seqs : beg = Plus(s.c.rLCS, 1) /\ Pos(p, beg) = W + 1
  <2>1. W + 1 < SeqSpace
    BY <1>2, <1>8
  <2> QED
    BY <2>1, <1>3, <1>5, PosPlus
<1>11. C + 1 <= x
  <2>1. Pos(p, seg.seq) < Half /\ Pos(p, next) < Half
    BY <1>2, <1>6, <1>7, <1>8, <1>9
  <2>2. ~(Pos(p, seg.seq) < Pos(p, next))
    BY <2>1, <1>3, <1>9, PosLT
  <2> QED
    BY <2>2, <1>6, <1>9
<1>12. Minus(seg.seq, beg) = x - (W + 1)
  <2>1. Minus(seg.seq, beg) = IF Pos(p, seg.seq) >= Pos(p, beg) THEN Pos(p, seg.seq) - Pos(p, beg)
                          ELSE (Pos(p, seg.seq) + SeqSpace) - Pos(p, beg)
    BY <1>3, PosMinus
  <2> QED
    BY <2>1, <1>6, <1>8, <1>10, <1>11
<1>13. Minus(seg.seq, beg) < SegMax
  <2>1. SegMax \in Seqs
    BY <1>2 DEF Seqs
  <2> QED
    BY <2>1, <1>3, <1>10, RangeExact
<1>14. x <= W + SegMax
  BY <1>12, <1>13
<1> QED
  BY <1>4, <1>5, <1>6, <1>11, <1>14, <1>p DEF Ahead

\* The payload of a segment in the window, or of an old one.
LEMMA DataPartStep ==
  ASSUME Fits, NEW n \in Node, NEW s, NEW r, NEW b, Good(n, s, r, b), s.c.state = "OPEN", s.ok,
         NEW seg \in Segs, DataOK(Peer(n), seg, EndOf(Peer(n), b)), NEW late, NEW duplicate \in BOOLEAN,
         ~duplicate => IN_RANGE(Plus(s.c.rLCS, 1), SegMax, seg.seq)
  PROVE  Stepped(n, s, DataPart(s, seg, late, duplicate), r, b)
<1>1. StepT(n, s) /\ AppT(Peer(n), b) /\ AppOK(n, s.a, b)
  BY DEF Good, PeerT
<1>2. PICK sub \in 0 .. Count(Peer(n)) : sub = b.submitted
  BY <1>1 DEF AppT, Count
<1>3. RcvApp(Peer(n), s.a, sub) /\ RcvOpen(n, s.c, s.a, sub)
  BY <1>2, OpenKnows
<1>4. PICK t : t = DataPart(s, seg, late, duplicate)
  OBVIOUS
<1>5. Received(n, s, t, sub)
  <2>1. CASE duplicate \/ SEQ32_LT(seg.seq, Plus(s.c.CUR, 1))
    <3>1. t = s
      BY <2>1, <1>4 DEF DataPart
    <3> QED
      BY <3>1, <1>1, <1>3, ReceivedSame
  <2>2. CASE ~(duplicate \/ SEQ32_LT(seg.seq, Plus(s.c.CUR, 1)))
    <3>1. t = AddRcvBuffer(s, seg, late)
      BY <2>2, <1>4 DEF DataPart
    <3>2. Pos(Peer(n), seg.seq) < EndOf(Peer(n), b)
      BY DEF DataOK
    <3>3. Ahead(Peer(n), s.c, seg)
      BY <3>2, <2>2, AheadIs
    <3>4. DataOK(Peer(n), seg, First(Peer(n), sub + 1))
      BY <1>2 DEF EndOf
    <3>5. Received(n, s, AddRcvBuffer(s, seg, late), sub)
      BY <3>3, <3>4, <1>1, <1>3, AddRcvBufferStep
    <3> QED
      BY <3>1, <3>5
  <2> QED
    BY <2>1, <2>2
<1>6. RcvStep(n, s, t, b)
  BY <1>2, <1>5 DEF Received, RcvStep
<1>7. Good(n, t, r, b) /\ Moves(n, s.c, s.a, t.c, t.a, b.consumed)
  BY <1>6, RcvGood
<1> QED
  BY <1>4, <1>7 DEF Stepped

\* No change at all.
LEMMA SteppedSame ==
  ASSUME Fits, NEW n \in Node, NEW s, NEW r, NEW b, Good(n, s, r, b)
  PROVE  Stepped(n, s, s, r, b)
<1>1. StepT(n, s) /\ Core(s.c, s.c) /\ SameApp(s.a, s.a)
  BY DEF Good, Core, SameApp
<1> QED
  BY <1>1, QuietStep

\* A node that knows its peer still does.
LEMMA StillKnows ==
  ASSUME NEW n \in Node, NEW s, NEW t, NEW r, NEW b, Stepped(n, s, t, r, b), n = "B" \/ Est(n, s.c)
  PROVE  n = "B" \/ Est(n, t.c)
  BY DEF Stepped, Moves

\* A payload is acknowledged later or now.
LEMMA AcknowledgeStep ==
  ASSUME Fits, NEW n \in Node, NEW s, NEW r, NEW b, Good(n, s, r, b), n = "B" \/ Est(n, s.c),
         NEW ackNow
  PROVE  Stepped(n, s, Acknowledge(s, ackNow), r, b)
<1>1. Stepped(n, s, s, r, b)
  BY SteppedSame
<1>2. Stepped(n, s, StartAckTimer(s), r, b)
  <2>1. PICK h \in BOOLEAN : h = TRUE
    OBVIOUS
  <2>2. PICK t : t = [s EXCEPT !.c.ackTimer = h]
    OBVIOUS
  <2>3. Stepped(n, s, t, r, b)
    BY <2>2, StartAckTimerStep
  <2>4. t = StartAckTimer(s)
    BY <2>1, <2>2 DEF StartAckTimer
  <2> QED
    BY <2>3, <2>4
<1>3. PICK t : t = SendAck(s)
  OBVIOUS
<1>4. PICK u : u = [t EXCEPT !.ok = TRUE]
  OBVIOUS
<1>5. Stepped(n, s, t, r, b)
  BY <1>3, SendAckStep
<1>6. Stepped(n, t, u, r, b)
  <2>1. Good(n, t, r, b)
    BY <1>5 DEF Stepped
  <2>2. PICK h \in BOOLEAN : TRUE
    OBVIOUS
  <2> QED
    BY <2>1, <1>4, StartAckTimerStep
<1>7. Stepped(n, s, u, r, b)
  BY <1>5, <1>6, SteppedTrans
<1>8. Acknowledge(s, ackNow) \in {s, StartAckTimer(s), u}
  BY <1>3, <1>4 DEF Acknowledge
<1> QED
  BY <1>1, <1>2, <1>7, <1>8

\* A segment without SYN has a length if it has a payload.
LEMMA Length ==
  ASSUME NEW p, NEW seg, NEW r, NEW b, NEW c, NEW a, IsNormal(p, seg, r, b, c, a)
  PROVE  /\ DLEN(seg) <=> seg.data # NoData
         /\ DLEN(seg) => DataOK(p, seg, EndOf(p, b))
         /\ "RST" \notin seg.flg /\ "SYN" \notin seg.flg
  BY DEF IsNormal, DLEN, Normal

\* The rest of a segment after its acknowledgements.
LEMMA TakePartStep ==
  ASSUME Fits, NEW n \in Node, NEW s, NEW r, NEW b, Good(n, s, r, b), s.c.state = "OPEN", s.ok,
         NEW seg \in Segs, DLEN(seg) => DataOK(Peer(n), seg, EndOf(Peer(n), b)),
         NEW late, NEW ackNow, NEW duplicate \in BOOLEAN,
         DLEN(seg) /\ ~duplicate => IN_RANGE(Plus(s.c.rLCS, 1), SegMax, seg.seq)
  PROVE  Stepped(n, s, TakePart(s, seg, late, ackNow, duplicate), r, b)
<1>1. Est(n, s.c)
  BY OpenKnows
<1>2. CASE "NUL" \in seg.flg
  <2>1. PICK t : t = SendAck(s)
    OBVIOUS
  <2>2. PICK h \in BOOLEAN : h <=> s.o = "block"
    OBVIOUS
  <2>3. PICK u : u = [t EXCEPT !.ok = TRUE, !.c.ackTimer = h]
    OBVIOUS
  <2>4. Stepped(n, s, t, r, b)
    BY <2>1, <1>1, SendAckStep
  <2>5. Good(n, t, r, b)
    BY <2>4 DEF Stepped
  <2>6. Stepped(n, t, u, r, b)
    BY <2>3, <2>5, StartAckTimerStep
  <2>7. Stepped(n, s, u, r, b)
    BY <2>4, <2>6, SteppedTrans
  <2>8. h = (s.o = "block")
    BY <2>2
  <2>9. u = TakePart(s, seg, late, ackNow, duplicate)
    BY <2>1, <2>3, <2>8, <1>2, Zenon DEF TakePart
  <2> QED
    BY <2>7, <2>9
<1>3. CASE "NUL" \notin seg.flg /\ ~DLEN(seg)
  <2>1. TakePart(s, seg, late, ackNow, duplicate) = s
    BY <1>3 DEF TakePart
  <2> QED
    BY <2>1, SteppedSame
<1>4. CASE "NUL" \notin seg.flg /\ DLEN(seg)
  <2>1. PICK t : t = DataPart(s, seg, late, duplicate)
    OBVIOUS
  <2>2. Stepped(n, s, t, r, b)
    <3>1. DataOK(Peer(n), seg, EndOf(Peer(n), b)) /\ (~duplicate => IN_RANGE(Plus(s.c.rLCS, 1), SegMax, seg.seq))
      BY <1>4
    <3> QED
      BY <2>1, <3>1, DataPartStep
  <2>3. Good(n, t, r, b) /\ (n = "B" \/ Est(n, t.c))
    BY <2>2, <1>1, StillKnows DEF Stepped
  <2>4. Stepped(n, t, Acknowledge(t, ackNow), r, b)
    BY <2>3, AcknowledgeStep
  <2>5. Stepped(n, s, Acknowledge(t, ackNow), r, b)
    BY <2>2, <2>4, SteppedTrans
  <2>6. TakePart(s, seg, late, ackNow, duplicate) = Acknowledge(t, ackNow)
    BY <1>4, <2>1 DEF TakePart
  <2> QED
    BY <2>5, <2>6
<1> QED
  BY <1>2, <1>3, <1>4

\* The persist timer and the window.
LEMMA WindowPartStep ==
  ASSUME Fits, NEW n \in Node, NEW s, NEW r, NEW b, Good(n, s, r, b), NEW window \in Seqs
  PROVE  Stepped(n, s, WindowPart(s, window), r, b)
<1>1. StepT(n, s) /\ Shape(s) /\ s.c \in Conn
  BY DEF Good, StepT
<1>2. PICK t : t = WindowPart(s, window)
  OBVIOUS
<1>3. PICK z : /\ z = IF ~IsDataRetransmitScheduled(s.c) /\ window < SegMax /\ s.c.persist = 0 THEN PersistRetries
                      ELSE IF s.c.persist # 0 /\ (window >= SegMax \/ IsDataRetransmitScheduled(s.c)) THEN 0
                      ELSE s.c.persist
  OBVIOUS
<1>4. z \in 0 .. PersistRetries
  <2>1. s.c.persist \in 0 .. PersistRetries /\ PersistRetries \in Nat
    BY <1>1, ConfigAssumption DEF Conn
  <2> QED
    BY <2>1, <1>3
<1>5. t = [s EXCEPT !.c.persist = z, !.c.window = window]
  BY <1>2, <1>3 DEF WindowPart
<1>6. PICK d \in Conn : d = [s.c EXCEPT !.persist = z, !.window = window]
  <2>1. [s.c EXCEPT !.persist = z, !.window = window] \in Conn
    BY <1>1, <1>4 DEF Conn
  <2> QED
    BY <2>1
<1>7. Core(s.c, d)
  BY <1>1, <1>6 DEF Conn, Core
<1>8. Shape(t) /\ t.c = d /\ t.a = s.a /\ t.jam = s.jam /\ t.out = s.out /\ t.o = s.o
      /\ t.ok = s.ok /\ t.broken = s.broken
  BY <1>1, <1>5, <1>6 DEF Shape
<1>9. StepT(n, t) /\ SameApp(s.a, t.a)
  BY <1>1, <1>8 DEF StepT, SameApp
<1>10. Stepped(n, s, t, r, b)
  BY <1>7, <1>8, <1>9, QuietStep
<1> QED
  BY <1>2, <1>10

\* The end of a segment.
LEMMA SettledStep ==
  ASSUME Fits, NEW n \in Node, NEW s, NEW r, NEW b, Good(n, s, r, b), NEW window \in Seqs
  PROVE  Stepped(n, s, Settled(s, window), r, b)
<1>1. Stepped(n, s, WindowPart(s, window), r, b)
  BY WindowPartStep
<1>2. PICK reason \in Statuses : reason = "error"
  BY DEF Statuses, Reasons
<1>3. Stepped(n, s, Disconnect(s, reason), r, b)
  BY DisconnectGood DEF Stepped
<1> QED
  BY <1>1, <1>2, <1>3 DEF Settled

\* The sequence numbers that a handler computes.
LEMMA NumbersIn ==
  ASSUME Fits, NEW c \in Conn, NEW seg \in Segs
  PROVE  WINDOW(c, seg) \in Seqs /\ SegMax \in Seqs /\ SegMax < Half
<1>1. PICK T \in Nat : T + SegMax < Half /\ Half \in Nat /\ Half + Half = SeqSpace
  <2>1. PICK n \in Node : TRUE
    BY DEF Node
  <2> QED
    BY <2>1, FirstIs
<1>2. SegMax \in Seqs
  BY <1>1 DEF Seqs
<1>3. \A x \in Seqs : \A y \in Seqs : Minus(x, y) \in Seqs /\ Plus(x, 1) \in Seqs
  BY DEF Minus, Plus, Seqs
<1>4. c.NXT \in Seqs /\ seg.lcs \in Seqs
  BY DEF Conn, Segs
<1>5. PICK l \in Seqs : l = Plus(seg.lcs, 1)
  BY <1>3, <1>4
<1>6. PICK w \in Seqs : w = Minus(c.NXT, l)
  BY <1>3, <1>4
<1>7. WINDOW(c, seg) = Minus(SegMax, w)
  BY <1>5, <1>6 DEF WINDOW
<1> QED
  BY <1>1, <1>2, <1>3, <1>7

\* A segment after its acknowledgements: t is the step state that these left.
LEMMA PayloadPartStep ==
  ASSUME Fits, NEW n \in Node, NEW s, NEW t, NEW r, NEW b, Good(n, s, r, b), s.c.state = "OPEN",
         AckedTo(n, s, t, r, b),
         NEW seg \in Segs, DLEN(seg) => DataOK(Peer(n), seg, EndOf(Peer(n), b)),
         NEW late, NEW ackNow, NEW duplicate \in BOOLEAN, NEW window \in Seqs,
         DLEN(seg) /\ ~duplicate => IN_RANGE(Plus(s.c.rLCS, 1), SegMax, seg.seq)
  PROVE  Stepped(n, s, PayloadPart(t, seg, late, ackNow, duplicate, window), r, b)
<1>1. /\ Loose(n, t, r, b) /\ (t.ok => Good(n, t, r, b))
      /\ Moves(n, s.c, s.a, t.c, t.a, b.consumed) /\ SndOnly(s.c, t.c)
  BY DEF AckedTo
<1>2. t.c.state = "OPEN" /\ t.c.rLCS = s.c.rLCS
  BY <1>1 DEF SndOnly
<1>3. CASE ~t.ok
  <2>1. PICK reason \in {"reset", "invalid", "timeout", "error"} : reason = "invalid"
    OBVIOUS
  <2>2. ~Closed(t.c)
    BY <1>2 DEF Closed
  <2>3. PICK u : u = Disconnect(t, reason)
    OBVIOUS
  <2>4. Good(n, u, r, b) /\ Moves(n, t.c, t.a, u.c, u.a, b.consumed)
    BY <2>2, <2>3, <1>1, DisconnectLoose
  <2>5. s.c \in Conn /\ t.c \in Conn /\ u.c \in Conn /\ AppT(n, s.a) /\ AppT(n, t.a) /\ AppT(n, u.a)
    BY <2>4, <1>1 DEF Good, Loose, StepT
  <2>6. PICK c1 \in Conn, c2 \in Conn, c3 \in Conn : c1 = s.c /\ c2 = t.c /\ c3 = u.c
    BY <2>5
  <2>7. Moves(n, c1, s.a, c2, t.a, b.consumed) /\ Moves(n, c2, t.a, c3, u.a, b.consumed)
    BY <2>4, <2>6, <1>1
  <2>8. Moves(n, c1, s.a, c3, u.a, b.consumed)
    BY <2>5, <2>7, MovesTrans
  <2>9. Stepped(n, s, u, r, b)
    BY <2>4, <2>6, <2>8 DEF Stepped
  <2>10. PayloadPart(t, seg, late, ackNow, duplicate, window) = u
    BY <1>3, <2>1, <2>3 DEF PayloadPart
  <2> QED
    BY <2>9, <2>10
<1>4. CASE t.ok
  <2>1. Stepped(n, s, t, r, b) /\ Good(n, t, r, b)
    BY <1>1, <1>4 DEF Stepped
  <2>2. PICK u : u = TakePart(t, seg, late, ackNow, duplicate)
    OBVIOUS
  <2>3. DLEN(seg) /\ ~duplicate => IN_RANGE(Plus(t.c.rLCS, 1), SegMax, seg.seq)
    BY <1>2
  <2>4. Stepped(n, t, u, r, b)
    BY <2>1, <2>2, <2>3, <1>2, <1>4, TakePartStep
  <2>5. Good(n, u, r, b)
    BY <2>4 DEF Stepped
  <2>6. Stepped(n, u, Settled(u, window), r, b)
    BY <2>5, SettledStep
  <2>7. Stepped(n, s, u, r, b)
    BY <2>1, <2>4, SteppedTrans
  <2>8. Stepped(n, s, Settled(u, window), r, b)
    BY <2>6, <2>7, SteppedTrans
  <2>9. PayloadPart(t, seg, late, ackNow, duplicate, window) = Settled(u, window)
    BY <1>4, <2>2 DEF PayloadPart
  <2> QED
    BY <2>8, <2>9
<1> QED
  BY <1>3, <1>4

\* The peer has given up nothing that is still to come.
LEMMA NothingExpired ==
  ASSUME Fits, NEW n \in Node, NEW s, NEW r, NEW b, Good(n, s, r, b), s.c.state = "OPEN",
         NEW seg \in Segs, IsNormal(Peer(n), seg, r, b, s.c, s.a)
  PROVE  ~SEQ32_LT(Plus(s.c.CUR, 1), seg.acknxt)
<1>p. PICK p \in Node : p = Peer(n) /\ Peer(p) = n
  BY PeerNode
<1>1. s.c \in Conn /\ AppT(n, s.a) /\ AppT(Peer(n), b) /\ AppOK(n, s.a, b)
  BY DEF Good, StepT, PeerT
<1>2. PICK E \in Nat : E = EndOf(p, b) /\ E < Half /\ Half \in Nat /\ Half + Half = SeqSpace
  <2>1. EndOf(p, b) \in 1 .. Total(p) /\ Total(p) \in Nat /\ Total(p) + SegMax < Half
        /\ Half \in Nat /\ Half + Half = SeqSpace
    BY <1>1, <1>p, Places
  <2> QED
    BY <2>1
<1>3. s.c.CUR \in Seqs /\ seg.acknxt \in Seqs
  BY <1>1 DEF Conn, Segs
<1>4. PICK C \in Nat : C = Pos(p, s.c.CUR)
  BY <1>3, PosOf
<1>5. PICK x \in Nat : x = Pos(p, seg.acknxt)
  BY <1>3, PosOf
<1>6. Est(n, s.c) /\ s.c # NoConn
  BY OpenKnows
<1>7. Knows(n, s.c)
  BY <1>6 DEF Knows
<1>8. x <= E /\ x <= C + 1
  BY <1>2, <1>4, <1>5, <1>7, <1>p DEF IsNormal
<1>9. C < E
  <2>1. RcvOK(n, s.c, s.a, b.submitted)
    BY DEF Good, ConnOK
  <2> QED
    BY <2>1, <1>2, <1>4, <1>6, <1>p DEF RcvOK, EndOf
<1>10. PICK next \in Seqs : next = Plus(s.c.CUR, 1) /\ Pos(p, next) = C + 1
  <2>1. C + 1 < SeqSpace
    BY <1>2, <1>9
  <2> QED
    BY <2>1, <1>3, <1>4, PosPlus
<1>11. ~SEQ32_LT(next, seg.acknxt)
  <2>0. C + 1 < Half \/ C + 1 = E
    BY <1>2, <1>9
  <2>1. Pos(p, next) < Half /\ Pos(p, seg.acknxt) < Half
    BY <2>0, <1>2, <1>5, <1>8, <1>9, <1>10
  <2>2. ~(Pos(p, next) < Pos(p, seg.acknxt))
    BY <1>5, <1>8, <1>10
  <2> QED
    BY <2>1, <2>2, <1>3, PosLT
<1> QED
  BY <1>10, <1>11

\* A segment for an open connection.
LEMMA MachineOpenStep ==
  ASSUME Fits, NEW n \in Node, NEW s, NEW r, NEW b, Good(n, s, r, b), s.c.state = "OPEN", s.ok,
         NEW seg \in Segs, SegOK(Peer(n), seg, r, b, s.c, s.a), NEW late, NEW ackNow
  PROVE  Stepped(n, s, MachineOpen(s, seg, late, ackNow), r, b)
<1>1. Est(n, s.c) /\ s.c \in Conn
  BY OpenKnows
<1>2. PICK inWindow \in BOOLEAN :
         inWindow <=> IN_RANGE(Plus(s.c.rLCS, 1), IF DLEN(seg) THEN SegMax ELSE SegMax + 1, seg.seq)
  OBVIOUS
<1>3. inWindow = IN_RANGE(Plus(s.c.rLCS, 1), IF DLEN(seg) THEN SegMax ELSE SegMax + 1, seg.seq)
  BY <1>2 DEF IN_RANGE
<1>4. PICK duplicate \in BOOLEAN :
         duplicate <=> /\ ~inWindow /\ DLEN(seg)
                       /\ IN_RANGE(Minus(Plus(s.c.CUR, 1), SegMax), SegMax, seg.seq)
  OBVIOUS
<1>5. duplicate = (/\ ~inWindow /\ DLEN(seg)
                   /\ IN_RANGE(Minus(Plus(s.c.CUR, 1), SegMax), SegMax, seg.seq))
  BY <1>4
<1>6. PICK flushed : flushed = IF SEQ32_LT(Plus(s.c.CUR, 1), seg.acknxt)
                     THEN FlushExpiredRcvMessages(s, seg.acknxt, late) ELSE s
  OBVIOUS
<1>7. PICK t : t = MachineOpen(s, seg, late, ackNow)
  OBVIOUS
<1>8. t = IF "RST" \in seg.flg THEN Disconnect(s, "reset")
          ELSE IF ~inWindow /\ ~duplicate THEN Disconnect(s, "invalid")
          ELSE IF "SYN" \in seg.flg
               THEN IF duplicate /\ ~s.c.passive /\ "ACK" \in seg.flg /\ seg.ack = Iss["A"]
                    THEN SendAck(s) ELSE Disconnect(s, "invalid")
          ELSE PayloadPart(AckPart(flushed, seg), seg, late, ackNow, duplicate, WINDOW(s.c, seg))
  BY <1>3, <1>5, <1>6, <1>7, Zenon DEF MachineOpen
<1>9. PICK r1 \in Statuses, r2 \in Statuses : r1 = "reset" /\ r2 = "invalid"
  BY DEF Statuses, Reasons
<1>10. Stepped(n, s, Disconnect(s, r1), r, b) /\ Stepped(n, s, Disconnect(s, r2), r, b)
  BY DisconnectGood DEF Stepped
<1>11. Stepped(n, s, SendAck(s), r, b)
  BY <1>1, SendAckStep
<1>12. CASE "RST" \in seg.flg \/ (~inWindow /\ ~duplicate) \/ "SYN" \in seg.flg
  BY <1>7, <1>8, <1>9, <1>10, <1>11, <1>12
<1>13. CASE "RST" \notin seg.flg /\ (inWindow \/ duplicate) /\ "SYN" \notin seg.flg
  <2>1. IsNormal(Peer(n), seg, r, b, s.c, s.a)
    BY <1>13 DEF SegOK, IsRst, IsSyn
  <2>2. flushed = s
    BY <2>1, <1>6, NothingExpired
  <2>3. PICK u : u = AckPart(s, seg)
    OBVIOUS
  <2>4. AckedTo(n, s, u, r, b)
    BY <2>1, <2>3, AckPartStep
  <2>5. DLEN(seg) => DataOK(Peer(n), seg, EndOf(Peer(n), b))
    BY <2>1, Length
  <2>6. PICK window \in Seqs : window = WINDOW(s.c, seg)
    BY <1>1, NumbersIn
  <2>7. DLEN(seg) /\ ~duplicate => IN_RANGE(Plus(s.c.rLCS, 1), SegMax, seg.seq)
    BY <1>2, <1>13
  <2>8. Stepped(n, s, PayloadPart(u, seg, late, ackNow, duplicate, window), r, b)
    BY <2>4, <2>5, <2>7, PayloadPartStep
  <2>9. t = PayloadPart(u, seg, late, ackNow, duplicate, window)
    BY <1>8, <1>13, <2>2, <2>3, <2>6
  <2> QED
    BY <2>8, <2>9, <1>7
<1> QED
  BY <1>12, <1>13

\* The initial sequence number has position 0.
LEMMA IssAt ==
  ASSUME Fits, NEW n \in Node
  PROVE  /\ Iss[n] \in Seqs /\ Pos(n, Iss[n]) = 0 /\ SeqAt(n, 1) = Plus(Iss[n], 1)
         /\ First(n, 1) = 1 /\ SeqAt(n, 0) = Iss[n]
<1>1. PICK z \in Seqs : z = Iss[n]
  BY IssAssumption
<1>2. Minus(z, z) = 0 /\ Plus(z, 0) = z
  BY DEF Minus, Seqs, Plus
<1>3. First(n, 1) = 1
  BY FirstIs
<1> QED
  BY <1>1, <1>2, <1>3 DEF Pos, SeqAt

\* The connection d that c becomes when it opens.
Opened(n, c, d) ==
  /\ d.state = "OPEN" /\ d.passive = c.passive /\ d.local = c.local /\ d.foreign = 1
  /\ d.NXT = c.NXT /\ d.UNA = Plus(c.LCS, 1) /\ d.LCS = c.LCS /\ d.pending = c.pending
  /\ d.sbuf = c.sbuf /\ d.eack = c.eack /\ d.conTimer = "off" /\ d.reason = c.reason
  /\ d.CUR = Iss[Peer(n)] /\ d.rLCS = Iss[Peer(n)]
  /\ \A i \in Ring : ~d.rbuf[i].inUse /\ ~d.rbuf[i].delivered /\ d.rbuf[i].ttl = "inf"

HalfOpen(c) == c.state \in {"SYN_SENT", "SYN_RCVD"}

\* Before a connection opens, nothing was sent or received.
LEMMA HalfOpenIs ==
  ASSUME Fits, NEW n \in Node, NEW s, NEW r, NEW b, Good(n, s, r, b), HalfOpen(s.c)
  PROVE  /\ s.a.submitted = 0 /\ s.a.rcvd = <<>> /\ s.a.consumed = 0 /\ s.a.held = <<>>
         /\ s.c.LCS = Iss[n] /\ s.c.NXT = SeqAt(n, 1) /\ ~Est(n, s.c) /\ s.c.eack = NoEack
         /\ s.c.reason = "none" /\ SndAt(n, s.c, s.a, b.consumed, 1)
<1>1. /\ Ctl(n, s.c, s.a) /\ SndOK(n, s.c, s.a, b.consumed) /\ s.c \in Conn /\ AppT(n, s.a)
      /\ RcvApp(Peer(n), s.a, b.submitted)
  BY DEF Good, ConnOK, AppOK, StepT
<1>2. ~Est(n, s.c) /\ s.c.eack = NoEack /\ s.c.reason = "none" /\ s.a.submitted = 0 /\ s.a.rcvd = <<>>
  BY <1>1 DEF Ctl, HalfOpen, Closed
<1>3. s.a.consumed = 0
  <2>1. s.a.consumed \in Nat /\ s.a.consumed <= 0
    BY <1>1, <1>2 DEF AppT, RcvApp
  <2> QED
    BY <2>1
<1>4. s.a.held = <<>>
  <2>1. s.a.held = [k \in 1 .. Len(s.a.rcvd) - s.a.consumed |-> Slot(Peer(n), First(Peer(n), s.a.consumed + k))]
    BY <1>1 DEF RcvApp
  <2>2. Len(s.a.rcvd) - s.a.consumed = 0
    BY <1>2, <1>3
  <2>3. s.a.held \in Seq(Ring) /\ DOMAIN s.a.held = 1 .. 0
    BY <2>1, <2>2, <1>1 DEF AppT
  <2>4. Len(s.a.held) = 0
    <3>1. Len(s.a.held) \in Nat /\ DOMAIN s.a.held = 1 .. Len(s.a.held)
      BY <2>3, LenProperties
    <3>2. PICK l \in Nat : l = Len(s.a.held)
      BY <3>1
    <3>a. 1 .. l = 1 .. 0
      BY <2>3, <3>1, <3>2, Zenon
    <3>b. 1 \notin 1 .. 0
      OBVIOUS
    <3>3. 1 \notin 1 .. l
      BY <3>a, <3>b, Zenon
    <3>4. l = 0
      BY <3>3
    <3> QED
      BY <3>2, <3>4
  <2> QED
    BY <2>3, <2>4, EmptySeq
<1>5. SndAt(n, s.c, s.a, b.consumed, 1)
  <2>1. PICK f \in 1 .. s.a.submitted + 1 : SndAt(n, s.c, s.a, b.consumed, f)
    BY <1>1 DEF SndOK
  <2>2. f = 1
    BY <2>1, <1>2
  <2> QED
    BY <2>1, <2>2
<1>6. EndOf(n, s.a) = 1
  BY <1>2, IssAt DEF EndOf
<1>7. s.c.NXT = SeqAt(n, 1) /\ Pos(n, s.c.LCS) < 1
  BY <1>5, <1>6 DEF SndAt, SndNumbers
<1>8. s.c.LCS = Iss[n]
  <2>1. PICK l \in Seqs : l = s.c.LCS
    BY <1>1 DEF Conn
  <2>2. Pos(n, l) \in 0 .. SeqSpace - 1
    BY PosOf
  <2>3. Pos(n, l) = 0
    BY <2>1, <2>2, <1>7
  <2>4. Iss[n] \in Seqs /\ Pos(n, Iss[n]) = 0
    BY IssAt
  <2> QED
    BY <2>1, <2>3, <2>4, PosEq
<1> QED
  BY <1>2, <1>3, <1>4, <1>5, <1>7, <1>8

\* A receiver that has just opened.
LEMMA OpenedRcv ==
  ASSUME Fits, NEW n \in Node, NEW c \in Conn, NEW d \in Conn, NEW a, AppT(n, a), NEW sub \in 0 .. Count(Peer(n)),
         Opened(n, c, d), c.eack = NoEack, a.rcvd = <<>>, a.consumed = 0
  PROVE  RcvOpen(n, d, a, sub)
<1>p. PICK p \in Node : p = Peer(n)
  BY PeerNode
<1>N. PICK N \in Nat : N = Count(p) /\ sub \in 0 .. N
  <2>1. Count(p) \in Nat /\ sub \in 0 .. Count(p)
    BY <1>p, FirstIs
  <2> QED
    BY <2>1
<1>1. Iss[p] \in Seqs /\ Pos(p, Iss[p]) = 0 /\ First(p, 1) = 1
  BY IssAt
<1>2. d.CUR = Iss[p] /\ d.rLCS = Iss[p]
  BY <1>p DEF Opened
<1>3. PICK r \in Nat, W \in Nat, D \in Nat : Reach(p, a, sub, r, W, D) /\ r = 0 /\ W = 0 /\ D = 1
  <2>1. a.rcvd \in Seq(Seq(Nat \X Nat)) /\ a.consumed \in Nat /\ sub \in 0 .. Count(p)
    BY <1>p DEF AppT
  <2>2. sub + 1 \in 1 .. Count(p) + 1 /\ 1 \in 1 .. Count(p) + 1 /\ 1 <= sub + 1 /\ Count(p) \in Nat
    BY <1>N
  <2>3. First(p, sub + 1) \in Nat /\ First(p, sub + 1) <= Total(p)
    BY <2>2, FirstMono
  <2>4. First(p, sub + 1) >= 1
    BY <2>2, FirstMono
  <2>5. Reach(p, a, sub, 0, 0, 1)
    BY <2>1, <2>2, <2>3, <2>4, <1>1 DEF Reach
  <2> QED
    BY <2>5
<1>4. RcvFront(p, sub, r, W, D, 0)
  <2>1. r < sub => 0 < First(p, r + 2) - 1
    <3> SUFFICES ASSUME r < sub PROVE 0 < First(p, 2) - 1
      BY <1>3
    <3>1. 1 \in 1 .. Count(p)
      <4>1. 1 \in 1 .. N
        BY <1>3, <1>N
      <4> QED
        BY <4>1, <1>N
    <3>2. First(p, 1 + 1) = First(p, 1) + Msgs[p][1].fcnt /\ Msgs[p][1].fcnt \in 1 .. SegMax
      BY <3>1, Message
    <3> QED
      BY <3>2, <1>1
  <2>2. 0 <= SegMax
    OBVIOUS
  <2> QED
    BY <2>1, <2>2, <1>3 DEF RcvFront
<1>5. \A i \in Ring : ~d.rbuf[i].inUse /\ ~d.rbuf[i].delivered /\ d.rbuf[i].ttl = "inf"
  BY DEF Opened
<1>6. \A x \in W + 1 .. W + SegMax : Slot(p, x) \in Ring
  BY <1>3, <1>p, WindowSlot
<1>7. RcvRing(p, d, sub, W, D, 0)
  <2> SUFFICES ASSUME NEW x \in W + 1 .. W + SegMax PROVE RcvBufOK(p, d.rbuf[Slot(p, x)], sub, D, 0, x)
    BY DEF RcvRing
  <2>1. ~(x < D) /\ ~(x <= 0)
    BY <1>3
  <2>2. ~d.rbuf[Slot(p, x)].inUse /\ ~d.rbuf[Slot(p, x)].delivered
    BY <1>5, <1>6
  <2> QED
    BY <2>1, <2>2 DEF RcvBufOK
<1>8. RcvMask(p, d, W, 0)
  <2>1. d.eack = NoEack
    BY DEF Opened
  <2>0. NoEack.htnMask = NoEack.mask
    BY DEF NoEack
  <2>2. WellFormed(d.eack) /\ Announced(d.eack.mask) = {} /\ d.eack.htnMask = d.eack.mask
    BY <2>0, <2>1, NoEackWellFormed
  <2>3. ASSUME NEW k \in Nat \ {0} PROVE ~(0 + 1 + k <= W + SegMax /\ d.rbuf[Slot(p, 0 + 1 + k)].inUse)
    <3> SUFFICES ASSUME 0 + 1 + k <= W + SegMax PROVE ~d.rbuf[Slot(p, 0 + 1 + k)].inUse
      OBVIOUS
    <3>1. 0 + 1 + k \in W + 1 .. W + SegMax
      BY <1>3
    <3> QED
      BY <3>1, <1>5, <1>6
  <2> QED
    BY <2>2, <2>3 DEF RcvMask
<1>9. RcvParts(p, d, sub, r, W, D, 0)
  BY <1>1, <1>2, <1>3, <1>4, <1>5, <1>7, <1>8 DEF RcvParts
<1>10. RcvAt(p, d, a, sub, 0)
  BY <1>3, <1>9, RcvAtIs
<1>11. 1 \in W + 1 .. W + SegMax
  BY <1>3
<1>12. ~d.rbuf[Slot(p, 0 + 1)].inUse
  BY <1>5, <1>6, <1>11
<1> QED
  BY <1>1, <1>2, <1>10, <1>12, <1>p DEF RcvOpen

\* A connection that opens.
LEMMA OpenedStep ==
  ASSUME Fits, NEW n \in Node, NEW s, NEW t, NEW r, NEW b, Good(n, s, r, b), HalfOpen(s.c),
         StepT(n, t), Opened(n, s.c, t.c), t.a = s.a, t.out = {}
  PROVE  Stepped(n, s, t, r, b)
<1>p. PICK p \in Node : p = Peer(n)
  BY PeerNode
<1>1. /\ s.a.submitted = 0 /\ s.a.rcvd = <<>> /\ s.a.consumed = 0 /\ s.a.held = <<>>
      /\ s.c.LCS = Iss[n] /\ s.c.NXT = SeqAt(n, 1) /\ ~Est(n, s.c) /\ s.c.eack = NoEack
      /\ s.c.reason = "none" /\ SndAt(n, s.c, s.a, b.consumed, 1)
  BY HalfOpenIs
<1>2. /\ Ctl(n, s.c, s.a) /\ s.c \in Conn /\ t.c \in Conn /\ AppT(n, s.a) /\ AppT(Peer(n), b)
      /\ AppOK(n, s.a, b) /\ PeerT(n, r, b)
  BY DEF Good, ConnOK, StepT, PeerT
<1>3. Iss[n] \in Seqs /\ Pos(n, Iss[n]) = 0 /\ SeqAt(n, 1) = Plus(Iss[n], 1) /\ First(n, 1) = 1
  BY IssAt
<1>4. Pos(n, t.c.UNA) = 1 /\ t.c.UNA # Iss[n]
  <2>1. t.c.UNA = Plus(Iss[n], 1)
    BY <1>1 DEF Opened
  <2>2. Pos(n, Iss[n]) + 1 < SeqSpace
    <3>1. Half \in Nat /\ Half + Half = SeqSpace /\ Total(n) \in Nat /\ Total(n) + SegMax < Half
      BY FirstIs
    <3> QED
      BY <3>1, <1>3
  <2>3. Pos(n, Plus(Iss[n], 1)) = Pos(n, Iss[n]) + 1
    BY <1>3, <2>2, PosPlus
  <2> QED
    BY <2>1, <2>3, <1>3
<1>5. Est(n, t.c)
  BY <1>4 DEF Est
<1>6. Ctl(n, t.c, t.a)
  <2>1. t.c.state = "OPEN" /\ t.c.passive = s.c.passive /\ t.c.local = s.c.local /\ t.c.foreign = 1
        /\ t.c.conTimer = "off" /\ t.c.reason = "none"
    BY <1>1 DEF Opened
  <2>2. t.a.disconnectCb = <<>>
    BY <1>1, <1>2 DEF Ctl
  <2>3. s.c.local = 1 /\ s.c.passive = (n = "B")
    BY <1>2 DEF Ctl
  <2> QED
    BY <2>1, <2>2, <2>3, <1>5 DEF Ctl, Closed
<1>7. SndOK(n, t.c, t.a, b.consumed)
  <2>1. EndOf(n, s.a) = 1
    BY <1>1, <1>3 DEF EndOf
  <2>2. t.c.sbuf = s.c.sbuf /\ t.c.pending = s.c.pending /\ t.c.NXT = s.c.NXT /\ t.c.LCS = s.c.LCS
    BY DEF Opened
  <2>3. RingHolds(n, t.c, First(n, 1) .. EndOf(n, t.a) - 1)
    BY <2>2, <1>1, RingSame DEF SndAt
  <2>4. b.consumed \in Nat
    BY <1>2 DEF AppT
  <2>5. SndNumbers(n, t.c, t.a, b.consumed, 1, EndOf(n, t.a))
    <3>1. SndNumbers(n, s.c, s.a, b.consumed, 1, 1)
      BY <2>1, <1>1 DEF SndAt
    <3>2. 1 <= b.consumed + 1
      BY <2>4
    <3> QED
      BY <3>1, <3>2, <2>1, <2>2, <1>4 DEF SndNumbers
  <2>6. SndAt(n, t.c, t.a, b.consumed, 1)
    BY <2>3, <2>5, <1>1 DEF SndAt
  <2>7. 1 \in 1 .. t.a.submitted + 1
    BY <1>1
  <2> QED
    BY <2>6, <2>7 DEF SndOK
<1>8. RcvOK(n, t.c, t.a, b.submitted)
  <2>1. PICK sub \in 0 .. Count(Peer(n)) : sub = b.submitted
    BY <1>2 DEF AppT, Count
  <2>2. RcvOpen(n, t.c, t.a, sub)
    BY <1>1, <1>2, OpenedRcv
  <2>3. RcvApp(Peer(n), t.a, sub)
    BY <2>1, <1>2 DEF AppOK
  <2>4. AppT(n, t.a)
    BY <1>2
  <2>5. RcvOK(n, t.c, t.a, sub)
    BY <2>2, <2>3, <2>4, <1>2, RcvOpened
  <2> QED
    BY <2>1, <2>5
<1>9. Knows(Peer(n), r) => Pos(n, t.c.UNA) <= Pos(n, r.CUR) + 1
  <2> SUFFICES ASSUME Knows(Peer(n), r) PROVE Pos(n, t.c.UNA) <= Pos(n, r.CUR) + 1
    OBVIOUS
  <2>1. r.CUR \in Seqs
    BY <1>2 DEF Knows, PeerT, Conn
  <2>2. Pos(n, r.CUR) \in 0 .. SeqSpace - 1
    BY <2>1, PosOf
  <2> QED
    BY <2>2, <1>4
<1>10. Good(n, t, r, b)
  BY <1>2, <1>6, <1>7, <1>8, <1>9 DEF Good, ConnOK
<1>11. Moves(n, s.c, s.a, t.c, t.a, b.consumed)
  <2>1. Len(s.a.rcvd) <= Len(t.a.rcvd)
    BY <1>1
  <2>2. Knows(n, s.c) => Pos(p, s.c.CUR) <= Pos(p, t.c.CUR)
    <3> SUFFICES ASSUME Knows(n, s.c) PROVE Pos(p, s.c.CUR) <= Pos(p, t.c.CUR)
      OBVIOUS
    <3>1. n = "B" /\ p = "A"
      BY <1>1, <1>p DEF Knows, Peer
    <3>2. s.c.CUR = Iss["A"] /\ t.c.CUR = Iss["A"]
      BY <3>1, <1>1, <1>2, <1>p DEF Ctl, Opened
    <3>3. Pos(p, Iss[p]) = 0
      BY IssAt
    <3> QED
      BY <3>1, <3>2, <3>3
  <2>3. CbMoves(n, s.a, t.a, b.consumed)
    BY DEF CbMoves
  <2> QED
    BY <2>1, <2>2, <2>3, <1>1, <1>p DEF Moves
<1> QED
  BY <1>10, <1>11 DEF Stepped
=============================================================================
