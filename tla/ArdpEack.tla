------------------------------ MODULE ArdpEack ------------------------------
(* The EACK bit mask of an ARDP receiver.  Bit d (d = 1, 2, ...) stands for *)
(* the segment rcv.CUR + 1 + d, which has arrived out of order.  The mask   *)
(* is an array of words; a word is the set of its bit positions that are    *)
(* set, position 0 being the most significant.  htnMask is the copy in      *)
(* network order that goes into the header of the next segment; byte order  *)
(* is abstracted, when the copy is refreshed is not.                        *)
EXTENDS Integers, FiniteSetsExt

CONSTANTS
    SegMax,         \* number of segments the receiver can buffer
    WordBits        \* bits in a word of the mask, 32 in the code

ASSUME SegMaxAssumption == SegMax \in Nat \ {0}
ASSUME WordBitsAssumption == WordBits \in Nat \ {0}

(* ackMaskSize of InitSnd.                                                  *)
Words == (SegMax + WordBits - 1) \div WordBits

NoEack == [mask |-> [w \in 0 .. Words - 1 |-> {}],
           htnMask |-> [w \in 0 .. Words - 1 |-> {}],
           sz |-> 0]

(* Set the bit of the segment delta places behind the first missing one.    *)
AddRcvMsk(eack, delta) ==
    LET bin32 == (delta - 1) \div WordBits
        bit == (delta - 1) - bin32 * WordBits
        word == eack.mask[bin32] \cup {bit}
    IN  [mask |-> [eack.mask EXCEPT ![bin32] = word],
         htnMask |-> [eack.htnMask EXCEPT ![bin32] = word],
         sz |-> IF eack.sz < bin32 + 1 THEN bin32 + 1 ELSE eack.sz]

ShiftLeft(word) == {b - 1 : b \in word \ {0}}

(* Word w after the shift: its own bits and the top bit of the next word.   *)
Shifted(eack, w) ==
    ShiftLeft(eack.mask[w]) \cup
        (IF w + 1 < eack.sz /\ 0 \in eack.mask[w + 1] THEN {WordBits - 1} ELSE {})

(* The size of the shifted mask, from the last word that the loop does not  *)
(* skip.                                                                    *)
ShiftedSize(eack) ==
    LET nonEmpty == {w \in 1 .. eack.sz - 1 : eack.mask[w] # {}}
        last == Max(nonEmpty)
    IN  IF nonEmpty = {} THEN (IF ShiftLeft(eack.mask[0]) # {} THEN 1 ELSE 0)
        ELSE IF ShiftLeft(eack.mask[last]) # {} THEN last + 1
        ELSE last

\* Mutant: the word behind the loop is forgotten.
RefreshedInLoop(eack) == {w \in 0 .. eack.sz - 2 : eack.mask[w + 1] # {}}

(* The words of htnMask that the shift refreshes: word w in the turn of the *)
(* loop for word w + 1, which is skipped when that word is empty, and the   *)
(* last word after the loop.                                                *)
Refreshed(eack) ==
    {w \in 0 .. eack.sz - 1 : w = eack.sz - 1 \/ eack.mask[w + 1] # {}}

ShiftRcvMsk(eack) ==
    IF eack.sz = 0 THEN eack
    ELSE [mask |-> [w \in DOMAIN eack.mask |->
                        IF w < eack.sz THEN Shifted(eack, w) ELSE eack.mask[w]],
          htnMask |-> [w \in DOMAIN eack.htnMask |->
                        IF w \in Refreshed(eack) THEN Shifted(eack, w)
                        ELSE eack.htnMask[w]],
          sz |-> ShiftedSize(eack)]

(* The offsets d that a mask announces.                                     *)
Announced(mask) ==
    UNION {{w * WordBits + b + 1 : b \in mask[w]} : w \in DOMAIN mask}

=============================================================================
