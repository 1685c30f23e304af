------------------------------ MODULE ArdpSeq ------------------------------
(* Sequence numbers of ARDP: unsigned integers modulo SeqSpace (2^32 in the   *)
(* code), compared through the sign of their difference.                    *)
EXTENDS Naturals

CONSTANT SeqSpace     \* the number of sequence numbers

ASSUME SeqSpaceAssumption == SeqSpace \in Nat /\ SeqSpace > 1 /\ SeqSpace % 2 = 0

Seqs == 0 .. SeqSpace - 1

\* Mutant: the sum does not wrap.
PlusUnwrapped(a, k) == a + k

(* a + k and a - b as the code computes them on uint32_t.                   *)
Plus(a, k) == IF a + k < SeqSpace THEN a + k ELSE a + k - SeqSpace

Minus(a, b) == IF a >= b THEN a - b ELSE (a + SeqSpace) - b

(* (int32_t)(a - b) < 0: the top bit of the difference is set.              *)
SEQ32_LT(a, b) == Minus(a, b) >= SeqSpace \div 2

SEQ32_LET(a, b) == SEQ32_LT(a, b) \/ a = b

(* p is one of the sz numbers that start with beg.                          *)
IN_RANGE(beg, sz, p) ==
    LET end == Plus(beg, sz)
    IN  \/ end > beg /\ p >= beg /\ p < end
        \/ end < beg /\ ~(p < beg /\ p >= end)

=============================================================================
