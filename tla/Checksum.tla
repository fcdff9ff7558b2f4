------------------------------ MODULE Checksum ------------------------------
(***************************************************************************)
(* generate_16bit_fletcher (checksum.c) at the widths it has: a loop over  *)
(* the bytes with two 16-bit sums that are brought back to about a byte    *)
(* after every 20 of them.                                                 *)
(***************************************************************************)
EXTENDS Integers, Sequences

VARIABLES
    buf,        \* the bytes
    pos,        \* how many of them have been added
    sum1, sum2

sumVars == <<buf, pos, sum1, sum2>>

Block == 20

Byte == 0..255

\* uint16_t
WordSize == 65536

Word(n) == n % WordSize

FoldAway(sum) == sum % 256

Fold(sum) == (sum % 256) + (sum \div 256)

SumTypeOK ==
    /\ buf \in Seq(Byte)
    /\ pos \in 0..Len(buf)
    /\ sum1 \in Nat /\ sum1 < WordSize
    /\ sum2 \in Nat /\ sum2 < WordSize

Start(bytes) ==
    /\ buf' = bytes
    /\ pos' = 0 /\ sum1' = 255 /\ sum2' = 255

(***************************************************************************)
(* sum2 += sum1 += *pointer++.  Both sums are folded when a block is over. *)
(***************************************************************************)
BlockEndsLate(k) == k % 30 = 0 \/ k = Len(buf)

BlockEnds(k) == k % Block = 0 \/ k = Len(buf)

AddByte ==
    /\ pos < Len(buf)
    /\ pos' = pos + 1
    /\ LET s1 == Word(sum1 + buf[pos'])
           s2 == Word(sum2 + s1)
       IN  IF BlockEnds(pos') THEN sum1' = Fold(s1) /\ sum2' = Fold(s2)
                              ELSE sum1' = s1 /\ sum2' = s2
    /\ UNCHANGED buf

Summed == pos = Len(buf)

PlainSum == <<Fold(sum1), Fold(sum1)>>

\* The two bytes of the result, as they lie in memory.
Result == <<Fold(sum1), Fold(sum2)>>

-----------------------------------------------------------------------------
(***************************************************************************)
(* The loop does with its two words what Fletcher does modulo 255.         *)
(***************************************************************************)
F == INSTANCE Fletcher
        WITH bytes <- buf, added <- pos, sums <- <<sum1 % 255, sum2 % 255>>
=============================================================================
