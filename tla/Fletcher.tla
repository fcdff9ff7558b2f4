------------------------------ MODULE Fletcher ------------------------------
(***************************************************************************)
(* What the checksum of a datagram is meant to be: Fletcher's two sums     *)
(* modulo 255, of the bytes and of the sums so far, one byte at a time.    *)
(* Neither is stored as 0: the code starts at 255 and never comes back.    *)
(***************************************************************************)
EXTENDS Integers, Sequences

VARIABLES
    bytes,      \* the bytes
    added,      \* how many of them have been added
    sums        \* the two sums

vars == <<bytes, added, sums>>

Byte == 0..255

Begin ==
    /\ bytes' \in Seq(Byte)
    /\ added' = 0 /\ sums' = <<0, 0>>

Add ==
    /\ added < Len(bytes)
    /\ added' = added + 1
    /\ LET a == (sums[1] + bytes[added']) % 255
       IN  sums' = <<a, (sums[2] + a) % 255>>
    /\ UNCHANGED bytes

Init == bytes \in Seq(Byte) /\ added = 0 /\ sums = <<0, 0>>

Next == Begin \/ Add

Spec == Init /\ [][Next]_vars

Stored(sum) == IF sum = 0 THEN 255 ELSE sum

Check == <<Stored(sums[1]), Stored(sums[2])>>
=============================================================================
