---------------------------- MODULE MCPacketPath ----------------------------
(***************************************************************************)
(* Packets for TLC.                                                        *)
(***************************************************************************)
EXTENDS PacketPath, TLC

Packet(quality, music, mayFlip, flips) ==
    [flags |-> 0, nr |-> 7, quality |-> quality, music |-> music,
     mayFlip |-> mayFlip, flips |-> flips]

Ramp(n) == [i \in 1..n |-> (37 * i) % 256]
Loud(n) == [i \in 1..n |-> 255]
OneBit(n, bit) ==
    [i \in 1..n |-> IF i = bit \div 8 + 1 THEN 2^(bit % 8) ELSE 0]

\* Every length of a last packet, and the full one.
Lengths == (0..70) \cup {200, 228, 256}
Undisturbed == {Packet(q, Ramp(n), {}, 0) : q \in 1..3, n \in Lengths}
                  \cup {Packet(q, Loud(n), {}, 0) : q \in {1, 3}, n \in {64, 256}}

\* Packing only moves bits about: each of a group shows where it goes.
EachBit == {Packet(2, OneBit(16, bit), {}, 0) : bit \in 0..127}

\* Any two bits of a short packet; the ends of a full one.
Short == {Packet(3, Ramp(22), 1..30, 2), Packet(5, <<>>, 1..8, 2)}
Full == {Packet(4, Ramp(256), {9, 10, 264}, 2)}

SomePackets == Undisturbed \cup EachBit \cup Short \cup Full
=============================================================================
