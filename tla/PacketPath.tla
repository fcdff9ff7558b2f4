----------------------------- MODULE PacketPath -----------------------------
(***************************************************************************)
(* One packet on its way: the server codes it (send.c, compress.c), puts   *)
(* the two checksums in front of it (com_send), bits of the datagram flip  *)
(* underway, and the client tests the checksums (com_receive) and decodes  *)
(* what passes them (receive.c).                                           *)
(***************************************************************************)
EXTENDS Checksum, Coding, FiniteSets

CONSTANTS
    Packets,    \* the packets sent: see PacketAssumption
    Leftover    \* bytes malloc may leave in a buffer

(***************************************************************************)
(* flags, nr and music of a packet, the quality it is coded for, the bytes *)
(* of its datagram that bits may flip in, and how many of them do.         *)
(***************************************************************************)
PacketAssumption ==
    \A p \in Packets :
        /\ p.flags \in Byte /\ p.nr \in Byte /\ p.quality \in 1..5
        /\ p.music \in Seq(Byte) /\ Len(p.music) <= 256
        /\ p.mayFlip \subseteq Nat \ {0} /\ p.flips \in Nat

ASSUME PacketAssumption

ASSUME LeftoverAssumption == Leftover \subseteq Byte

VARIABLES
    packet,     \* the packet
    pc,         \* how far it has come
    data,       \* packet->data, coded or decoded
    wire,       \* the datagram
    sent,       \* the datagram as com_send made it
    flipped     \* bits of it that have flipped, counted from the first

vars == <<sumVars, packet, pc, data, wire, sent, flipped>>

Pcs == {"encode", "sumData", "sumHeader", "underway",
        "testHeader", "testData", "decode", "accepted", "faulty"}

TypeOK ==
    /\ SumTypeOK
    /\ packet \in Packets /\ pc \in Pcs
    /\ data \in Seq(Byte) /\ wire \in Seq(Byte) /\ sent \in Seq(Byte)
    /\ flipped \in SUBSET Nat

Init ==
    /\ packet \in Packets
    /\ pc = "encode"
    /\ data = packet.music
    /\ wire = <<>> /\ sent = <<>> /\ flipped = {}
    /\ buf = <<>> /\ pos = 0 /\ sum1 = 255 /\ sum2 = 255

-----------------------------------------------------------------------------
(***************************************************************************)
(* send_batch: what the quality asks for.                                  *)
(***************************************************************************)
Encoded(x, quality) ==
    CASE quality = 1 -> Compress(Downsample(x))
      [] quality = 2 -> Compress(x)
      [] OTHER       -> x

Encode ==
    /\ pc = "encode"
    /\ data' = Encoded(data, packet.quality)
    /\ Start(data')
    /\ pc' = "sumData"
    /\ UNCHANGED <<packet, wire, sent, flipped>>

(***************************************************************************)
(* convert_send: checksum2 over the data, checksum1 over the size, the     *)
(* flags, the number and checksum2.                                        *)
(***************************************************************************)
SizeUncut(n) == <<n, n \div 256>>

SizeField(n) == <<n % 256, (n \div 256) % 256>>

SumData ==
    /\ pc = "sumData" /\ Summed
    /\ wire' = SizeField(Len(data)) \o <<packet.flags, packet.nr>> \o Result
    /\ Start(wire')
    /\ pc' = "sumHeader"
    /\ UNCHANGED <<packet, data, sent, flipped>>

Send ==
    /\ pc = "sumHeader" /\ Summed
    /\ sent' = Result \o wire \o data
    /\ wire' = sent'
    /\ pc' = "underway"
    /\ UNCHANGED <<sumVars, packet, data, flipped>>

(***************************************************************************)
(* The network, or simulate_flip_bits, which spares the first 64 bytes.    *)
(***************************************************************************)
Bit == <<1, 2, 4, 8, 16, 32, 64, 128>>

WithBitFlipped(byte, k) ==
    IF (byte \div Bit[k + 1]) % 2 = 0 THEN byte + Bit[k + 1] ELSE byte - Bit[k + 1]

Flip ==
    /\ pc = "underway" /\ Cardinality(flipped) < packet.flips
    /\ \E i \in packet.mayFlip \cap (1..Len(wire)), k \in 0..7 :
          LET bit == 8 * (i - 1) + k IN
          /\ \A earlier \in flipped : earlier < bit
          /\ flipped' = flipped \cup {bit}
          /\ wire' = [wire EXCEPT ![i] = WithBitFlipped(@, k)]
    /\ UNCHANGED <<sumVars, packet, pc, data, sent>>

-----------------------------------------------------------------------------
(***************************************************************************)
(* com_receive peeks at the header and tests checksum1; then it receives   *)
(* as many bytes as the header says and tests checksum2.  If the datagram  *)
(* had fewer, the rest would be whatever malloc had left there.            *)
(***************************************************************************)
Header(w) == SubSeq(w, 3, 8)

SizeInOneByte(w) == w[3]

SizeOf(w) == w[3] + 256 * w[4]

Receive ==
    /\ pc = "underway"
    /\ Start(Header(wire))
    /\ pc' = "testHeader"
    /\ UNCHANGED <<packet, data, wire, sent, flipped>>

TestHeader ==
    /\ pc = "testHeader" /\ Summed
    /\ \/ /\ Result = SubSeq(wire, 1, 2)
          /\ \E rest \in [1..(8 + SizeOf(wire) - Len(wire)) -> Leftover] :
                Start(SubSeq(wire \o rest, 9, 8 + SizeOf(wire)))
          /\ pc' = "testData"
       \/ /\ Result # SubSeq(wire, 1, 2)
          /\ pc' = "faulty" /\ UNCHANGED sumVars
    /\ UNCHANGED <<packet, data, wire, sent, flipped>>

TestData ==
    /\ pc = "testData" /\ Summed
    /\ \/ Result = SubSeq(wire, 7, 8) /\ pc' = "decode" /\ data' = buf
       \/ Result # SubSeq(wire, 7, 8) /\ pc' = "faulty" /\ UNCHANGED data
    /\ UNCHANGED <<sumVars, packet, wire, sent, flipped>>

(***************************************************************************)
(* raw_batch_receive.                                                      *)
(***************************************************************************)
Decoded(x, quality) ==
    CASE quality = 1 -> Resample(Decompress(x))
      [] quality = 2 -> Decompress(x)
      [] OTHER       -> x

Decode ==
    /\ pc = "decode"
    /\ data' = Decoded(data, packet.quality)
    /\ pc' = "accepted"
    /\ UNCHANGED <<sumVars, packet, wire, sent, flipped>>

Add == AddByte /\ UNCHANGED <<packet, pc, data, wire, sent, flipped>>

Over == pc \in {"accepted", "faulty"} /\ UNCHANGED vars

Next ==
    \/ Add \/ Encode \/ SumData \/ Send
    \/ Flip
    \/ Receive \/ TestHeader \/ TestData \/ Decode
    \/ Over

Spec == Init /\ [][Next]_vars

-----------------------------------------------------------------------------
(***************************************************************************)
(* What the loop computes is Fletcher's checksum: no sum outgrows its 16   *)
(* bits before it is folded, folding loses nothing wherever the blocks     *)
(* end, and the two bytes that are compared are the sums themselves.       *)
(***************************************************************************)
SumsAreFletchers == F!Spec

ChecksumIsFletcher == Summed => Result = F!Check

(***************************************************************************)
(* A datagram in which one or two bits have flipped does not pass the two  *)
(* checksums, in the header, in the data, or one in each.  The one         *)
(* exception is a full packet whose byte and the 255th after it flip the   *)
(* same bit, one up, one down.                                             *)
(***************************************************************************)
Balanced(m, n) ==
    /\ n = m + 8 * 255
    /\ m >= 64
    /\ wire[m \div 8 + 1] + wire[n \div 8 + 1]
          = sent[m \div 8 + 1] + sent[n \div 8 + 1]

FlipsNoticed ==
    pc \in {"decode", "accepted"} /\ Cardinality(flipped) \in 1..2
        => \E m, n \in flipped : Balanced(m, n)

(***************************************************************************)
(* What the receiver acts on before it has seen the data, the size above   *)
(* all, is what was sent, whichever two bits of the datagram flip.         *)
(***************************************************************************)
HeaderTrusted ==
    pc \in {"testData", "decode", "accepted"} /\ Cardinality(flipped) <= 2
        => Header(wire) = Header(sent) /\ SizeOf(wire) = Len(wire) - 8

(***************************************************************************)
(* What is heard of a packet: byte for byte what was read from the file,   *)
(* but for the two low bits of each word (quality 2 and 1) and for every   *)
(* eighth frame, which is silent (quality 1).  A full packet comes whole;  *)
(* the last one of a file may lose less than a group in each of the two.   *)
(***************************************************************************)
WithoutLowBits(x, b) == IF b % 2 = 1 THEN x[b] - (x[b] % 4) ELSE x[b]

Heard(x, quality, b) ==
    IF quality = 1 /\ FrameOf(b) % 8 = 0 THEN 0
    ELSE IF quality <= 2 THEN WithoutLowBits(x, b) ELSE x[b]

MayBeLost(quality) == CASE quality = 1 -> 32
                        [] quality = 2 -> 16
                        [] OTHER -> 1

HeardAs(x, quality, y) ==
    /\ Len(x) - MayBeLost(quality) < Len(y)
    /\ Len(y) <= Len(x)
    /\ Len(x) = 256 => Len(y) = 256
    /\ \A b \in 1..Len(y) : y[b] = Heard(x, quality, b)

PlayedAsPromised ==
    pc = "accepted" /\ flipped = {} => HeardAs(packet.music, packet.quality, data)

(***************************************************************************)
(* Copying whole frames, downsample may write past the end of a buffer     *)
(* that was counted in bytes, but never past what malloc makes of the      *)
(* request; and resample reads no frame that is not there.                 *)
(***************************************************************************)
Allocated(n) == ((n + 8 + 15) \div 16) * 16 - 8

CopiesStayInside ==
    /\ pc = "encode" /\ packet.quality = 1
          => LET n == Len(data)
             IN  Copied(n) <= Allocated(DownsampledSize(n))
    /\ pc = "decode" /\ packet.quality = 1
          => LET n == Len(Decompress(data))
             IN  Copied(ResampledSize(n)) <= n
=============================================================================
