------------------------------ MODULE Protocol ------------------------------
(***************************************************************************)
(* What both programs of the music protocol share: the qualities and the   *)
(* number of packets a batch has in each (constants.c), the transformation *)
(* a quality asks for (quality.c, compress.c) and the datagrams that       *)
(* travel (packet.h, flags.h).                                             *)
(*                                                                         *)
(* Music is counted in bytes; a packet carries at most Chunk of them.  The *)
(* code has 256 bytes per packet and 40, 60, 100, 200 and 255 packets in a *)
(* batch.                                                                  *)
(***************************************************************************)
EXTENDS Integers, Sequences, FiniteSets

CONSTANTS
    TopQuality,   \* qualities are 1..TopQuality (5 in the code)
    Packets,      \* packets of a batch, by quality
    Chunk,        \* bytes of music in a full packet (256 in the code)
    Payload       \* bytes of music in the file the server streams

ASSUME ProtocolAssumption ==
    /\ TopQuality \in Nat \ {0}
    /\ Packets \in [1..TopQuality -> Nat \ {0}]
    /\ \A p, q \in 1..TopQuality : p <= q => Packets[p] <= Packets[q]
    /\ Chunk \in Nat \ {0} /\ Chunk % 128 = 0   \* whole groups, see Kept
    /\ Payload \in Nat \ {0}

Qualities == 1..TopQuality

(***************************************************************************)
(* A server slot that has seen no ACK has quality 0, which has no packets. *)
(***************************************************************************)
PacketsOf(q) == IF q \in Qualities THEN Packets[q] ELSE 0

Codecs == {"down", "pack", "plain"}

Codec(q) == CASE q = 1 -> "down"     \* downsampled, then compressed
              [] q = 2 \/ q = 0 -> "pack"
              [] OTHER -> "plain"

LesserOf(a, b) == IF a <= b THEN a ELSE b

(***************************************************************************)
(* How many bytes compress.c makes of so many: whole groups are converted, *)
(* the rest is dropped.  (Module Coding has the bytes themselves.)         *)
(***************************************************************************)
Compressed(n) == (n \div 16) * 14
Decompressed(n) == (n \div 14) * 16
Downsampled(n) == (n \div 8) * 7
Resampled(n) == (n \div 7) * 8

(***************************************************************************)
(* What the server makes of n bytes of music, and the client of n bytes it *)
(* has received.                                                           *)
(***************************************************************************)
Encoded(codec, n) ==
    CASE codec = "plain" -> n
      [] codec = "pack" -> Compressed(n)
      [] codec = "down" -> Compressed(Downsampled(n))

Decoded(codec, n) ==
    CASE codec = "plain" -> n
      [] codec = "pack" -> Decompressed(n)
      [] codec = "down" -> Resampled(Decompressed(n))

(***************************************************************************)
(* What is left of n bytes that both sides code alike: all of a full       *)
(* packet, whole groups of a partial one.                                  *)
(***************************************************************************)
Kept(codec, n) == Decoded(codec, Encoded(codec, n))

-----------------------------------------------------------------------------
(***************************************************************************)
(* Datagrams.  "fit" is what the two checksums will say of a datagram: ok, *)
(* a header that does not match checksum1, or data that does not match     *)
(* checksum2.                                                              *)
(***************************************************************************)
Fits == {"ok", "head", "data"}

(***************************************************************************)
(* From client to server.  "arg" is a quality (ACK, QTY) or a batch number *)
(* (RR, REJ); "list" the packet numbers a REJ asks for.                    *)
(***************************************************************************)
QualityRequest == [flag : {"ACK", "QTY"}, arg : Qualities,
                   list : SUBSET Nat, fit : Fits]
BatchRequest == [flag : {"RR", "REJ"}, arg : Nat,
                 list : SUBSET Nat, fit : Fits]

Request == QualityRequest \cup BatchRequest

RequestOf(flag, arg, list) ==
    [flag |-> flag, arg |-> arg, list |-> list, fit |-> "ok"]

(***************************************************************************)
(* From server to client.  Music (no flag) carries "size" bytes taken from *)
(* the file at chunk "pos", in the coding of the server's quality.  A      *)
(* position outside the file stands for the memory around it.              *)
(***************************************************************************)
Reply == [flag : {"NONE", "ACK", "EOS"}, nr : Nat, pos : Int, size : Nat,
          codec : Codecs, fit : Fits]

(***************************************************************************)
(* packet->size once the music is coded, and the size of the datagram      *)
(* around it (convert_send): two checksums, the size, flags and number.    *)
(***************************************************************************)
PacketSize(m) == Encoded(m.codec, m.size)

DatagramSize(m) == 8 + PacketSize(m)

FlagOnly(flag) ==
    [flag |-> flag, nr |-> 0, pos |-> 0, size |-> 0, codec |-> "plain",
     fit |-> "ok"]
=============================================================================
