------------------------------- MODULE Coding -------------------------------
(***************************************************************************)
(* What the lower qualities do to the bytes of a packet (compress.c):      *)
(* downsample drops the first of every eight frames of four bytes,         *)
(* compress packs eight 16-bit words into seven by dropping the two low    *)
(* bits of each.  resample and decompress undo it as far as it goes.       *)
(*                                                                         *)
(* All of them work on whole groups; what is left of a packet is lost.     *)
(***************************************************************************)
EXTENDS Integers, Sequences

\* Words lie in memory low byte first.
WordsOf(x) == [i \in 1..(Len(x) \div 2) |-> x[2 * i - 1] + 256 * x[2 * i]]

BytesOf(w) == [b \in 1..(2 * Len(w)) |->
                 IF b % 2 = 1 THEN w[(b + 1) \div 2] % 256
                              ELSE (w[b \div 2] \div 256) % 256]

\* Group g, counted from 0, of n words.
Group(w, g, n) == SubSeq(w, g * n + 1, (g + 1) * n)

\* Shift[i] is 4^(i - 1).
Shift == <<1, 4, 16, 64, 256, 1024, 4096, 16384, 65536>>

(***************************************************************************)
(* pack_128bit: word i of seven has what is left of word i, but for its    *)
(* two low bits, then the highest bits of the next.                        *)
(***************************************************************************)
PackedOneBitLess(g, i) ==
    ((g[i] % Shift[9 - i]) - (g[i] % 4)) * Shift[i] + g[i + 1] \div Shift[9 - i]

PackedWord(g, i) ==
    ((g[i] % Shift[10 - i]) - (g[i] % 4)) * Shift[i] + g[i + 1] \div Shift[9 - i]

(***************************************************************************)
(* unpack_128bit.                                                          *)
(***************************************************************************)
UnpackedWord(g, i) ==
    (IF i = 1 THEN 0 ELSE (g[i - 1] % Shift[i]) * Shift[10 - i])
  + (IF i = 8 THEN 0 ELSE (g[i] \div Shift[i + 1]) * 4)

Compress(x) ==
    LET w == WordsOf(x)
    IN  BytesOf([i \in 1..((Len(x) \div 16) * 7) |->
            PackedWord(Group(w, (i - 1) \div 7, 8), ((i - 1) % 7) + 1)])

Decompress(x) ==
    LET w == WordsOf(x)
    IN  BytesOf([i \in 1..((Len(x) \div 14) * 8) |->
            UnpackedWord(Group(w, (i - 1) \div 8, 7), ((i - 1) % 8) + 1)])

-----------------------------------------------------------------------------
(***************************************************************************)
(* downsample(8): the new size is counted in bytes of the old, the copies  *)
(* in frames.  Where they disagree the rest is zero, or the last copy goes *)
(* past the end of the new buffer.                                         *)
(***************************************************************************)
DownsampledSize(n) == (n \div 8) * 7

Frames(n) == n \div 4

FrameOf(b) == (b - 1) \div 4

CopiedUnskipped(n) == 4 * Frames(n)

Copied(n) == 4 * (Frames(n) - (Frames(n) + 7) \div 8)

Downsample(x) ==
    [b \in 1..DownsampledSize(Len(x)) |->
        IF b > Copied(Len(x)) THEN 0
        ELSE x[b + 4 * (FrameOf(b) \div 7 + 1)]]

(***************************************************************************)
(* resample(8): a silent frame for each one dropped.                       *)
(***************************************************************************)
ResampledSize(n) == (n \div 7) * 8

Resample(x) ==
    [b \in 1..ResampledSize(Len(x)) |->
        IF FrameOf(b) % 8 = 0 THEN 0
        ELSE x[b - 4 * (FrameOf(b) \div 8 + 1)]]
=============================================================================
