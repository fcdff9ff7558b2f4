---------------------------- MODULE AudioStream ----------------------------
(***************************************************************************)
(* What the listener is promised, without a word of the protocol: the      *)
(* chunks of the file come in order, each once and whole, in groups; the   *)
(* stream ends only when there has been as much to hear as the file has.   *)
(* Chunks within Margin of the end may be cut or be silent, see Session.   *)
(***************************************************************************)
EXTENDS Integers, Sequences

CONSTANTS
    Chunks,     \* chunks of music in the file, the last may be partial
    Margin,     \* so many chunks before the end nothing is promised
    Whole,      \* what a whole chunk measures
    Group       \* the largest number of chunks that come together

VARIABLES
    heard,      \* what has come so far
    phase       \* "streaming", "ended", or "gone" when the listener left

AsPromised(slot, k) ==
    k + Margin <= Chunks => slot = [pos |-> k - 1, size |-> Whole]

Init == heard = <<>> /\ phase = "streaming"

Hear ==
    /\ phase = "streaming"
    /\ \E n \in 1..Group :
          /\ Len(heard') = Len(heard) + n
          /\ SubSeq(heard', 1, Len(heard)) = heard
          /\ \A k \in (Len(heard) + 1)..(Len(heard) + n) :
                AsPromised(heard'[k], k)
    /\ UNCHANGED phase

End ==
    /\ phase = "streaming"
    /\ Len(heard) >= Chunks
    /\ phase' = "ended"
    /\ UNCHANGED heard

Leave ==
    /\ phase = "streaming"
    /\ phase' = "gone"
    /\ UNCHANGED heard

Next == Hear \/ End \/ Leave

Spec == Init /\ [][Next]_<<heard, phase>>
=============================================================================
