------------------------------ MODULE Playback ------------------------------
(***************************************************************************)
(* What the playback buffer promises: packets are played in the order they *)
(* were put in, each once, there are never more than Bound of them, and    *)
(* playback is over only when every one of them has been played.           *)
(***************************************************************************)
EXTENDS Naturals, Sequences

CONSTANTS
    Packet,     \* what is played
    Bound       \* packets that may wait

VARIABLES
    queue,      \* packets that wait, the next one first
    now,        \* the packet played last, or what is there before the first
    over        \* playback is over

Init == queue = <<>> /\ now \notin Packet /\ over = FALSE

Put ==
    /\ ~over /\ Len(queue) < Bound
    /\ \E p \in Packet : queue' = Append(queue, p)
    /\ UNCHANGED <<now, over>>

Play ==
    /\ ~over /\ queue # <<>>
    /\ now' = Head(queue)
    /\ queue' = Tail(queue)
    /\ UNCHANGED over

Finish ==
    /\ queue = <<>>
    /\ over' = TRUE
    /\ UNCHANGED <<queue, now>>

Next == Put \/ Play \/ Finish

Spec == Init /\ [][Next]_<<queue, now, over>>
=============================================================================
