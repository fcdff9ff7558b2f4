--------------------------- MODULE PlaybackBuffer ---------------------------
(***************************************************************************)
(* The ring the client plays from (buffer.c), and the way the client uses  *)
(* it: it fills the ring, then makes room for a batch by playing and adds  *)
(* the batch packet by packet, and drains the ring at the end (main.c,     *)
(* client_fill_initial_buffer, receive_batch).                             *)
(*                                                                         *)
(* buffer_add is always called with override: the caller is the one who    *)
(* must know that there is room.                                           *)
(***************************************************************************)
EXTENDS Integers, Sequences

CONSTANTS
    Packet,       \* contents of an element
    Null,         \* what buffer_get returns when there is none
    Max,          \* max: elements the ring holds
    BatchSizes    \* packets of a batch, in all qualities

(***************************************************************************)
(* main.c refuses a buffer below two of the largest batches.               *)
(***************************************************************************)
ASSUME BufferAssumption ==
    /\ Null \notin Packet
    /\ Max \in Nat \ {0}
    /\ BatchSizes \subseteq Nat \ {0}
    /\ \A n \in BatchSizes : 2 * n <= Max

VARIABLES
    data,       \* data
    start,      \* start
    end,        \* end
    used,       \* used
    batch,      \* packets of a batch in the present quality
    toAdd,      \* packets of the batch just received that are still to add
    mode,       \* what the client is doing
    playing     \* what the last buffer_get returned

ringVars == <<data, start, end, used>>
vars == <<ringVars, batch, toAdd, mode, playing>>

Modes == {"filling", "playing", "draining", "done", "exited"}

TypeOK ==
    /\ data \in [0..(Max - 1) -> Packet]
    /\ start \in 0..(Max - 1)
    /\ end \in 0..(Max - 1)
    /\ used \in 0..Max
    /\ batch \in BatchSizes
    /\ toAdd \in 0..batch
    /\ mode \in Modes
    /\ playing \in Packet \cup {Null}

(***************************************************************************)
(* buffer_init: what malloc returns is whatever was there.                 *)
(***************************************************************************)
Init ==
    /\ data \in [0..(Max - 1) -> Packet]
    /\ start = 0 /\ end = 0 /\ used = 0
    /\ batch \in BatchSizes
    /\ toAdd = 0
    /\ mode = "filling"
    /\ playing = Null

-----------------------------------------------------------------------------
BufferFull == used = Max

(***************************************************************************)
(* Mutant of BufferEmpty: the two indices are equal in a full ring too.    *)
(***************************************************************************)
IndicesMeet == start = end

BufferEmpty == ~BufferFull /\ start = end

FreeSize == Max - used

(***************************************************************************)
(* buffer_read, without its index modulo used: every caller is in range.   *)
(***************************************************************************)
BufferRead(i) ==
    IF start + i < Max THEN data[start + i] ELSE data[i - (Max - start)]

MovePtrRight ==
    /\ start' = IF BufferFull THEN (start + 1) % Max ELSE start
    /\ end' = (end + 1) % Max

BufferAdd(p) ==
    /\ data' = [data EXCEPT ![end] = p]
    /\ MovePtrRight
    /\ used' = used + 1

(***************************************************************************)
(* Mutant of BufferGet: start moves on before the element is read.         *)
(***************************************************************************)
GetMovesFirst ==
    /\ playing' = IF BufferEmpty THEN Null ELSE data[(start + 1) % Max]
    /\ start' = IF BufferEmpty THEN start ELSE (start + 1) % Max
    /\ used' = IF BufferEmpty THEN used ELSE used - 1
    /\ UNCHANGED <<data, end>>

BufferGet ==
    /\ playing' = IF BufferEmpty THEN Null ELSE BufferRead(0)
    /\ start' = IF BufferEmpty THEN start ELSE (start + 1) % Max
    /\ used' = IF BufferEmpty THEN used ELSE used - 1
    /\ UNCHANGED <<data, end>>

-----------------------------------------------------------------------------
(***************************************************************************)
(* A batch may be requested: while the ring is filled for the first time   *)
(* without a look at the room, which was tested when the last one came in. *)
(***************************************************************************)
MayRequest ==
    /\ toAdd = 0
    /\ \/ mode = "filling"
       \/ mode = "playing" /\ FreeSize >= batch

Receive ==
    /\ MayRequest
    /\ toAdd' = batch
    /\ UNCHANGED <<ringVars, batch, mode, playing>>

EndOfStream ==
    /\ MayRequest
    /\ mode' = "draining"
    /\ UNCHANGED <<ringVars, batch, toAdd, playing>>

AddPacket ==
    /\ toAdd > 1
    /\ \E p \in Packet : BufferAdd(p)
    /\ toAdd' = toAdd - 1
    /\ UNCHANGED <<batch, mode, playing>>

(***************************************************************************)
(* Mutant of AddLastPacket: the room is tested as it was before the batch. *)
(***************************************************************************)
AddLastUnlooked ==
    /\ toAdd = 1
    /\ \E p \in Packet : BufferAdd(p)
    /\ toAdd' = 0
    /\ \/ mode = "filling" /\ UNCHANGED batch
       \/ mode = "playing" /\ batch' \in BatchSizes
    /\ mode' = IF mode = "filling" /\ FreeSize + batch - 1 >= batch
               THEN "filling" ELSE "playing"
    /\ UNCHANGED playing

(***************************************************************************)
(* The last packet of a batch, and the test or the quality adjustment that *)
(* follows it.                                                             *)
(***************************************************************************)
AddLastPacket ==
    /\ toAdd = 1
    /\ \E p \in Packet : BufferAdd(p)
    /\ toAdd' = 0
    /\ \/ mode = "filling" /\ UNCHANGED batch
       \/ mode = "playing" /\ batch' \in BatchSizes
    /\ mode' = IF mode = "filling" /\ FreeSize - 1 >= batch
               THEN "filling" ELSE "playing"
    /\ UNCHANGED playing

(***************************************************************************)
(* player_play, to make room for a batch and to drain the ring.  When the  *)
(* audio device fails for good the program exits.                          *)
(***************************************************************************)
PlayerPlay ==
    /\ BufferGet
    /\ mode' \in {mode, "exited"}
    /\ UNCHANGED <<batch, toAdd>>

MakeRoom ==
    /\ mode = "playing" /\ toAdd = 0 /\ FreeSize < batch
    /\ PlayerPlay

Drain ==
    /\ mode = "draining" /\ ~BufferEmpty
    /\ PlayerPlay

Stop ==
    /\ mode = "draining" /\ BufferEmpty
    /\ mode' = "done"
    /\ UNCHANGED <<ringVars, batch, toAdd, playing>>

Stopped == mode \in {"done", "exited"} /\ UNCHANGED vars

Next ==
    \/ Receive \/ EndOfStream \/ AddPacket \/ AddLastPacket
    \/ MakeRoom \/ Drain \/ Stop \/ Stopped

Spec == Init /\ [][Next]_vars

(***************************************************************************)
(* The client goes on as long as it can; that ALSA fails is not asked for. *)
(***************************************************************************)
FairSpec == Spec /\ WF_vars(Next /\ mode' # "exited")

-----------------------------------------------------------------------------
(***************************************************************************)
(* The three numbers that describe the ring agree, and what is still to be *)
(* added fits: buffer_full and buffer_empty, which look at different ones, *)
(* are each right.                                                         *)
(***************************************************************************)
RingInv ==
    /\ TypeOK
    /\ start + used \in {end, end + Max}
    /\ used + toAdd <= Max
    /\ mode = "filling" /\ toAdd = 0 => used + batch <= Max
    /\ mode \in {"draining", "done"} => toAdd = 0
    /\ mode = "done" => used = 0

(***************************************************************************)
(* Playing makes room: the loop of main.c that plays until a batch fits    *)
(* comes to an end, whatever the batch.                                    *)
(***************************************************************************)
RoomIsMade == mode = "playing" ~> MayRequest \/ mode = "exited"

(***************************************************************************)
(* The ring implements a bounded queue, from which everything is played.   *)
(***************************************************************************)
Waiting == [i \in 1..used |-> BufferRead(i - 1)]

Queue == INSTANCE Playback WITH
            Bound <- Max, queue <- Waiting, now <- playing,
            over <- (mode = "done")

ImplementsPlayback == Queue!Spec
=============================================================================
