---------------------------- MODULE BufferProofs ----------------------------
(***************************************************************************)
(* The ring of the playback buffer is a bounded queue, for every size of   *)
(* ring, every table of batch sizes and every content.                     *)
(***************************************************************************)
EXTENDS PlaybackBuffer, SequenceTheorems, TLAPS

LEMMA SizeBounds ==
    /\ Max \in Nat /\ Max > 0
    /\ \A n \in BatchSizes : n \in Nat /\ n > 0 /\ 2 * n <= Max
BY BufferAssumption

-----------------------------------------------------------------------------
(***************************************************************************)
(* The operations of buffer.c on a ring in order.                          *)
(***************************************************************************)
RingInOrder ==
    /\ data \in [0..(Max - 1) -> Packet]
    /\ start \in 0..(Max - 1)
    /\ end \in 0..(Max - 1)
    /\ used \in 0..Max
    /\ start + used \in {end, end + Max}

(***************************************************************************)
(* buffer_full and buffer_empty do tell a full ring from an empty one.     *)
(***************************************************************************)
LEMMA EmptyIsEmpty ==
    ASSUME RingInOrder
    PROVE  BufferEmpty <=> used = 0
BY SizeBounds DEF RingInOrder, BufferEmpty, BufferFull

(***************************************************************************)
(* One step to the right, round the end of the ring.                       *)
(***************************************************************************)
LEMMA StepRight ==
    ASSUME NEW i \in 0..(Max - 1)
    PROVE  (i + 1) % Max = IF i + 1 < Max THEN i + 1 ELSE 0
<1>1. Max \in Nat /\ Max > 0 /\ i \in Nat /\ i + 1 <= Max
  BY SizeBounds
<1>2. CASE i + 1 < Max
  BY <1>1, <1>2
<1>3. CASE i + 1 = Max
  BY <1>1, <1>3
<1>4. QED
  BY <1>1, <1>2, <1>3

(***************************************************************************)
(* buffer_add on a ring with room.                                         *)
(***************************************************************************)
LEMMA AddKeepsOrder ==
    ASSUME RingInOrder, used < Max, NEW p \in Packet, BufferAdd(p)
    PROVE  /\ RingInOrder'
           /\ used' = used + 1
           /\ start' = start
           /\ data' = [data EXCEPT ![end] = p]
<1>1. /\ used' = used + 1 /\ start' = start
      /\ data' = [data EXCEPT ![end] = p]
  BY SizeBounds DEF BufferAdd, MovePtrRight, BufferFull, RingInOrder
<1>2. data' \in [0..(Max - 1) -> Packet]
  BY <1>1 DEF RingInOrder
<1>3. end' = IF end + 1 < Max THEN end + 1 ELSE 0
  BY StepRight DEF BufferAdd, MovePtrRight, RingInOrder
<1>4. QED
  BY <1>1, <1>2, <1>3, SizeBounds DEF RingInOrder

(***************************************************************************)
(* buffer_get on a ring that is not empty.                                 *)
(***************************************************************************)
LEMMA GetKeepsOrder ==
    ASSUME RingInOrder, used > 0, BufferGet
    PROVE  /\ RingInOrder'
           /\ used' = used - 1
           /\ start' = IF start + 1 < Max THEN start + 1 ELSE 0
           /\ playing' = data[start]
           /\ data' = data
<1>1. ~BufferEmpty
  BY EmptyIsEmpty DEF RingInOrder
<1>2. /\ used' = used - 1 /\ start' = (start + 1) % Max
      /\ data' = data /\ end' = end
      /\ playing' = BufferRead(0)
  BY <1>1 DEF BufferGet
<1>3. playing' = data[start]
  BY <1>2, SizeBounds DEF BufferRead, RingInOrder
<1>4. start' = IF start + 1 < Max THEN start + 1 ELSE 0
  BY <1>2, StepRight DEF RingInOrder
<1>5. QED
  BY <1>2, <1>3, <1>4, SizeBounds DEF RingInOrder

-----------------------------------------------------------------------------
(***************************************************************************)
(* The invariant.                                                          *)
(***************************************************************************)
LEMMA InvImpliesOrder == RingInv => RingInOrder
BY DEF RingInv, TypeOK, RingInOrder

LEMMA InvInit == Init => RingInv
BY SizeBounds DEF Init, RingInv, TypeOK, Modes

LEMMA InvReceive == ASSUME RingInv, Receive PROVE RingInv'
BY SizeBounds
   DEF RingInv, TypeOK, Modes, Receive, MayRequest, FreeSize, ringVars

LEMMA InvEndOfStream == ASSUME RingInv, EndOfStream PROVE RingInv'
BY SizeBounds
   DEF RingInv, TypeOK, Modes, EndOfStream, MayRequest, FreeSize, ringVars

LEMMA InvAddPacket == ASSUME RingInv, AddPacket PROVE RingInv'
<1>1. PICK p \in Packet : BufferAdd(p)
  BY DEF AddPacket
<1>2. used < Max
  BY SizeBounds DEF RingInv, TypeOK, AddPacket
<1>3. RingInOrder' /\ used' = used + 1
  BY <1>1, <1>2, AddKeepsOrder, InvImpliesOrder
<1>4. TypeOK'
  BY <1>3, SizeBounds
     DEF RingInv, TypeOK, Modes, RingInOrder, AddPacket
<1>5. used' + toAdd' <= Max /\ toAdd' # 0
  BY <1>3, SizeBounds DEF RingInv, TypeOK, AddPacket
<1>6. mode' \notin {"draining", "done"}
  BY SizeBounds DEF RingInv, TypeOK, AddPacket
<1>7. QED
  BY <1>3, <1>4, <1>5, <1>6 DEF RingInv, RingInOrder

LEMMA InvAddLastPacket == ASSUME RingInv, AddLastPacket PROVE RingInv'
<1>1. PICK p \in Packet : BufferAdd(p)
  BY DEF AddLastPacket
<1>2. used < Max
  BY SizeBounds DEF RingInv, TypeOK, AddLastPacket
<1>3. RingInOrder' /\ used' = used + 1
  BY <1>1, <1>2, AddKeepsOrder, InvImpliesOrder
<1>4. batch' \in BatchSizes /\ (mode' = "filling" => batch' = batch)
  BY DEF RingInv, TypeOK, Modes, AddLastPacket
<1>5. TypeOK'
  BY <1>3, <1>4, SizeBounds
     DEF RingInv, TypeOK, Modes, RingInOrder, AddLastPacket
<1>6. mode' = "filling" => used' + batch' <= Max
  BY <1>3, <1>4, SizeBounds DEF RingInv, TypeOK, FreeSize, AddLastPacket
<1>7. used' + toAdd' <= Max /\ mode' \notin {"draining", "done"}
  BY <1>3, SizeBounds DEF RingInv, TypeOK, AddLastPacket
<1>8. QED
  BY <1>3, <1>5, <1>6, <1>7 DEF RingInv, RingInOrder

LEMMA InvGet ==
    ASSUME RingInv, used > 0, PlayerPlay, mode # "done"
    PROVE  RingInv'
<1>1. RingInOrder' /\ used' = used - 1 /\ playing' = data[start]
  BY GetKeepsOrder, InvImpliesOrder DEF PlayerPlay
<1>2. mode' \in {mode, "exited"} /\ UNCHANGED <<batch, toAdd>>
  BY DEF PlayerPlay
<1>3. playing' \in Packet
  BY <1>1, InvImpliesOrder DEF RingInOrder
<1>4. TypeOK'
  BY <1>1, <1>2, <1>3, SizeBounds DEF RingInv, TypeOK, RingInOrder, Modes
<1>5. /\ used' + toAdd' <= Max
      /\ mode' = "filling" /\ toAdd' = 0 => used' + batch' <= Max
  BY <1>1, <1>2, SizeBounds, SMTT(30) DEF RingInv, TypeOK
<1>6. /\ mode' \in {"draining", "done"} => toAdd' = 0
      /\ mode' # "done"
  BY <1>2 DEF RingInv
<1>7. QED
  BY <1>1, <1>4, <1>5, <1>6, Zenon DEF RingInv, RingInOrder

(***************************************************************************)
(* The client plays only when there is something to play.                  *)
(***************************************************************************)
LEMMA PlaysSomething ==
    ASSUME RingInv, MakeRoom \/ Drain
    PROVE  used > 0 /\ PlayerPlay /\ mode # "done"
<1>1. CASE MakeRoom
  BY <1>1, SizeBounds DEF MakeRoom, FreeSize, RingInv, TypeOK
<1>2. CASE Drain
  BY <1>2, EmptyIsEmpty, InvImpliesOrder DEF Drain, RingInv, TypeOK
<1>3. QED
  BY <1>1, <1>2

LEMMA InvStop == ASSUME RingInv, Stop PROVE RingInv'
<1>1. used = 0
  BY EmptyIsEmpty, InvImpliesOrder DEF Stop
<1>2. QED
  BY <1>1, SizeBounds DEF Stop, RingInv, TypeOK, Modes, ringVars

LEMMA InvNext == RingInv /\ [Next]_vars => RingInv'
<1> SUFFICES ASSUME RingInv, [Next]_vars PROVE RingInv'
  OBVIOUS
<1>1. CASE Receive
  BY <1>1, InvReceive
<1>2. CASE EndOfStream
  BY <1>2, InvEndOfStream
<1>3. CASE AddPacket
  BY <1>3, InvAddPacket
<1>4. CASE AddLastPacket
  BY <1>4, InvAddLastPacket
<1>5. CASE MakeRoom \/ Drain
  BY <1>5, InvGet, PlaysSomething
<1>6. CASE Stop
  BY <1>6, InvStop
<1>7. CASE UNCHANGED vars
  BY <1>7 DEF RingInv, TypeOK, vars, ringVars
<1>8. QED
  BY <1>1, <1>2, <1>3, <1>4, <1>5, <1>6, <1>7 DEF Next, Stopped

(***************************************************************************)
(* start, end and used always describe the same ring, a batch that has     *)
(* been received always fits, and playback stops only on an empty ring.    *)
(***************************************************************************)
THEOREM RingInvariant == Spec => []RingInv
BY InvInit, InvNext, PTL DEF Spec

-----------------------------------------------------------------------------
(***************************************************************************)
(* The refinement.  Pos(i) is where the i-th element that waits is.        *)
(***************************************************************************)
Pos(i) == IF start + i - 1 < Max THEN start + i - 1 ELSE start + i - 1 - Max

LEMMA WaitingIs ==
    ASSUME RingInOrder
    PROVE  /\ Waiting = [i \in 1..used |-> data[Pos(i)]]
           /\ \A i \in 1..used : Pos(i) \in 0..(Max - 1)
<1>1. \A i \in 1..used : /\ BufferRead(i - 1) = data[Pos(i)]
                        /\ Pos(i) \in 0..(Max - 1)
  BY SizeBounds DEF RingInOrder, BufferRead, Pos
<1>2. QED
  BY <1>1 DEF Waiting

LEMMA WaitingType ==
    ASSUME RingInOrder
    PROVE  Waiting \in Seq(Packet) /\ Len(Waiting) = used
<1>1. \A i \in 1..used : data[Pos(i)] \in Packet
  BY WaitingIs DEF RingInOrder
<1>2. Waiting \in [1..used -> Packet]
  BY <1>1, WaitingIs
<1>3. used \in Nat
  BY SizeBounds DEF RingInOrder
<1>4. QED
  BY <1>2, <1>3

LEMMA NothingWaits == ASSUME RingInOrder PROVE Waiting = <<>> <=> used = 0
BY WaitingType DEF RingInOrder

LEMMA AppendByOne ==
    ASSUME NEW s \in Seq(Packet), NEW p \in Packet
    PROVE  /\ Append(s, p) \in Seq(Packet)
           /\ Len(Append(s, p)) = Len(s) + 1
           /\ \A i \in 1..Len(s) : Append(s, p)[i] = s[i]
           /\ Append(s, p)[Len(s) + 1] = p
OBVIOUS

(***************************************************************************)
(* buffer_add puts the element behind those that wait ...                  *)
(***************************************************************************)
LEMMA AddIsPut ==
    ASSUME RingInOrder, used < Max, NEW p \in Packet, BufferAdd(p)
    PROVE  Waiting' = Append(Waiting, p)
<1>1. /\ RingInOrder' /\ used' = used + 1 /\ start' = start
      /\ data' = [data EXCEPT ![end] = p]
  BY AddKeepsOrder
<1>2. Waiting' = [i \in 1..(used + 1) |-> data'[Pos(i)]]
  <2>1. \A i \in 1..(used + 1) : BufferRead(i - 1)' = data'[Pos(i)]
    BY <1>1, SizeBounds DEF RingInOrder, BufferRead, Pos
  <2>2. QED
    BY <1>1, <2>1 DEF Waiting
<1>3. \A i \in 1..used : data'[Pos(i)] = data[Pos(i)]
  BY <1>1, WaitingIs, SizeBounds DEF RingInOrder, Pos
<1>4. data'[Pos(used + 1)] = p
  BY <1>1, SizeBounds DEF RingInOrder, Pos
<1>5. \A i \in 1..(used + 1) :
         data'[Pos(i)] = IF i = used + 1 THEN p ELSE data[Pos(i)]
  BY <1>3, <1>4, SizeBounds DEF RingInOrder
<1>6. /\ Waiting = [i \in 1..used |-> data[Pos(i)]]
      /\ Waiting \in Seq(Packet)
      /\ Len(Waiting) = used
  BY WaitingIs, WaitingType
<1>7. /\ Append(Waiting, p) \in Seq(Packet)
      /\ Len(Append(Waiting, p)) = used + 1
      /\ \A i \in 1..used : Append(Waiting, p)[i] = Waiting[i]
      /\ Append(Waiting, p)[used + 1] = p
  <2>1. /\ Append(Waiting, p) \in Seq(Packet)
        /\ Len(Append(Waiting, p)) = Len(Waiting) + 1
        /\ \A i \in 1..Len(Waiting) : Append(Waiting, p)[i] = Waiting[i]
        /\ Append(Waiting, p)[Len(Waiting) + 1] = p
    BY <1>6, AppendByOne
  <2>2. Len(Waiting) = used
    BY <1>6
  <2>3. QED
    BY <2>1, <2>2
<1>8. used + 1 \in Nat /\ \A i \in 1..(used + 1) : data'[Pos(i)] \in Packet
  BY <1>3, <1>4, WaitingIs, SizeBounds DEF RingInOrder
<1>9. Waiting' \in Seq(Packet) /\ Len(Waiting') = used + 1
  BY <1>2, <1>8
<1>10. \A i \in 1..(used + 1) : Waiting'[i] = Append(Waiting, p)[i]
  BY <1>2, <1>5, <1>6, <1>7, SizeBounds DEF RingInOrder
<1>11. QED
  BY <1>7, <1>9, <1>10, SeqEqual

(***************************************************************************)
(* ... and buffer_get takes the first of them.                             *)
(***************************************************************************)
LEMMA GetIsPlay ==
    ASSUME RingInOrder, used > 0, BufferGet
    PROVE  Waiting # <<>> /\ playing' = Head(Waiting) /\ Waiting' = Tail(Waiting)
<1>1. /\ RingInOrder' /\ used' = used - 1 /\ playing' = data[start]
      /\ start' = IF start + 1 < Max THEN start + 1 ELSE 0
      /\ data' = data
  BY GetKeepsOrder
<1>2. Waiting = [i \in 1..used |-> data[Pos(i)]] /\ Len(Waiting) = used
  BY WaitingIs, WaitingType
<1>3. playing' = Waiting[1]
  <2>1. Pos(1) = start
    BY SizeBounds DEF RingInOrder, Pos
  <2>2. QED
    BY <1>1, <1>2, <2>1, SizeBounds DEF RingInOrder
<1>4. \A i \in 1..(used - 1) : BufferRead(i - 1)' = data[Pos(i + 1)]
  BY <1>1, SizeBounds DEF RingInOrder, BufferRead, Pos
<1>5. Waiting' = [i \in 1..(used - 1) |-> data[Pos(i + 1)]]
  BY <1>1, <1>4 DEF Waiting
<1>6. Waiting \in Seq(Packet) /\ Waiting # <<>> /\ Head(Waiting) = Waiting[1]
  BY WaitingType, NothingWaits
<1>7. /\ Tail(Waiting) \in Seq(Packet)
      /\ Len(Tail(Waiting)) = used - 1
      /\ \A i \in 1..(used - 1) : Tail(Waiting)[i] = Waiting[i + 1]
  <2>1. /\ Tail(Waiting) \in Seq(Packet)
        /\ Len(Tail(Waiting)) = Len(Waiting) - 1
        /\ \A i \in 1..Len(Tail(Waiting)) : Tail(Waiting)[i] = Waiting[i + 1]
    BY <1>6, HeadTailProperties, ZenonT(30)
  <2>2. Len(Tail(Waiting)) = used - 1
    BY <1>2, <2>1
  <2>3. QED
    BY <2>1, <2>2
<1>8. used - 1 \in Nat /\ \A i \in 1..(used - 1) : data[Pos(i + 1)] \in Packet
  BY WaitingIs, SizeBounds DEF RingInOrder
<1>9. Waiting' \in Seq(Packet) /\ Len(Waiting') = used - 1
  BY <1>5, <1>8
<1>10. \A i \in 1..(used - 1) : Waiting'[i] = Tail(Waiting)[i]
  BY <1>2, <1>5, <1>7, SizeBounds DEF RingInOrder
<1>11. Waiting' = Tail(Waiting)
  BY <1>7, <1>9, <1>10, SeqEqual
<1>12. QED
  BY <1>3, <1>6, <1>11

LEMMA QueueInit == Init => Queue!Init
<1> SUFFICES ASSUME Init PROVE Queue!Init
  OBVIOUS
<1>1. RingInOrder /\ used = 0
  BY InvInit, InvImpliesOrder DEF Init
<1>2. QED
  BY <1>1, NothingWaits, BufferAssumption DEF Init, Queue!Init

LEMMA QueueStep ==
    RingInv /\ [Next]_vars
        => [Queue!Next]_<<Waiting, playing, mode = "done">>
<1> SUFFICES ASSUME RingInv, [Next]_vars
             PROVE  [Queue!Next]_<<Waiting, playing, mode = "done">>
  OBVIOUS
<1> USE InvImpliesOrder
<1>1. CASE Receive \/ EndOfStream
  <2>1. UNCHANGED ringVars /\ playing' = playing
    BY <1>1 DEF Receive, EndOfStream
  <2>2. (mode = "done") = FALSE /\ (mode' = "done") = FALSE
    BY <1>1 DEF Receive, EndOfStream, MayRequest
  <2>3. QED
    BY <2>1, <2>2 DEF Waiting, BufferRead, ringVars
<1>2. CASE AddPacket \/ AddLastPacket
  <2>1. PICK p \in Packet : BufferAdd(p)
    BY <1>2 DEF AddPacket, AddLastPacket
  <2>2. used < Max
    BY <1>2, SizeBounds DEF RingInv, TypeOK, AddPacket, AddLastPacket
  <2>3. Waiting' = Append(Waiting, p) /\ Len(Waiting) < Max
    BY <2>1, <2>2, AddIsPut, WaitingType
  <2>4. mode # "done" /\ mode' # "done"
    BY <1>2, SizeBounds DEF RingInv, TypeOK, AddPacket, AddLastPacket
  <2>5. playing' = playing
    BY <1>2 DEF AddPacket, AddLastPacket
  <2>6. Queue!Put
    BY <2>3, <2>4, <2>5 DEF Queue!Put
  <2>7. QED
    BY <2>6 DEF Queue!Next
<1>3. CASE MakeRoom \/ Drain
  <2>1. used > 0 /\ BufferGet /\ mode # "done" /\ mode' # "done"
    BY <1>3, PlaysSomething DEF PlayerPlay
  <2>2. Queue!Play
    BY <2>1, GetIsPlay DEF Queue!Play
  <2>3. QED
    BY <2>2 DEF Queue!Next
<1>4. CASE Stop
  <2>1. used = 0 /\ Waiting = <<>>
    BY <1>4, EmptyIsEmpty, NothingWaits DEF Stop
  <2>2. UNCHANGED <<ringVars, playing>> /\ mode' = "done"
    BY <1>4 DEF Stop
  <2>3. Waiting' = Waiting
    BY <2>2 DEF Waiting, BufferRead, ringVars
  <2>4. Queue!Finish
    BY <2>1, <2>2, <2>3 DEF Queue!Finish
  <2>5. QED
    BY <2>4 DEF Queue!Next
<1>5. CASE UNCHANGED vars
  BY <1>5 DEF vars, ringVars, Waiting, BufferRead
<1>6. QED
  BY <1>1, <1>2, <1>3, <1>4, <1>5 DEF Next, Stopped

(***************************************************************************)
(* The ring implements the bounded queue of Playback: packets are played   *)
(* in the order in which they came, none is overwritten before it was      *)
(* played, and none is left when playback ends.                            *)
(***************************************************************************)
THEOREM RingIsAQueue == Spec => ImplementsPlayback
<1>1. Spec => []RingInv
  BY RingInvariant
<1>2. QED
  BY <1>1, QueueInit, QueueStep, PTL
     DEF Spec, ImplementsPlayback, Queue!Spec
=============================================================================
