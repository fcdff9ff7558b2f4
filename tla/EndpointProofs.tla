--------------------------- MODULE EndpointProofs ---------------------------
(***************************************************************************)
(* Every step of the server and of the client keeps the types of its       *)
(* variables and of the queues, what SlotInv says of the client's slot,    *)
(* the bookkeeping of the batch the client collects (BatchInv, MarksInv)   *)
(* and the room in its playback buffer (RoomInv).                          *)
(***************************************************************************)
EXTENDS StreamServer, StreamClient, SequenceTheorems, FiniteSetTheorems, TLAPS

-----------------------------------------------------------------------------
(***************************************************************************)
(* The network: what a send or a receive does to the queues.               *)
(***************************************************************************)

(***************************************************************************)
(* Paying for a disturbance leaves a budget (Spend).                       *)
(***************************************************************************)
LEMMA SpendType ==
    ASSUME budget \in [Disturbances -> Nat],
           NEW kind \in Disturbances, Spend(kind)
    PROVE  budget' \in [Disturbances -> Nat]
BY DEF Spend

(***************************************************************************)
(* The most packets a batch can have is what the best quality has          *)
(* (constants_batch_packets_amount).                                       *)
(***************************************************************************)
LEMMA PacketsBounds ==
    ASSUME NEW q \in Qualities
    PROVE  /\ PacketsOf(q) \in Nat \ {0}
           /\ Packets[TopQuality] \in Nat \ {0}
           /\ PacketsOf(q) <= Packets[TopQuality]
BY ProtocolAssumption DEF PacketsOf, Qualities

(***************************************************************************)
(* Coding gives a number of bytes, and no more than there were             *)
(* (compress.c); two sides that code alike keep all of a full packet, and  *)
(* of a shorter one no more than of a longer one.                          *)
(***************************************************************************)
LEMMA CodingType ==
    ASSUME NEW codec \in Codecs, NEW n \in Nat
    PROVE  /\ Encoded(codec, n) \in Nat /\ Encoded(codec, n) <= n
           /\ Decoded(codec, n) \in Nat
BY DEF Encoded, Decoded,
   Compressed, Decompressed, Downsampled, Resampled, Codecs

LEMMA KeptGrows ==
    ASSUME NEW codec \in Codecs, NEW n \in Nat, NEW k \in Nat, k <= n
    PROVE  /\ Kept(codec, k) \in Nat
           /\ Kept(codec, k) <= Kept(codec, n) /\ Kept(codec, n) <= n
<1>1. CASE codec = "plain"
    BY <1>1 DEF Kept, Encoded, Decoded,
       Compressed, Decompressed, Downsampled, Resampled
<1>2. CASE codec = "pack"
    <2>1. /\ k \div 16 <= n \div 16 /\ k \div 16 \in Nat /\ n \div 16 \in Nat
          /\ (n \div 16) * 16 <= n
        OBVIOUS
    <2>2. \A w \in Nat : (w * 14) \div 14 = w
        OBVIOUS
    <2>3. /\ Kept(codec, k) = (k \div 16) * 16
          /\ Kept(codec, n) = (n \div 16) * 16
        BY <1>2, <2>1, <2>2 DEF Kept, Encoded, Decoded,
           Compressed, Decompressed, Downsampled, Resampled
    <2> QED
        BY <2>1, <2>3
<1>3. CASE codec = "down"
    BY <1>3 DEF Kept, Encoded, Decoded,
       Compressed, Decompressed, Downsampled, Resampled
<1> QED
    BY <1>1, <1>2, <1>3 DEF Codecs

LEMMA KeptWhole ==
    ASSUME NEW codec \in Codecs
    PROVE  Kept(codec, Chunk) = Chunk
<1>1. PICK k \in Nat : Chunk = 128 * k
    <2>1. Chunk = 128 * (Chunk \div 128) /\ Chunk \div 128 \in Nat
        BY ProtocolAssumption
    <2> QED
        BY <2>1
<1> QED
    BY <1>1 DEF Kept, Encoded, Decoded,
       Compressed, Decompressed, Downsampled, Resampled, Codecs

(***************************************************************************)
(* A request with flipped bits is still a request; a reply likewise        *)
(* (com_send).                                                             *)
(***************************************************************************)
LEMMA SpoiledRequest ==
    ASSUME NEW m \in Request, NEW f \in Fits
    PROVE  [m EXCEPT !.fit = f] \in Request
BY DEF Request, QualityRequest, BatchRequest

LEMMA SpoiledReply ==
    ASSUME NEW m \in Reply, NEW f \in Fits
    PROVE  /\ [m EXCEPT !.fit = f] \in Reply
           /\ [m EXCEPT !.fit = f].flag = m.flag
BY DEF Reply

(***************************************************************************)
(* Sending a request keeps the types of the queue and the budget           *)
(* (com_send on the client).                                               *)
(***************************************************************************)
LEMMA ToServerType ==
    ASSUME QueueTypeOK, NEW m \in Request, ToServer(m)
    PROVE  c2s' \in Seq(Request) /\ budget' \in [Disturbances -> Nat]
<1>1. CASE c2s' = Append(c2s, m) /\ UNCHANGED budget
    BY <1>1, AppendProperties DEF QueueTypeOK
<1>2. CASE Spend("loseRequest") /\ UNCHANGED c2s
    BY <1>2, SpendType DEF QueueTypeOK, Disturbances
<1>3. CASE \E f \in Fits \ {"ok"} :
              Spend("badRequest") /\ c2s' = Append(c2s, [m EXCEPT !.fit = f])
    <2>1. PICK f \in Fits :
              Spend("badRequest") /\ c2s' = Append(c2s, [m EXCEPT !.fit = f])
        BY <1>3
    <2>2. [m EXCEPT !.fit = f] \in Request
        BY SpoiledRequest
    <2>3. c2s' \in Seq(Request)
        BY <2>1, <2>2, AppendProperties DEF QueueTypeOK
    <2> QED
        BY <2>1, <2>3, SpendType DEF QueueTypeOK, Disturbances
<1> QED
    BY <1>1, <1>2, <1>3 DEF ToServer

(***************************************************************************)
(* Sending a reply keeps the types, and brings no flag into the queue but  *)
(* its own (com_send on the server).                                       *)
(***************************************************************************)
LEMMA OneMoreReply ==
    ASSUME QueueTypeOK, NEW e \in Reply, s2c' = Append(s2c, e)
    PROVE  /\ s2c' \in Seq(Reply)
           /\ \A i \in 1..Len(s2c') :
                 \/ s2c'[i].flag = e.flag
                 \/ i \in 1..Len(s2c) /\ s2c'[i] = s2c[i]
<1>1. /\ s2c' \in Seq(Reply)
      /\ Len(s2c') = Len(s2c) + 1
      /\ \A i \in 1..Len(s2c) : s2c'[i] = s2c[i]
      /\ s2c'[Len(s2c) + 1] = e
    BY AppendProperties DEF QueueTypeOK
<1>2. Len(s2c) \in Nat
    BY LenProperties DEF QueueTypeOK
<1> QED
    BY <1>1, <1>2

LEMMA ToClientType ==
    ASSUME QueueTypeOK, NEW m \in Reply, ToClient(m)
    PROVE  /\ s2c' \in Seq(Reply)
           /\ budget' \in [Disturbances -> Nat]
           /\ \A i \in 1..Len(s2c') :
                 \/ s2c'[i].flag = m.flag
                 \/ i \in 1..Len(s2c) /\ s2c'[i] = s2c[i]
<1>1. CASE s2c' = Append(s2c, m) /\ UNCHANGED budget
    BY <1>1, OneMoreReply DEF QueueTypeOK
<1>2. CASE Spend("loseReply") /\ UNCHANGED s2c
    BY <1>2, SpendType DEF QueueTypeOK, Disturbances
<1>3. CASE \E f \in Fits \ {"ok"} :
              Spend("badReply") /\ s2c' = Append(s2c, [m EXCEPT !.fit = f])
    <2>1. PICK f \in Fits :
              Spend("badReply") /\ s2c' = Append(s2c, [m EXCEPT !.fit = f])
        BY <1>3
    <2>2. /\ [m EXCEPT !.fit = f] \in Reply
          /\ [m EXCEPT !.fit = f].flag = m.flag
        BY SpoiledReply
    <2>3. budget' \in [Disturbances -> Nat]
        BY <2>1, SpendType DEF QueueTypeOK, Disturbances
    <2> QED
        BY <2>1, <2>2, <2>3, OneMoreReply
<1> QED
    BY <1>1, <1>2, <1>3 DEF ToClient

(***************************************************************************)
(* So does a packet of music, also one that sendto refuses, or of which    *)
(* convert_send only makes a wrapped size (send_batch, send_faulty).       *)
(***************************************************************************)
LEMMA LeavesType ==
    ASSUME QueueTypeOK, NEW m \in Reply, Leaves(m)
    PROVE  /\ s2c' \in Seq(Reply)
           /\ budget' \in [Disturbances -> Nat]
           /\ \A i \in 1..Len(s2c') :
                 \/ s2c'[i].flag = m.flag
                 \/ i \in 1..Len(s2c) /\ s2c'[i] = s2c[i]
<1>1. CASE ToClient(m)
    BY <1>1, ToClientType
<1>2. CASE UNCHANGED <<s2c, budget>>
    BY <1>2 DEF QueueTypeOK
<1>3. CASE s2c' = Append(s2c, [m EXCEPT !.fit = "head"]) /\ UNCHANGED budget
    <2>1. /\ [m EXCEPT !.fit = "head"] \in Reply
          /\ [m EXCEPT !.fit = "head"].flag = m.flag
        BY SpoiledReply DEF Fits
    <2> QED
        BY <1>3, <2>1, OneMoreReply DEF QueueTypeOK
<1> QED
    BY <1>1, <1>2, <1>3 DEF Leaves

(***************************************************************************)
(* com_receive gives a datagram of the queue and leaves the others, in     *)
(* their order.                                                            *)
(***************************************************************************)
LEMMA AfterReceiveType ==
    ASSUME NEW M, NEW q \in Seq(M), q # <<>>, NEW peek \in BOOLEAN
    PROVE  /\ Head(q) \in M
           /\ q[1] = Head(q) /\ 1 \in 1..Len(q)
           /\ AfterReceive(q, peek) \in Seq(M)
           /\ \A i \in 1..Len(AfterReceive(q, peek)) :
                 \E j \in 1..Len(q) : AfterReceive(q, peek)[i] = q[j]
<1>1. /\ Head(q) \in M /\ Tail(q) \in Seq(M)
      /\ Len(Tail(q)) = Len(q) - 1
      /\ \A i \in 1..Len(Tail(q)) : Tail(q)[i] = q[i + 1]
    BY HeadTailProperties
<1>2. Len(q) \in Nat \ {0}
    BY EmptySeq
<1>3. Head(q) = q[1]
    OBVIOUS
<1>4. \A i \in 1..Len(Tail(q)) : i + 1 \in 1..Len(q)
    BY <1>1, <1>2
<1>5. CASE AfterReceive(q, peek) = Tail(q)
    BY <1>1, <1>2, <1>3, <1>4, <1>5
<1>6. CASE AfterReceive(q, peek) = q
    BY <1>1, <1>2, <1>3, <1>6
<1> QED
    BY <1>5, <1>6 DEF AfterReceive

-----------------------------------------------------------------------------
(***************************************************************************)
(* The server.                                                             *)
(***************************************************************************)

(***************************************************************************)
(* What process_* read from a request has the type its flag calls for.     *)
(***************************************************************************)
LEMMA RequestFields ==
    ASSUME NEW m \in Request
    PROVE  /\ m.flag \in {"ACK", "QTY"} => m.arg \in Qualities
           /\ m.flag = "REJ" => m.arg \in Nat /\ m.list \in SUBSET Nat
BY DEF Request, QualityRequest, BatchRequest

(***************************************************************************)
(* Receiving leaves requests in the queue (com_receive in the main loop).  *)
(***************************************************************************)
LEMMA ServerReceiveType ==
    ASSUME QueueTypeOK, c2s # <<>>,
           c2s' = AfterReceive(c2s, FALSE) \/ c2s' = Tail(c2s)
    PROVE  Head(c2s) \in Request /\ c2s' \in Seq(Request)
BY AfterReceiveType, HeadTailProperties, ZenonT(30) DEF QueueTypeOK

(***************************************************************************)
(* Nothing the server does besides AnswerFlag sends an EOS.                *)
(***************************************************************************)
NoNewEOS == EOSOnTheWay' => EOSOnTheWay

LEMMA KeepsReplies == ASSUME UNCHANGED s2c PROVE NoNewEOS
BY DEF NoNewEOS, EOSOnTheWay

(***************************************************************************)
(* send_flags.                                                             *)
(***************************************************************************)
LEMMA AnswerFlagType ==
    ASSUME QueueTypeOK, ServerTypeOK,
           NEW flag \in {"ACK", "EOS"}, AnswerFlag(flag)
    PROVE  /\ s2c' \in Seq(Reply) /\ budget' \in [Disturbances -> Nat]
           /\ sPc' \in ServerPcs /\ task' \in Tasks
           /\ todo' \in SUBSET Nat /\ counted' \in BOOLEAN
           /\ flag # "EOS" => NoNewEOS
<1>1. FlagOnly(flag) \in Reply /\ FlagOnly(flag).flag = flag
    BY DEF FlagOnly, Reply, Fits, Codecs
<1>2. /\ s2c' \in Seq(Reply) /\ budget' \in [Disturbances -> Nat]
      /\ \A i \in 1..Len(s2c') :
            \/ s2c'[i].flag = flag
            \/ i \in 1..Len(s2c) /\ s2c'[i] = s2c[i]
    BY <1>1, ToClientType DEF AnswerFlag
<1>3. flag # "EOS" => NoNewEOS
    BY <1>2 DEF NoNewEOS, EOSOnTheWay
<1> QED
    BY <1>2, <1>3 DEF AnswerFlag, ServerTypeOK, Tasks

(***************************************************************************)
(* Music on its way is a reply, whatever the size the code computes.       *)
(***************************************************************************)
LEMMA SizeType ==
    ASSUME ServerTypeOK
    PROVE  SizeToSend \in Nat /\ Remaining \in Int
<1>1. Remaining \in Int
    BY ProtocolAssumption DEF ServerTypeOK, Remaining
<1>2. SizeWidth \in Nat \ {0} /\ Chunk \in Nat
    BY ServerAssumption, ProtocolAssumption
<1>3. Remaining % SizeWidth \in 0..(SizeWidth - 1)
    BY <1>1, <1>2
<1> QED
    BY <1>1, <1>2, <1>3 DEF SizeToSend

LEMMA MusicPacketType ==
    ASSUME ServerTypeOK, NEW n \in Nat
    PROVE  MusicPacket(n) \in Reply /\ MusicPacket(n).flag = "NONE"
<1>1. SizeToSend \in Nat /\ musicPtr + n \in Int
    BY SizeType DEF ServerTypeOK
<1>2. Codec(sQuality) \in Codecs
    BY DEF Codec, Codecs
<1> QED
    BY <1>1, <1>2 DEF MusicPacket, Reply, Fits

LEMMA PerBatchType ==
    ASSUME ServerTypeOK
    PROVE  PerBatch \in Nat
BY PacketsBounds DEF ServerTypeOK, PerBatch, PacketsOf

-----------------------------------------------------------------------------
(***************************************************************************)
(* What each step of the server has to be shown to keep.                   *)
(***************************************************************************)
ServerInv == QueueTypeOK /\ ServerTypeOK /\ SlotInv

(***************************************************************************)
(* Steps that touch neither the slot's owner nor the replies.              *)
(***************************************************************************)
LEMMA SlotKept ==
    ASSUME SlotInv, UNCHANGED <<seen, inUse>>, NoNewEOS
    PROVE  SlotInv'
BY DEF SlotInv, NoNewEOS

(***************************************************************************)
(* A client that is answered as a member takes, or keeps, its slot: no EOS *)
(* can be on its way to it.                                                *)
(***************************************************************************)
LEMMA MemberKept ==
    ASSUME SlotInv, ~Stranger, Register \/ UNCHANGED <<seen, inUse>>,
           NoNewEOS
    PROVE  SlotInv'
BY DEF SlotInv, NoNewEOS, Stranger, Register

LEMMA CrashKeeps ==
    ASSUME ServerInv, Crash, c2s' \in Seq(Request)
    PROVE  ServerInv'
<1>1. QueueTypeOK' /\ ServerTypeOK'
    BY DEF ServerInv, Crash, QueueTypeOK, ServerTypeOK, ServerPcs, slotVars
<1>2. SlotInv'
    BY SlotKept, KeepsReplies DEF ServerInv, Crash, slotVars
<1> QED
    BY <1>1, <1>2 DEF ServerInv

(***************************************************************************)
(* What starting a batch, or a resend, does to the types.                  *)
(***************************************************************************)
LEMMA StartBatchType ==
    ASSUME ServerInv, StartBatch
    PROVE  /\ sPc' \in ServerPcs /\ task' \in Tasks
           /\ todo' \in SUBSET Nat /\ counted' \in BOOLEAN
           /\ s2c' \in Seq(Reply) /\ budget' \in [Disturbances -> Nat]
           /\ NoNewEOS
BY PerBatchType, KeepsReplies
DEF ServerInv, StartBatch, ServerPcs, Tasks, QueueTypeOK

LEMMA StartResendType ==
    ASSUME ServerInv, NEW b \in Nat, NEW list \in SUBSET Nat,
           StartResend(b, list)
    PROVE  /\ sPc' \in ServerPcs
           /\ todo' \in SUBSET Nat /\ counted' \in BOOLEAN
           /\ sBatch' \in Nat /\ musicPtr' \in Int
           /\ sQuality' \in 0..TopQuality /\ bytesSent' \in Nat
           /\ s2c' \in Seq(Reply) /\ budget' \in [Disturbances -> Nat]
           /\ NoNewEOS
BY PerBatchType, KeepsReplies
DEF ServerInv, StartResend, ServerPcs, QueueTypeOK, ServerTypeOK

LEMMA ResendAnythingType ==
    ASSUME ServerInv, ResendAnything
    PROVE  /\ sPc' \in ServerPcs /\ task' \in Tasks
           /\ todo' \in SUBSET Nat /\ counted' \in BOOLEAN
           /\ sBatch' \in Nat /\ musicPtr' \in Int
           /\ sQuality' \in 0..TopQuality /\ bytesSent' \in Nat
           /\ s2c' \in Seq(Reply) /\ budget' \in [Disturbances -> Nat]
           /\ NoNewEOS
<1>1. PICK b \in {sBatch, sBatch + 1}, list \in SUBSET (0..PerBatch) :
          task' = "junk" /\ StartResend(b, list)
    BY DEF ResendAnything
<1>2. b \in Nat /\ list \in SUBSET Nat
    BY <1>1, PerBatchType DEF ServerInv, ServerTypeOK
<1>3. task' \in Tasks
    BY <1>1 DEF Tasks
<1> QED
    BY <1>1, <1>2, <1>3, StartResendType
-----------------------------------------------------------------------------
(***************************************************************************)
(* Every handler keeps the invariant (receive.c).                          *)
(***************************************************************************)
LEMMA ReceiveStepKeeps ==
    ASSUME ServerInv, ReceiveStep
    PROVE  ServerInv'
<1> USE DEF ServerInv
<1>1. CASE ReceiveFaulty
    <2>1. c2s' \in Seq(Request)
        BY <1>1, ServerReceiveType DEF ReceiveFaulty
    <2>2. QueueTypeOK' /\ ServerTypeOK'
        BY <1>1, <2>1
        DEF ReceiveFaulty, QueueTypeOK, ServerTypeOK, ServerPcs, slotVars
    <2>3. SlotInv'
        BY <1>1, SlotKept, KeepsReplies DEF ReceiveFaulty, slotVars
    <2> QED
        BY <2>2, <2>3
<1>2. CASE Swallow
    <2>1. c2s' \in Seq(Request)
        BY <1>2, ServerReceiveType DEF Swallow
    <2>2. CASE /\ sPc' = "receive"
               /\ UNCHANGED <<slotVars, task, todo, counted, s2c, budget>>
        <3>1. QueueTypeOK' /\ ServerTypeOK'
            BY <2>1, <2>2
            DEF QueueTypeOK, ServerTypeOK, ServerPcs, slotVars
        <3>2. SlotInv'
            BY <2>2, SlotKept, KeepsReplies DEF slotVars
        <3> QED
            BY <3>1, <3>2
    <2>3. CASE Crash
        BY <2>1, <2>3, CrashKeeps
    <2> QED
        BY <1>2, <2>2, <2>3 DEF Swallow
<1>3. ASSUME ServerReceives
      PROVE  Head(c2s) \in Request /\ c2s' \in Seq(Request)
    BY <1>3, ServerReceiveType DEF ServerReceives
<1>4. CASE RejectStranger
    <2>1. c2s' \in Seq(Request)
        BY <1>3, <1>4 DEF RejectStranger
    <2>2. QueueTypeOK' /\ ServerTypeOK'
        BY <1>4, <2>1, AnswerFlagType
        DEF RejectStranger, QueueTypeOK, ServerTypeOK, slotVars
    <2>3. SlotInv'
        BY <1>4 DEF RejectStranger, Stranger, SlotInv, slotVars
    <2> QED
        BY <2>2, <2>3
<1>5. CASE HandleACK
    <2>1. /\ Head(c2s).arg \in Qualities
          /\ c2s' \in Seq(Request)
        BY <1>3, <1>5, RequestFields DEF HandleACK
    <2>2. QueueTypeOK' /\ ServerTypeOK'
        BY <1>5, <2>1, AnswerFlagType, ProtocolAssumption, SMTT(30)
        DEF HandleACK, Register, QueueTypeOK, ServerTypeOK, Stages, Qualities
    <2>3. SlotInv'
        BY <1>5, AnswerFlagType, MemberKept DEF HandleACK
    <2> QED
        BY <2>2, <2>3
<1>6. CASE HandleQTY
    <2>1. /\ Head(c2s).arg \in Qualities
          /\ c2s' \in Seq(Request)
        BY <1>3, <1>6, RequestFields DEF HandleQTY
    <2>2. QueueTypeOK' /\ ServerTypeOK'
        BY <1>6, <2>1, AnswerFlagType, ProtocolAssumption
        DEF HandleQTY, QueueTypeOK, ServerTypeOK, Qualities
    <2>3. SlotInv'
        BY <1>6, AnswerFlagType, MemberKept DEF HandleQTY
    <2> QED
        BY <2>2, <2>3
<1>7. CASE HandleRR
    <2>1. c2s' \in Seq(Request)
        BY <1>3, <1>7 DEF HandleRR
    <2>2. stage' \in Stages
        BY <1>7 DEF HandleRR, Stages, ServerTypeOK
    <2>3. QueueTypeOK' /\ ServerTypeOK'
        BY <1>7, <2>1, <2>2, StartBatchType
        DEF HandleRR, Register, QueueTypeOK, ServerTypeOK
    <2>4. SlotInv'
        BY <1>7, StartBatchType, MemberKept DEF HandleRR
    <2> QED
        BY <2>3, <2>4
<1>8. CASE EndStream
    <2>1. c2s' \in Seq(Request)
        BY <1>3, <1>8 DEF EndStream
    <2>2. QueueTypeOK' /\ ServerTypeOK'
        BY <1>8, <2>1, AnswerFlagType
        DEF EndStream, QueueTypeOK, ServerTypeOK
    <2>3. seen' /\ ~inUse'
        BY <1>8 DEF EndStream, Stage, SlotInv
    <2> QED
        BY <2>2, <2>3 DEF SlotInv
<1>9. CASE HandleREJ
    <2>1. /\ Head(c2s).arg \in Nat /\ Head(c2s).list \in SUBSET Nat
          /\ c2s' \in Seq(Request)
        BY <1>3, <1>9, RequestFields DEF HandleREJ
    <2>2. StartResend(Head(c2s).arg, Head(c2s).list)
        BY <1>9 DEF HandleREJ
    <2>3. QueueTypeOK' /\ ServerTypeOK'
        BY <1>9, <2>1, <2>2, StartResendType
        DEF HandleREJ, QueueTypeOK, ServerTypeOK, Tasks
    <2>4. NoNewEOS
        BY <2>1, <2>2, StartResendType
    <2>5. SlotInv'
        BY <1>9, <2>4, MemberKept DEF HandleREJ
    <2> QED
        BY <2>3, <2>5
<1>10. CASE HandleFirstREJ
    <2>1. c2s' \in Seq(Request)
        BY <1>3, <1>10 DEF HandleFirstREJ
    <2>2. CASE Crash
        BY <2>1, <2>2, CrashKeeps
    <2>3. CASE ResendAnything /\ stage' = "INTERMEDIATE" /\ Register
        <3>1. QueueTypeOK' /\ ServerTypeOK'
            BY <2>1, <2>3, ResendAnythingType
            DEF Register, QueueTypeOK, ServerTypeOK, Stages
        <3>2. SlotInv'
            BY <1>10, <2>3, ResendAnythingType, MemberKept DEF HandleFirstREJ
        <3> QED
            BY <3>1, <3>2
    <2> QED
        BY <1>10, <2>2, <2>3 DEF HandleFirstREJ
<1>11. CASE RepeatLastTask
    <2>1. c2s' \in Seq(Request)
        BY <1>3, <1>11 DEF RepeatLastTask
    <2>2. CASE AnswerFlag("ACK") /\ UNCHANGED slotVars
        <3>1. QueueTypeOK' /\ ServerTypeOK'
            BY <2>1, <2>2, AnswerFlagType
            DEF QueueTypeOK, ServerTypeOK, slotVars
        <3>2. SlotInv'
            BY <2>2, AnswerFlagType, SlotKept DEF slotVars
        <3> QED
            BY <3>1, <3>2
    <2>3. CASE StartBatch /\ UNCHANGED slotVars
        <3>1. QueueTypeOK' /\ ServerTypeOK'
            BY <2>1, <2>3, StartBatchType
            DEF QueueTypeOK, ServerTypeOK, slotVars
        <3>2. SlotInv'
            BY <2>3, StartBatchType, SlotKept DEF slotVars
        <3> QED
            BY <3>1, <3>2
    <2>4. CASE Crash
        BY <2>1, <2>4, CrashKeeps
    <2>5. CASE ResendAnything /\ UNCHANGED <<seen, inUse, stage>>
        <3>1. QueueTypeOK' /\ ServerTypeOK'
            BY <2>1, <2>5, ResendAnythingType
            DEF QueueTypeOK, ServerTypeOK
        <3>2. SlotInv'
            BY <2>5, ResendAnythingType, SlotKept
        <3> QED
            BY <3>1, <3>2
    <2> QED
        BY <1>11, <2>2, <2>3, <2>4, <2>5 DEF RepeatLastTask
<1> QED
    BY <1>1, <1>2, <1>4, <1>5, <1>6, <1>7, <1>8, <1>9, <1>10, <1>11
    DEF ReceiveStep

(***************************************************************************)
(* So does every step of sending (send.c).                                 *)
(***************************************************************************)
LEMMA SendPacketKeeps ==
    ASSUME ServerInv, SendPacket
    PROVE  ServerInv'
<1> USE DEF ServerInv
<1>1. PICK n \in NextToSend :
        /\ Leaves(MusicPacket(n))
        /\ todo' = todo \ {n}
        /\ bytesSent' = IF ~counted THEN bytesSent
                        ELSE bytesSent + (IF Cut THEN Remaining ELSE Chunk)
        /\ UNCHANGED <<sPc, seen, inUse, stage, sBatch, sQuality, musicPtr,
                       task, counted, c2s>>
    BY DEF SendPacket
<1>2. n \in Nat
    BY DEF NextToSend, ServerTypeOK
<1>3. /\ s2c' \in Seq(Reply) /\ budget' \in [Disturbances -> Nat]
      /\ NoNewEOS
    <2>1. MusicPacket(n) \in Reply /\ MusicPacket(n).flag = "NONE"
        BY <1>2, MusicPacketType
    <2>2. /\ s2c' \in Seq(Reply) /\ budget' \in [Disturbances -> Nat]
          /\ \A i \in 1..Len(s2c') :
                \/ s2c'[i].flag = "NONE"
                \/ i \in 1..Len(s2c) /\ s2c'[i] = s2c[i]
        BY <1>1, <2>1, LeavesType
    <2> QED
        BY <2>2 DEF NoNewEOS, EOSOnTheWay
<1>4. bytesSent' \in Nat
    <2>1. bytesSent + Remaining \in Nat /\ bytesSent + Chunk \in Nat
        BY ProtocolAssumption DEF Remaining, ServerTypeOK
    <2> QED
        BY <1>1, <2>1 DEF ServerTypeOK
<1>5. QueueTypeOK' /\ ServerTypeOK'
    BY <1>1, <1>3, <1>4 DEF QueueTypeOK, ServerTypeOK
<1>6. SlotInv'
    BY <1>1, <1>3, SlotKept
<1> QED
    BY <1>5, <1>6

LEMMA SendStepKeeps ==
    ASSUME ServerInv, SendStep
    PROVE  ServerInv'
<1> USE DEF ServerInv
<1>1. CASE SendPacket
    BY <1>1, SendPacketKeeps
<1>2. CASE SendCrash
    BY <1>2, CrashKeeps DEF SendCrash, QueueTypeOK
<1>3. CASE FinishBatch
    <2>1. PerBatch \in Nat
        BY PerBatchType
    <2>2. musicPtr' \in Int /\ sBatch' \in Nat /\ stage' \in Stages
        BY <1>3, <2>1 DEF FinishBatch, ServerTypeOK, Stages
    <2>3. QueueTypeOK' /\ ServerTypeOK'
        BY <1>3, <2>2
        DEF FinishBatch, QueueTypeOK, ServerTypeOK, ServerPcs, netVars
    <2>4. SlotInv'
        BY <1>3, SlotKept, KeepsReplies DEF FinishBatch, netVars
    <2> QED
        BY <2>3, <2>4
<1>4. CASE FinishResend
    <2>1. CASE Crash
        BY <1>4, <2>1, CrashKeeps DEF FinishResend, QueueTypeOK
    <2>2. CASE /\ musicPtr' = musicPtr + PerBatch
               /\ sPc' = "receive"
               /\ UNCHANGED <<seen, inUse, stage, sBatch, sQuality,
                              bytesSent, task, todo, counted, s2c, budget>>
        <3>1. musicPtr' \in Int
            BY <2>2, PerBatchType DEF ServerTypeOK
        <3>2. QueueTypeOK' /\ ServerTypeOK'
            BY <1>4, <2>2, <3>1
            DEF FinishResend, QueueTypeOK, ServerTypeOK, ServerPcs
        <3>3. SlotInv'
            BY <2>2, SlotKept, KeepsReplies
        <3> QED
            BY <3>2, <3>3
    <2> QED
        BY <1>4, <2>1, <2>2 DEF FinishResend
<1> QED
    BY <1>1, <1>2, <1>3, <1>4 DEF SendStep

(***************************************************************************)
(* One step of the server's main loop, and one of its timer.               *)
(***************************************************************************)
LEMMA ServerNextKeeps ==
    ASSUME ServerInv, ServerNext
    PROVE  ServerInv'
<1>1. CASE NobodyListens
    <2>1. QueueTypeOK' /\ ServerTypeOK'
        BY <1>1, EmptySeq DEF ServerInv, NobodyListens, serverVars, slotVars,
           QueueTypeOK, ServerTypeOK
    <2>2. SlotInv'
        BY <1>1, SlotKept, KeepsReplies
        DEF ServerInv, NobodyListens, serverVars, slotVars
    <2> QED
        BY <2>1, <2>2 DEF ServerInv
<1> QED
    BY <1>1, ReceiveStepKeeps, SendStepKeeps DEF ServerNext

LEMMA ExpireKeeps ==
    ASSUME ServerInv, Expire
    PROVE  ServerInv'
<1>1. budget' \in [Disturbances -> Nat]
    BY SpendType DEF ServerInv, QueueTypeOK, Expire, Disturbances
<1>2. QueueTypeOK' /\ ServerTypeOK'
    BY <1>1 DEF ServerInv, Expire, QueueTypeOK, ServerTypeOK
<1>3. SlotInv'
    BY DEF ServerInv, Expire, SlotInv, EOSOnTheWay
<1> QED
    BY <1>2, <1>3 DEF ServerInv

(***************************************************************************)
(* No step of the server takes in a client that its slot has let go:       *)
(* search_client finds no slot for it.                                     *)
(***************************************************************************)
LEMMA StrangerStaysOut ==
    ASSUME seen, ~inUse, ServerNext \/ Expire
    PROVE  UNCHANGED <<seen, inUse>>
<1>1. Stranger
    BY DEF Stranger
<1>2. CASE ReceiveStep
    BY <1>1, <1>2
    DEF ReceiveStep, ReceiveFaulty, Swallow, Crash, RejectStranger, HandleACK,
        HandleQTY, HandleRR, EndStream, HandleREJ, HandleFirstREJ,
        RepeatLastTask, slotVars
<1>3. CASE SendStep
    BY <1>3
    DEF SendStep, SendPacket, SendCrash, Crash, FinishBatch, FinishResend,
        slotVars
<1>4. CASE NobodyListens \/ Expire
    BY <1>4 DEF NobodyListens, Expire, serverVars, slotVars
<1> QED
    BY <1>2, <1>3, <1>4 DEF ServerNext

-----------------------------------------------------------------------------
(***************************************************************************)
(* The client.                                                             *)
(***************************************************************************)

ClientInv == QueueTypeOK /\ ClientTypeOK /\ BatchInv /\ RoomInv

(***************************************************************************)
(* The client takes datagrams out of its socket and adds none to it.       *)
(***************************************************************************)
NoReplyAdded ==
    \A i \in 1..Len(s2c') : \E j \in 1..Len(s2c) : s2c'[i] = s2c[j]

(***************************************************************************)
(* A batch of any quality fits twice into the buffer (main.c).             *)
(***************************************************************************)
LEMMA BatchBounds ==
    ASSUME ClientTypeOK
    PROVE  /\ PerBatchC \in Nat \ {0}
           /\ Packets[TopQuality] \in Nat
           /\ PerBatchC <= Packets[TopQuality]
           /\ Capacity \in Nat /\ PerBatchC + PerBatchC <= Capacity
BY PacketsBounds, ClientAssumption, ProtocolAssumption
DEF ClientTypeOK, PerBatchC

LEMMA SameBatchSize ==
    ASSUME UNCHANGED cQuality
    PROVE  PerBatchC' = PerBatchC
BY DEF PerBatchC

-----------------------------------------------------------------------------
(***************************************************************************)
(* The calls of com_receive and com_send.                                  *)
(***************************************************************************)
LEMMA ReceivesType ==
    ASSUME QueueTypeOK, NEW peek \in BOOLEAN, ClientReceives(peek)
    PROVE  QueueTypeOK' /\ NoReplyAdded /\ Head(s2c) \in Reply
BY AfterReceiveType DEF QueueTypeOK, ClientReceives, NoReplyAdded

LEMMA TimesOutType ==
    ASSUME QueueTypeOK, NEW silent, TimesOut(silent)
    PROVE  QueueTypeOK' /\ NoReplyAdded
BY SpendType DEF QueueTypeOK, TimesOut, NoReplyAdded, Disturbances

LEMMA SendsType ==
    ASSUME QueueTypeOK, NEW flag, NEW arg, NEW list,
           RequestOf(flag, arg, list) \in Request, Sends(flag, arg, list)
    PROVE  QueueTypeOK' /\ NoReplyAdded
BY ToServerType DEF QueueTypeOK, Sends, NoReplyAdded

LEMMA RequestTypes ==
    /\ \A q \in Qualities : /\ RequestOf("ACK", q, {}) \in Request
                            /\ RequestOf("QTY", q, {}) \in Request
    /\ \A b \in Nat : RequestOf("RR", b, {}) \in Request
    /\ \A b \in Nat : \A l \in SUBSET Nat : RequestOf("REJ", b, l) \in Request
BY DEF RequestOf, Request, QualityRequest, BatchRequest, Fits

LEMMA PeekType ==
    ASSUME QueueTypeOK, NEW silent, SeesEOS \/ SeesNoEOS(silent)
    PROVE  QueueTypeOK' /\ NoReplyAdded
BY ReceivesType, TimesOutType DEF SeesEOS, SeesNoEOS

-----------------------------------------------------------------------------
(***************************************************************************)
(* Steps between batches that only move the control on: connecting, and    *)
(* agreeing on a quality.                                                  *)
(***************************************************************************)
Connecting == {"connect", "connack"}
Agreeing == {"qpeek", "qsend", "qack"}

LEMMA IdleStep ==
    ASSUME ClientInv, QueueTypeOK',
           UNCHANGED <<filling, eos, cBatch, qualityVars, batchVars, used,
                       heard>>,
           \/ cPc \in Connecting /\ cPc' \in Connecting \cup {"request", "exited"}
           \/ cPc \in Agreeing /\ cPc' \in Agreeing \cup {"request", "drain"}
    PROVE  ClientInv'
<1>1. PerBatchC' = PerBatchC
    BY SameBatchSize DEF qualityVars
<1>2. ClientTypeOK'
    BY <1>1
    DEF ClientInv, ClientTypeOK, ClientPcs, Connecting, Agreeing,
        qualityVars, batchVars
<1>3. BatchInv'
    BY <1>1
    DEF ClientInv, BatchInv, Collecting, Connecting, Agreeing, batchVars
<1>4. RoomInv'
    BY <1>1, BatchBounds
    DEF ClientInv, RoomInv, RoomForABatch, Collecting, Connecting, Agreeing
<1> QED
    BY <1>2, <1>3, <1>4 DEF ClientInv

LEMMA ConnectStepKeeps ==
    ASSUME ClientInv, NEW silent, ConnectStep(silent)
    PROVE  ClientInv' /\ NoReplyAdded
<1>1. CASE Connect
    <2>1. QueueTypeOK' /\ NoReplyAdded
        BY <1>1, SendsType, RequestTypes
        DEF Connect, ClientInv, ClientTypeOK
    <2> QED
        BY <1>1, <2>1, IdleStep DEF Connect, Connecting
<1>2. CASE Connected
    <2>1. QueueTypeOK' /\ NoReplyAdded
        BY <1>2, ReceivesType DEF Connected, ClientInv
    <2> QED
        BY <1>2, <2>1, IdleStep DEF Connected, Connecting, Plays
<1>3. CASE ConnectFaulty
    <2>1. QueueTypeOK' /\ NoReplyAdded
        BY <1>3, ReceivesType DEF ConnectFaulty, ClientInv
    <2> QED
        BY <1>3, <2>1, IdleStep DEF ConnectFaulty, Connecting
<1>4. CASE ConnectFails(silent)
    <2>1. QueueTypeOK' /\ NoReplyAdded
        BY <1>4, ReceivesType, TimesOutType DEF ConnectFails, ClientInv
    <2> QED
        BY <1>4, <2>1, IdleStep DEF ConnectFails, Connecting
<1> QED
    BY <1>1, <1>2, <1>3, <1>4 DEF ConnectStep
(***************************************************************************)
(* quality_adjust stays within the qualities there are.                    *)
(***************************************************************************)
LEMMA NextQualityType ==
    ASSUME cQuality \in Qualities
    PROVE  NextQuality \in Qualities
BY ProtocolAssumption DEF NextQuality, Qualities

LEMMA AdjustKeeps ==
    ASSUME ClientInv, AdjustQuality
    PROVE  ClientInv' /\ NoReplyAdded
<1>1. /\ raw = NoRaw /\ count = 0 /\ ~filling
      /\ cPc' \in {"qpeek", "drain", "request"}
    BY DEF ClientInv, BatchInv, RoomInv, Collecting, AdjustQuality,
           AfterAdjust
<1>2. cQuality' \in Qualities
    BY NextQualityType DEF AdjustQuality, ClientInv, ClientTypeOK
<1>3. QueueTypeOK' /\ NoReplyAdded
    BY DEF ClientInv, QueueTypeOK, AdjustQuality, netVars, NoReplyAdded
<1>4. measure' \in 0..(MeasurePeriod - 1) /\ trouble' \in 0..TroubleCap
    BY ClientAssumption DEF AdjustQuality
<1>5. raw' = NoRaw
    BY <1>1 DEF AdjustQuality, batchVars, NoRaw
<1>6. ClientTypeOK'
    BY <1>1, <1>2, <1>4, <1>5
    DEF ClientInv, ClientTypeOK, AdjustQuality, batchVars, ClientPcs
<1>7. BatchInv' /\ RoomInv'
    BY <1>1, <1>5
    DEF ClientInv, AdjustQuality, BatchInv, RoomInv, Collecting, batchVars
<1> QED
    BY <1>3, <1>6, <1>7 DEF ClientInv

LEMMA MeasureKeeps ==
    ASSUME ClientInv, Measure
    PROVE  ClientInv' /\ NoReplyAdded
<1>1. cPc' \in {"drain", "request"} /\ ~filling
    BY DEF Measure, AfterAdjust, ClientInv, RoomInv
<1>2. PerBatchC' = PerBatchC
    BY SameBatchSize DEF Measure
<1>3. QueueTypeOK' /\ NoReplyAdded
    BY DEF ClientInv, QueueTypeOK, Measure, netVars, NoReplyAdded
<1>4. measure' \in 0..(MeasurePeriod - 1)
    BY ClientAssumption DEF ClientInv, ClientTypeOK, Measure
<1>5. ClientTypeOK'
    BY <1>1, <1>2, <1>4
    DEF ClientInv, ClientTypeOK, Measure, batchVars, ClientPcs
<1>6. BatchInv' /\ RoomInv'
    BY <1>1
    DEF ClientInv, Measure, BatchInv, RoomInv, Collecting, batchVars
<1> QED
    BY <1>3, <1>5, <1>6 DEF ClientInv

LEMMA QualityStepKeeps ==
    ASSUME ClientInv, NEW silent, QualityStep(silent)
    PROVE  ClientInv' /\ NoReplyAdded
<1>0. AfterAdjust \in {"drain", "request"}
    BY DEF AfterAdjust
<1>1. CASE Measure
    BY <1>1, MeasureKeeps
<1>2. CASE AdjustQuality
    BY <1>2, AdjustKeeps
<1>3. CASE QualityPointless
    <2>1. QueueTypeOK' /\ NoReplyAdded
        BY <1>3, PeekType DEF QualityPointless, ClientInv
    <2> QED
        BY <1>0, <1>3, <2>1, IdleStep DEF QualityPointless, Agreeing
<1>4. CASE QualityWanted(silent)
    <2>1. QueueTypeOK' /\ NoReplyAdded
        BY <1>4, PeekType DEF QualityWanted, ClientInv
    <2> QED
        BY <1>4, <2>1, IdleStep DEF QualityWanted, Agreeing
<1>5. CASE SendQuality
    <2>1. QueueTypeOK' /\ NoReplyAdded
        BY <1>5, SendsType, RequestTypes
        DEF SendQuality, ClientInv, ClientTypeOK
    <2> QED
        BY <1>5, <2>1, IdleStep DEF SendQuality, Agreeing
<1>6. CASE QualityAgreed
    <2>1. QueueTypeOK' /\ NoReplyAdded
        BY <1>6, ReceivesType DEF QualityAgreed, ClientInv
    <2> QED
        BY <1>0, <1>6, <2>1, IdleStep DEF QualityAgreed, Agreeing
<1>7. CASE QualityRetry(silent)
    <2>1. QueueTypeOK' /\ NoReplyAdded
        BY <1>7, ReceivesType, TimesOutType DEF QualityRetry, ClientInv
    <2> QED
        BY <1>7, <2>1, IdleStep DEF QualityRetry, Agreeing
<1> QED
    BY <1>1, <1>2, <1>3, <1>4, <1>5, <1>6, <1>7 DEF QualityStep

-----------------------------------------------------------------------------
(***************************************************************************)
(* Playing takes a packet out of a buffer that has one.                    *)
(***************************************************************************)
LEMMA PlayStepKeeps ==
    ASSUME ClientInv, Play \/ Drain
    PROVE  ClientInv' /\ NoReplyAdded
<1>1. UNCHANGED <<filling, eos, cBatch, qualityVars, batchVars, heard, netVars>>
    BY DEF Play, Drain
<1>2. used' \in Nat /\ used' <= used
    BY BatchBounds, SMTT(30)
    DEF ClientInv, ClientTypeOK, Play, Drain, Room
<1>3. \/ cPc = "request" /\ cPc' \in {"request", "exited"} /\ ~filling
      \/ cPc = "drain" /\ cPc' \in {"drain", "done", "exited"}
    BY DEF Play, Drain, Plays
<1>4. PerBatchC' = PerBatchC
    BY <1>1, SameBatchSize DEF qualityVars
<1>5. QueueTypeOK' /\ NoReplyAdded
    BY <1>1 DEF ClientInv, QueueTypeOK, netVars, NoReplyAdded
<1>6. ClientTypeOK'
    BY <1>1, <1>2, <1>3, <1>4
    DEF ClientInv, ClientTypeOK, ClientPcs, batchVars, qualityVars
<1>7. BatchInv'
    BY <1>1, <1>3 DEF ClientInv, BatchInv, Collecting, batchVars
<1>8. RoomInv'
    BY <1>1, <1>2, <1>3, BatchBounds
    DEF ClientInv, ClientTypeOK, RoomInv, Collecting
<1> QED
    BY <1>5, <1>6, <1>7, <1>8 DEF ClientInv
-----------------------------------------------------------------------------
(***************************************************************************)
(* Steps within a batch, given what they do to its bookkeeping.            *)
(***************************************************************************)
LEMMA BatchGoesOn ==
    ASSUME ClientInv, QueueTypeOK', Collecting,
           cPc' \in {"peek", "collect", "check"},
           UNCHANGED <<filling, eos, cBatch, cQuality, measure, okCount,
                       used, heard>>,
           trouble' \in 0..TroubleCap,
           raw' \in [0..(PerBatchC - 1) -> Slot],
           have' \in SUBSET (0..Packets[TopQuality]),
           count' \in Nat, iter' \in Nat, limit' \in Nat,
           cPc' = "peek" => count' < PerBatchC,
           cPc' = "collect" =>
              iter' < limit' /\ count' + (limit' - iter') <= PerBatchC,
           cPc' = "check" => count' <= PerBatchC
    PROVE  ClientInv'
<1>1. PerBatchC' = PerBatchC
    BY SameBatchSize
<1>2. ClientTypeOK'
    BY <1>1 DEF ClientInv, ClientTypeOK, ClientPcs
<1>3. BatchInv'
    BY <1>1 DEF BatchInv, Collecting
<1>4. RoomInv'
    BY <1>1 DEF ClientInv, RoomInv, RoomForABatch, Collecting
<1> QED
    BY <1>2, <1>3, <1>4 DEF ClientInv

(***************************************************************************)
(* The count of lost and faulty packets stays within its bound.            *)
(***************************************************************************)
LEMMA TroubleType ==
    ASSUME trouble \in 0..TroubleCap, NEW n \in Nat, CountTrouble(n)
    PROVE  trouble' \in 0..TroubleCap
BY ClientAssumption DEF CountTrouble, LesserOf

(***************************************************************************)
(* What raw_batch_receive makes of a packet has a size.                    *)
(***************************************************************************)
LEMMA DecodedType ==
    ASSUME NEW m \in Reply
    PROVE  /\ Codec(cQuality) \in Codecs /\ m.codec \in Codecs
           /\ PacketSize(m) \in Nat /\ PacketSize(m) <= m.size
           /\ DecodedSize(m) \in Nat
<1>1. m.codec \in Codecs /\ m.size \in Nat
    BY DEF Reply
<1>2. Codec(cQuality) \in Codecs
    BY DEF Codec, Codecs
<1>3. PacketSize(m) \in Nat /\ PacketSize(m) <= m.size
    BY <1>1, CodingType DEF PacketSize
<1> QED
    BY <1>1, <1>2, <1>3, CodingType DEF DecodedSize

(***************************************************************************)
(* Copying a packet into its place leaves a slot (raw_batch_receive).      *)
(***************************************************************************)
LEMMA OverlayType ==
    ASSUME NEW old \in Slot, NEW m \in Reply
    PROVE  Overlay(old, m) \in Slot /\ Garbled \in Slot
<1>1. Garbled \in Slot
    BY ProtocolAssumption DEF Garbled, Slot
<1>2. DecodedSize(m) \in Nat /\ m.pos \in Int /\ Chunk \in Nat
    BY DecodedType, ProtocolAssumption DEF Reply
<1>3. CASE DecodedSize(m) <= Chunk
    <2>1. [pos |-> m.pos, size |-> DecodedSize(m)] \in Slot
        BY <1>2, <1>3 DEF Slot
    <2> QED
        BY <1>1, <2>1 DEF Overlay
<1>4. CASE DecodedSize(m) > Chunk
    BY <1>1, <1>2, <1>4 DEF Overlay
<1> QED
    BY <1>2, <1>3, <1>4

LEMMA RequestBatchKeeps ==
    ASSUME ClientInv, RequestBatch
    PROVE  ClientInv' /\ NoReplyAdded
<1>1. QueueTypeOK' /\ NoReplyAdded
    BY SendsType, RequestTypes DEF RequestBatch, ClientInv, ClientTypeOK
<1>2. PerBatchC' = PerBatchC
    BY SameBatchSize DEF RequestBatch, qualityVars
<1>3. raw' \in [0..(PerBatchC - 1) -> Slot]
    BY ProtocolAssumption DEF RequestBatch, Silence, Slot
<1>4. count' = 0 /\ RoomForABatch
    BY BatchBounds
    DEF ClientInv, ClientTypeOK, BatchInv, RoomInv, RoomForABatch,
        RequestBatch, Collecting, Room
<1>5. ClientTypeOK'
    BY <1>2, <1>3
    DEF ClientInv, ClientTypeOK, RequestBatch, ClientPcs, qualityVars
<1>6. BatchInv'
    BY <1>2, <1>3, <1>4, BatchBounds
    DEF ClientInv, RequestBatch, BatchInv, Collecting
<1>7. RoomInv'
    BY <1>2, <1>4
    DEF ClientInv, RequestBatch, RoomInv, RoomForABatch, Collecting
<1> QED
    BY <1>1, <1>5, <1>6, <1>7 DEF ClientInv

LEMMA StreamEndsKeeps ==
    ASSUME ClientInv, StreamEnds
    PROVE  ClientInv' /\ NoReplyAdded
<1>1. QueueTypeOK' /\ NoReplyAdded
    BY PeekType DEF StreamEnds, ClientInv
<1>2. PerBatchC' = PerBatchC
    BY SameBatchSize DEF StreamEnds, qualityVars
<1>3. /\ raw' = NoRaw /\ have' = {} /\ count' = 0 /\ iter' = 0 /\ limit' = 0
      /\ cPc' \in {"drain", "adjust"}
      /\ cPc' = "adjust" => ~filling'
    BY DEF StreamEnds, FreeBatch
<1>4. raw' = NoRaw'
    BY <1>3 DEF NoRaw
<1>5. ClientTypeOK'
    BY <1>2, <1>3, <1>4
    DEF ClientInv, ClientTypeOK, StreamEnds, ClientPcs, qualityVars
<1>6. BatchInv'
    BY <1>3, <1>4 DEF BatchInv, Collecting
<1>7. RoomInv'
    BY <1>3 DEF ClientInv, RoomInv, StreamEnds, Collecting
<1> QED
    BY <1>1, <1>5, <1>6, <1>7 DEF ClientInv

LEMMA StreamGoesOnKeeps ==
    ASSUME ClientInv, NEW silent, StreamGoesOn(silent)
    PROVE  ClientInv' /\ NoReplyAdded
<1>1. QueueTypeOK' /\ NoReplyAdded
    BY PeekType DEF StreamGoesOn, ClientInv
<1>2. Collecting /\ count < PerBatchC /\ raw \in [0..(PerBatchC - 1) -> Slot]
    BY DEF ClientInv, BatchInv, StreamGoesOn, Collecting
<1>3. limit' \in Nat /\ iter' < limit' /\ count + (limit' - iter') <= PerBatchC
    BY <1>2, BatchBounds, SMTT(30) DEF ClientInv, ClientTypeOK, StreamGoesOn
<1> QED
    BY <1>1, <1>2, <1>3, BatchGoesOn
    DEF ClientInv, ClientTypeOK, StreamGoesOn, qualityVars

(***************************************************************************)
(* The receives still to come, and the packets still missing, shrink       *)
(* together.                                                               *)
(***************************************************************************)
LEMMA NextReceiveProgress ==
    ASSUME ClientInv, cPc = "collect", NextReceive, UNCHANGED limit,
           count' \in {count, count + 1}
    PROVE  /\ Collecting /\ raw \in [0..(PerBatchC - 1) -> Slot]
           /\ cPc' \in {"collect", "check"}
           /\ count' \in Nat /\ iter' \in Nat /\ limit' \in Nat
           /\ cPc' = "collect" =>
                 iter' < limit' /\ count' + (limit' - iter') <= PerBatchC
           /\ cPc' = "check" => count' <= PerBatchC
<1>1. iter < limit /\ count + (limit - iter) <= PerBatchC
    BY DEF ClientInv, BatchInv
<1>2. count \in Nat /\ iter \in Nat /\ limit \in Nat /\ PerBatchC \in Nat
    BY BatchBounds DEF ClientInv, ClientTypeOK
<1>3. Collecting /\ raw \in [0..(PerBatchC - 1) -> Slot]
    BY DEF ClientInv, BatchInv, Collecting
<1>4. iter' = iter + 1 /\ limit' = limit /\ cPc' \in {"collect", "check"}
    BY DEF NextReceive
<1>5. /\ cPc' = "collect" => iter + 1 # limit
      /\ cPc' = "check" => iter + 1 = limit
    BY DEF NextReceive
<1>6. CASE count' = count
    BY <1>1, <1>2, <1>3, <1>4, <1>5, <1>6
<1>7. CASE count' = count + 1
    BY <1>1, <1>2, <1>3, <1>4, <1>5, <1>7
<1> QED
    BY <1>6, <1>7

LEMMA CollectKeeps ==
    ASSUME ClientInv, NEW silent,
           CollectTimeout(silent) \/ CollectFaulty \/ CollectIgnored
    PROVE  ClientInv' /\ NoReplyAdded
<1>1. CASE CollectTimeout(silent)
    <2>1. QueueTypeOK' /\ NoReplyAdded
        BY <1>1, TimesOutType DEF CollectTimeout, ClientInv
    <2>2. /\ Collecting /\ raw \in [0..(PerBatchC - 1) -> Slot]
          /\ limit - iter \in Nat /\ count <= PerBatchC
        BY <1>1, BatchBounds
        DEF CollectTimeout, ClientInv, ClientTypeOK, BatchInv, Collecting
    <2>3. trouble' \in 0..TroubleCap
        BY <1>1, <2>2, TroubleType
        DEF CollectTimeout, ClientInv, ClientTypeOK
    <2> QED
        BY <1>1, <2>1, <2>2, <2>3, BatchGoesOn
        DEF ClientInv, ClientTypeOK, CollectTimeout, batchVars
<1>2. CASE CollectFaulty
    <2>1. QueueTypeOK' /\ NoReplyAdded
        BY <1>2, ReceivesType DEF CollectFaulty, ClientInv
    <2>2. trouble' \in 0..TroubleCap
        BY <1>2, TroubleType DEF CollectFaulty, ClientInv, ClientTypeOK
    <2> QED
        BY <1>2, <2>1, <2>2, NextReceiveProgress, BatchGoesOn
        DEF ClientInv, ClientTypeOK, CollectFaulty
<1>3. CASE CollectIgnored
    <2>1. QueueTypeOK' /\ NoReplyAdded
        BY <1>3, ReceivesType DEF CollectIgnored, ClientInv
    <2> QED
        BY <1>3, <2>1, NextReceiveProgress, BatchGoesOn
        DEF ClientInv, ClientTypeOK, CollectIgnored, qualityVars
<1> QED
    BY <1>1, <1>2, <1>3

LEMMA AcceptKeeps ==
    ASSUME ClientInv, Accept
    PROVE  ClientInv' /\ NoReplyAdded
<1> DEFINE m == Head(s2c)
<1>1. QueueTypeOK' /\ NoReplyAdded /\ m \in Reply
    BY ReceivesType DEF Accept, ClientInv
<1>2. raw \in [0..(PerBatchC - 1) -> Slot]
    BY DEF Accept, ClientInv, BatchInv, Collecting
<1>3. raw' \in [0..(PerBatchC - 1) -> Slot]
    <2>1. raw' = [n \in 0..(PerBatchC - 1) |->
                    IF n = m.nr THEN Overlay(raw[n], m)
                    ELSE IF Overruns(m, n) THEN Garbled ELSE raw[n]]
        BY <1>2 DEF Accept
    <2>2. \A n \in 0..(PerBatchC - 1) :
              (IF n = m.nr THEN Overlay(raw[n], m)
               ELSE IF Overruns(m, n) THEN Garbled ELSE raw[n]) \in Slot
        BY <1>1, <1>2, OverlayType
    <2> QED
        BY <2>1, <2>2
<1>4. have' \in SUBSET (0..Packets[TopQuality])
    <2>1. m.nr \in Nat /\ m.nr <= PerBatchC
        BY <1>1 DEF Accept, Acceptable, Reply
    <2>2. m.nr \in 0..Packets[TopQuality]
        BY <2>1, BatchBounds DEF ClientInv
    <2> QED
        BY <2>2 DEF Accept, ClientInv, ClientTypeOK
<1>5. NextReceive /\ UNCHANGED limit /\ count' = count + 1 /\ cPc = "collect"
    BY DEF Accept
<1> QED
    BY <1>1, <1>3, <1>4, <1>5, NextReceiveProgress, BatchGoesOn
    DEF Accept, ClientInv, ClientTypeOK, qualityVars

(***************************************************************************)
(* A client that writes outside its batch is gone; its variables stay.     *)
(***************************************************************************)
LEMMA AcceptCrashKeeps ==
    ASSUME ClientInv, AcceptCrash
    PROVE  ClientInv' /\ NoReplyAdded
<1>1. QueueTypeOK' /\ NoReplyAdded
    BY ReceivesType DEF AcceptCrash, ClientInv
<1>2. PerBatchC' = PerBatchC
    BY SameBatchSize DEF AcceptCrash, qualityVars
<1>3. ClientTypeOK'
    BY <1>2
    DEF AcceptCrash, ClientInv, ClientTypeOK, ClientPcs, qualityVars, batchVars
<1>4. BatchInv' /\ RoomInv'
    BY <1>2 DEF AcceptCrash, ClientInv, BatchInv, RoomInv, Collecting, batchVars
<1> QED
    BY <1>1, <1>3, <1>4 DEF ClientInv

LEMMA RejectMissingKeeps ==
    ASSUME ClientInv, RejectMissing
    PROVE  ClientInv' /\ NoReplyAdded
<1>1. Missing \in SUBSET Nat
    BY DEF Missing, Unmarked
<1>2. QueueTypeOK' /\ NoReplyAdded
    BY <1>1, SendsType, RequestTypes
    DEF RejectMissing, ClientInv, ClientTypeOK
<1>3. /\ Collecting /\ raw \in [0..(PerBatchC - 1) -> Slot]
      /\ count < PerBatchC
    BY BatchBounds
    DEF RejectMissing, ClientInv, ClientTypeOK, BatchInv, Collecting
<1> QED
    BY <1>2, <1>3, BatchGoesOn
    DEF RejectMissing, ClientInv, ClientTypeOK, qualityVars, batchVars

(***************************************************************************)
(* A complete batch goes into the playback buffer, where there is room.    *)
(***************************************************************************)
LEMMA TakeBatchKeeps ==
    ASSUME ClientInv, TakeBatch
    PROVE  ClientInv' /\ NoReplyAdded
<1>1. PerBatchC' = PerBatchC
    BY SameBatchSize DEF TakeBatch
<1>2. QueueTypeOK' /\ NoReplyAdded
    BY DEF ClientInv, QueueTypeOK, TakeBatch, netVars, NoReplyAdded
<1>3. raw \in [0..(PerBatchC - 1) -> Slot] /\ RoomForABatch
    BY DEF TakeBatch, ClientInv, BatchInv, RoomInv, Collecting
<1>4. /\ PerBatchC \in Nat /\ used \in Nat /\ Capacity \in Nat
      /\ okCount \in Nat /\ cBatch \in Nat
    BY BatchBounds DEF ClientInv, ClientTypeOK
<1>5. heard' \in Seq(Slot)
    <2>1. [k \in 1..PerBatchC |-> raw[k - 1]] \in Seq(Slot)
        <3>1. \A k \in 1..PerBatchC : raw[k - 1] \in Slot
            BY <1>3, <1>4
        <3> QED
            BY <3>1, <1>4, IsASeq
    <2> QED
        BY <2>1, ConcatProperties DEF TakeBatch, ClientInv, ClientTypeOK
<1>6. /\ raw' = NoRaw' /\ have' = {} /\ count' = 0 /\ iter' = 0 /\ limit' = 0
      /\ cPc' \in {"request", "adjust"} /\ filling' \in BOOLEAN
    BY DEF TakeBatch, FreeBatch, NoRaw
<1>7. ClientTypeOK'
    BY <1>1, <1>4, <1>5, <1>6
    DEF TakeBatch, ClientInv, ClientTypeOK, ClientPcs
<1>8. BatchInv'
    BY <1>6 DEF BatchInv, Collecting
<1>9. RoomInv'
    <2>1. used' <= Capacity
        BY <1>3, <1>4 DEF TakeBatch, RoomForABatch
    <2>2. cPc' = "request" /\ filling' => RoomForABatch'
        <3>1. filling' => Room - PerBatchC >= PerBatchC
            BY Zenon DEF TakeBatch
        <3>2. used' = used + PerBatchC
            BY DEF TakeBatch
        <3>3. Room - PerBatchC >= PerBatchC => RoomForABatch'
            BY <1>1, <1>4, <3>2 DEF RoomForABatch, Room
        <3> QED
            BY <3>1, <3>3
    <2>3. cPc' = "adjust" => ~filling'
        BY DEF TakeBatch
    <2> QED
        BY <1>6, <2>1, <2>2, <2>3 DEF RoomInv, Collecting
<1> QED
    BY <1>2, <1>7, <1>8, <1>9 DEF ClientInv

LEMMA BatchStepKeeps ==
    ASSUME ClientInv, NEW silent, BatchStep(silent)
    PROVE  ClientInv' /\ NoReplyAdded
BY RequestBatchKeeps, StreamEndsKeeps, StreamGoesOnKeeps, CollectKeeps,
   AcceptKeeps, AcceptCrashKeeps, RejectMissingKeeps, TakeBatchKeeps
DEF BatchStep

(***************************************************************************)
(* One step of the client.                                                 *)
(***************************************************************************)
LEMMA ClientNextKeeps ==
    ASSUME ClientInv, NEW silent, ClientNext(silent)
    PROVE  ClientInv' /\ NoReplyAdded
BY ConnectStepKeeps, BatchStepKeeps, QualityStepKeeps, PlayStepKeeps
DEF ClientNext

(***************************************************************************)
(* The client sets EOS_received only when it sees an EOS in its queue.     *)
(***************************************************************************)
LEMMA EOSIsSeen ==
    ASSUME ClientInv, NEW silent, ClientNext(silent)
    PROVE  \/ UNCHANGED eos
           \/ \E i \in 1..Len(s2c) : s2c[i].flag = "EOS"
<1>1. CASE StreamEnds
    <2>1. s2c # <<>> /\ Head(s2c).flag = "EOS"
        BY <1>1 DEF StreamEnds, SeesEOS, ClientReceives
    <2>2. s2c[1] = Head(s2c) /\ 1 \in 1..Len(s2c)
        BY <2>1, AfterReceiveType DEF ClientInv, QueueTypeOK
    <2> QED
        BY <2>1, <2>2
<1>2. CASE ~StreamEnds
    BY <1>2
    DEF ClientNext, ConnectStep, Connect, Connected, ConnectFaulty,
        ConnectFails, BatchStep, RequestBatch, StreamGoesOn, CollectTimeout,
        CollectFaulty, CollectIgnored, Accept, AcceptCrash, RejectMissing,
        TakeBatch, QualityStep, Measure, AdjustQuality, QualityPointless,
        QualityWanted, SendQuality, QualityAgreed, QualityRetry, Play, Drain
<1> QED
    BY <1>1, <1>2

-----------------------------------------------------------------------------
(***************************************************************************)
(* size_nrs may count a number twice, but counts every number that is      *)
(* marked.                                                                 *)
(***************************************************************************)
MarksInv == IsFiniteSet(have) /\ Cardinality(have) <= count

LEMMA MarksChange ==
    ASSUME NEW silent, ClientNext(silent)
    PROVE  \/ UNCHANGED <<have, count>>
           \/ have' = {} /\ count' = 0
           \/ \E nr : have' = have \cup {nr} /\ count' = count + 1
<1>1. CASE ConnectStep(silent)
    BY <1>1 DEF ConnectStep, Connect, Connected, ConnectFaulty, ConnectFails,
       batchVars
<1>2. CASE BatchStep(silent)
    <2>1. CASE RequestBatch \/ StreamGoesOn(silent)
        BY <2>1 DEF RequestBatch, StreamGoesOn
    <2>2. CASE StreamEnds \/ TakeBatch
        BY <2>2 DEF StreamEnds, TakeBatch, FreeBatch
    <2>3. CASE CollectTimeout(silent) \/ CollectFaulty \/ CollectIgnored
        BY <2>3 DEF CollectTimeout, CollectFaulty, CollectIgnored, batchVars
    <2>4. CASE Accept
        BY <2>4 DEF Accept
    <2>5. CASE AcceptCrash \/ RejectMissing
        BY <2>5 DEF AcceptCrash, RejectMissing, batchVars
    <2> QED
        BY <1>2, <2>1, <2>2, <2>3, <2>4, <2>5 DEF BatchStep
<1>3. CASE QualityStep(silent)
    BY <1>3 DEF QualityStep, Measure, AdjustQuality, QualityPointless,
       QualityWanted, SendQuality, QualityAgreed, QualityRetry, batchVars
<1>4. CASE Play \/ Drain
    BY <1>4 DEF Play, Drain, batchVars
<1> QED
    BY <1>1, <1>2, <1>3, <1>4 DEF ClientNext

LEMMA MarksKept ==
    ASSUME MarksInv, count \in Nat, NEW silent, ClientNext(silent)
    PROVE  MarksInv'
<1>1. CASE UNCHANGED <<have, count>>
    BY <1>1 DEF MarksInv
<1>2. CASE have' = {} /\ count' = 0
    BY <1>2, FS_EmptySet DEF MarksInv
<1>3. CASE \E nr : have' = have \cup {nr} /\ count' = count + 1
    <2>1. PICK nr : have' = have \cup {nr} /\ count' = count + 1
        BY <1>3
    <2>2. /\ IsFiniteSet(have \cup {nr})
          /\ Cardinality(have \cup {nr}) = Cardinality(have)
                \/ Cardinality(have \cup {nr}) = Cardinality(have) + 1
        BY FS_AddElement DEF MarksInv
    <2>3. Cardinality(have) \in Nat
        BY FS_CardinalityType DEF MarksInv
    <2> QED
        BY <2>1, <2>2, <2>3 DEF MarksInv
<1> QED
    BY <1>1, <1>2, <1>3, MarksChange

Below(S, n) == {k \in S : k < n}

(***************************************************************************)
(* The number of smaller elements is a number of its own for each element. *)
(***************************************************************************)
LEMMA RankGrows ==
    ASSUME NEW S \in SUBSET Nat, IsFiniteSet(S), NEW m \in S, NEW n \in S, m < n
    PROVE  Cardinality(Below(S, m)) < Cardinality(Below(S, n))
<1>1. IsFiniteSet(Below(S, m)) /\ IsFiniteSet(Below(S, n))
    BY FS_Subset DEF Below
<1>2. m \notin Below(S, m)
    BY DEF Below
<1>3. Below(S, m) \cup {m} \subseteq Below(S, n)
    <2>1. \A k \in S : k < m => k < n
        OBVIOUS
    <2> QED
        BY <2>1 DEF Below
<1>4. Cardinality(Below(S, m) \cup {m}) = Cardinality(Below(S, m)) + 1
    BY <1>1, <1>2, FS_AddElement
<1>5. Cardinality(Below(S, m) \cup {m}) <= Cardinality(Below(S, n))
    BY <1>1, <1>3, FS_Subset
<1>6. Cardinality(Below(S, m)) \in Nat /\ Cardinality(Below(S, n)) \in Nat
    BY <1>1, FS_CardinalityType
<1> QED
    BY <1>4, <1>5, <1>6

LEMMA RankBound ==
    ASSUME NEW S \in SUBSET Nat, IsFiniteSet(S), NEW n \in S
    PROVE  Cardinality(Below(S, n)) \in 0..(Cardinality(S) - 1)
<1>1. IsFiniteSet(Below(S, n)) /\ n \notin Below(S, n)
    BY FS_Subset DEF Below
<1>2. Below(S, n) \cup {n} \subseteq S
    BY DEF Below
<1>3. Cardinality(Below(S, n) \cup {n}) = Cardinality(Below(S, n)) + 1
    BY <1>1, FS_AddElement
<1>4. Cardinality(Below(S, n) \cup {n}) <= Cardinality(S)
    BY <1>2, FS_Subset
<1>5. Cardinality(Below(S, n)) \in Nat /\ Cardinality(S) \in Nat
    BY <1>1, FS_CardinalityType
<1> QED
    BY <1>3, <1>4, <1>5

(***************************************************************************)
(* As many elements of a finite set of numbers as asked for have fewer     *)
(* smaller ones than that.                                                 *)
(***************************************************************************)
LEMMA LowestCounted ==
    ASSUME NEW S \in SUBSET Nat, IsFiniteSet(S),
           NEW r \in Nat, r <= Cardinality(S)
    PROVE  Cardinality({n \in S : Cardinality(Below(S, n)) < r}) = r
<1> DEFINE Lowest == {n \in S : Cardinality(Below(S, n)) < r}
           rank == [n \in S |-> Cardinality(Below(S, n))]
           Ranks == 0..(Cardinality(S) - 1)
           lowRank == [n \in Lowest |-> Cardinality(Below(S, n))]
<1>0. Cardinality(S) \in Nat
    BY FS_CardinalityType
<1>1. rank \in [S -> Ranks]
    BY RankBound
<1>2. \A m, n \in S : rank[m] = rank[n] => m = n
    <2> SUFFICES ASSUME NEW m \in S, NEW n \in S, m < n PROVE rank[m] # rank[n]
        OBVIOUS
    <2> QED
        BY RankGrows, RankBound
<1>3. rank \in Injection(S, Ranks)
    BY <1>1, <1>2 DEF Injection, IsInjective
<1>4. IsFiniteSet(Ranks) /\ Cardinality(Ranks) = Cardinality(S)
    <2>1. Cardinality(S) - 1 \in Int /\ 0 \in Int
        BY <1>0
    <2> HIDE DEF Ranks
    <2>2. /\ IsFiniteSet(0..(Cardinality(S) - 1))
          /\ Cardinality(0..(Cardinality(S) - 1))
                = IF 0 > Cardinality(S) - 1 THEN 0 ELSE Cardinality(S) - 1 - 0 + 1
        BY <2>1, FS_Interval
    <2> QED
        BY <1>0, <2>2 DEF Ranks
<1>5. rank \in Surjection(S, Ranks)
    BY <1>3, <1>4, FS_Injection
<1>6. \A k \in Ranks : \E n \in S : rank[n] = k
    BY <1>5 DEF Surjection
<1>7. lowRank \in [Lowest -> 0..(r - 1)]
    <2> SUFFICES ASSUME NEW n \in Lowest
                 PROVE  Cardinality(Below(S, n)) \in 0..(r - 1)
        OBVIOUS
    <2>1. Cardinality(Below(S, n)) \in 0..(Cardinality(S) - 1)
        BY RankBound
    <2> QED
        BY <2>1
<1>8. lowRank \in Injection(Lowest, 0..(r - 1))
    BY <1>2, <1>7 DEF Injection, IsInjective
<1>9. lowRank \in Surjection(Lowest, 0..(r - 1))
    <2> SUFFICES ASSUME NEW k \in 0..(r - 1)
                 PROVE  \E n \in Lowest : lowRank[n] = k
        BY <1>7 DEF Surjection
    <2>1. PICK n \in S : rank[n] = k
        BY <1>0, <1>6
    <2> QED
        BY <2>1
<1>10. ExistsBijection(Lowest, 0..(r - 1))
    BY <1>8, <1>9 DEF Bijection, ExistsBijection
<1>11. IsFiniteSet(Lowest)
    BY FS_Subset
<1>12. Cardinality(0..(r - 1)) = Cardinality(Lowest)
    BY <1>10, <1>11, FS_Bijection
<1> QED
    BY <1>12, FS_Interval

(***************************************************************************)
(* A batch that is not complete has at least as many unmarked numbers as   *)
(* it is short of, so the REJ lists that many.                             *)
(***************************************************************************)
LEMMA RestIsListed ==
    ASSUME ClientTypeOK, MarksInv, count <= PerBatchC
    PROVE  Cardinality(Missing) = PerBatchC - count
<1> DEFINE Numbers == 0..(PerBatchC - 1)
<1>1. PerBatchC \in Nat \ {0} /\ count \in Nat
    BY BatchBounds DEF ClientTypeOK
<1>2. IsFiniteSet(Numbers) /\ Cardinality(Numbers) = PerBatchC
    <2>1. PerBatchC - 1 \in Int /\ 0 \in Int
        BY <1>1
    <2>2. /\ IsFiniteSet(0..(PerBatchC - 1))
          /\ Cardinality(0..(PerBatchC - 1))
                = IF 0 > PerBatchC - 1 THEN 0 ELSE PerBatchC - 1 - 0 + 1
        BY <2>1, FS_Interval
    <2> QED
        BY <1>1, <2>2
<1>3. Unmarked = Numbers \ have
    BY DEF Unmarked
<1> HIDE DEF Numbers
<1>4. /\ IsFiniteSet(Unmarked)
      /\ Cardinality(Unmarked) = PerBatchC - Cardinality(Numbers \cap have)
    BY <1>2, <1>3, FS_Difference
<1>5. /\ Cardinality(Numbers \cap have) \in Nat
      /\ Cardinality(Numbers \cap have) <= Cardinality(have)
      /\ Cardinality(have) \in Nat
    BY FS_Intersection, FS_CardinalityType DEF MarksInv
<1>6. PerBatchC - count \in Nat /\ PerBatchC - count <= Cardinality(Unmarked)
    BY <1>1, <1>4, <1>5 DEF MarksInv
<1>7. Unmarked \in SUBSET Nat
    BY <1>1 DEF Unmarked
<1>8. Cardinality({n \in Unmarked :
                     Cardinality(Below(Unmarked, n)) < PerBatchC - count})
        = PerBatchC - count
    BY <1>4, <1>6, <1>7, LowestCounted
<1> QED
    BY <1>8 DEF Missing, Below
=============================================================================
