----------------------------- MODULE AudioProofs -----------------------------
(***************************************************************************)
(* With requests that arrive and answers that are prompt the listener gets *)
(* what AudioStream promises: the file's chunks in order, each once and    *)
(* whole, up to the last ones, and an end only after as many as it has.    *)
(***************************************************************************)
EXTENDS LockstepProofs

(***************************************************************************)
(* Where the music that counts as sent ends: nothing sent beyond it is in  *)
(* bytes_sent.                                                             *)
(***************************************************************************)
SentUpTo ==
    CASE sPc = "receive" -> musicPtr
      [] sPc = "batch" -> musicPtr + (PerBatch - Cardinality(todo))
      [] OTHER -> musicPtr + PerBatch

BytesInv ==
    /\ IsFiniteSet(todo)
    /\ sPc = "batch" => counted
    /\ sPc = "resend" => ~counted
    /\ ~Stranger /\ sPc # "down" => bytesSent <= Chunk * SentUpTo

(***************************************************************************)
(* Far enough from the end of the file for a chunk to come whole.          *)
(***************************************************************************)
Promised(pos) == pos + 1 + (Packets[TopQuality] + 1) <= FileChunks

WholeInTransit ==
    cPc \in {"peek", "collect"} =>
        \A i \in 1..Len(s2c) : s2c[i].flag = "NONE" =>
            /\ s2c[i].pos = Len(heard) + s2c[i].nr
            /\ s2c[i].codec = Codec(cQuality)
            /\ Promised(s2c[i].pos) => s2c[i].size = Chunk

WholeInBatch ==
    Collecting =>
        /\ have \subseteq 0..(PerBatchC - 1)
        /\ \A n \in have : Promised(Len(heard) + n) =>
              raw[n] = [pos |-> Len(heard) + n, size |-> Chunk]

HeardToTheEnd ==
    /\ cPc \in {"drain", "done"} => eos
    /\ Stranger => Len(heard) >= FileChunks

AudioInv == BytesInv /\ WholeInTransit /\ WholeInBatch /\ HeardToTheEnd

-----------------------------------------------------------------------------
(***************************************************************************)
(* Arithmetic of the end of the file.                                      *)
(***************************************************************************)
LEMMA PayloadCovered ==
    ASSUME NEW n \in Int, Payload <= Chunk * n
    PROVE  FileChunks <= n
<1> DEFINE a == Payload + Chunk - 1
<1>1. Chunk \in Nat \ {0} /\ Payload \in Nat \ {0} /\ a \in Nat
    BY ProtocolAssumption
<1>2. a \div Chunk \in Int /\ Chunk * (a \div Chunk) <= a
    BY <1>1
<1>3. ASSUME n + 1 <= a \div Chunk PROVE FALSE
    <2>1. Chunk * (n + 1) <= Chunk * (a \div Chunk)
        BY <1>1, <1>2, <1>3
    <2>2. Chunk * (n + 1) = Chunk * n + Chunk
        BY <1>1
    <2>3. Chunk * n \in Int /\ Chunk * (n + 1) \in Int
          /\ Chunk * (a \div Chunk) \in Int
        BY <1>1, <1>2
    <2> QED
        BY <1>1, <1>2, <2>1, <2>2, <2>3
<1> QED
    BY <1>1, <1>2, <1>3 DEF FileChunks

LEMMA CutIsAtTheEnd ==
    ASSUME ServerTypeOK, NEW n \in Int, bytesSent <= Chunk * n, Cut
    PROVE  FileChunks <= n + 1
<1>1. Chunk \in Nat \ {0} /\ Payload \in Nat \ {0} /\ bytesSent \in Nat
    BY ProtocolAssumption DEF ServerTypeOK
<1>2. Chunk * (n + 1) = Chunk * n + Chunk /\ Chunk * n \in Int
    BY <1>1
<1>3. Payload <= Chunk * (n + 1)
    BY <1>1, <1>2 DEF Cut, Remaining
<1> QED
    BY <1>3, PayloadCovered

-----------------------------------------------------------------------------
(***************************************************************************)
(* The server.                                                             *)
(***************************************************************************)
LEMMA OnlyFitChanges ==
    ASSUME NEW m \in Reply, ToClient(m) \/ Leaves(m)
    PROVE  \/ s2c' = s2c
           \/ \E e \in Reply :
                 /\ e.flag = m.flag /\ e.nr = m.nr /\ e.pos = m.pos
                 /\ e.size = m.size /\ e.codec = m.codec
                 /\ s2c' = Append(s2c, e)
<1>1. \A f \in Fits : \E e \in Reply :
         /\ e.flag = m.flag /\ e.nr = m.nr /\ e.pos = m.pos
         /\ e.size = m.size /\ e.codec = m.codec
         /\ e = [m EXCEPT !.fit = f]
    BY DEF Reply
<1>2. CASE ToClient(m)
    BY <1>1, <1>2 DEF ToClient
<1>3. CASE Leaves(m)
    BY <1>1, <1>2, <1>3 DEF Leaves, Fits
<1> QED
    BY <1>2, <1>3

LEMMA ListenerStays ==
    ASSUME ClientRests, WholeInBatch
    PROVE  WholeInBatch' /\ (\A pos : Promised(pos)' = Promised(pos))
<1>1. UNCHANGED <<cPc, cQuality, raw, have, heard>>
    BY DEF ClientRests, clientVars, qualityVars, batchVars
<1> QED
    BY <1>1 DEF WholeInBatch, Collecting, PerBatchC, Promised

(***************************************************************************)
(* A request moves neither the end of what was sent nor, except by an end  *)
(* of the stream that is due, the client out of its slot.                  *)
(***************************************************************************)
LEMMA StartKeepsBytes ==
    ASSUME SessionInv, MarksInv, AgreementInv, LockInv, BytesInv,
           \/ RejectStranger \/ EndStream \/ HandleACK \/ HandleQTY
           \/ HandleRR \/ HandleREJ
    PROVE  BytesInv'
<1>1. ServerTypeOK /\ ClientTypeOK
    BY DEF SessionInv, TypeOK
<1>2. CASE RejectStranger \/ EndStream
    <2>1. Stranger' /\ sPc = "receive" /\ UNCHANGED sPc
        <3>1. SlotInv
            BY DEF SessionInv
        <3>2. sPc = "receive" /\ UNCHANGED sPc
            BY <1>2 DEF RejectStranger, EndStream, ServerReceives, AnswerFlag
        <3>3. Stranger'
            BY <1>2, <3>1
            DEF RejectStranger, EndStream, slotVars, Stranger, Stage, SlotInv
        <3> QED
            BY <3>2, <3>3
    <2>2. UNCHANGED todo
        BY <1>2 DEF RejectStranger, EndStream, AnswerFlag
    <2> QED
        BY <2>1, <2>2 DEF BytesInv
<1>3. CASE HandleACK \/ HandleQTY
    BY <1>3 DEF HandleACK, HandleQTY, ServerReceives, AnswerFlag, BytesInv,
       SentUpTo
<1>4. CASE HandleRR
    <2>1. SentUpTo' = musicPtr /\ SentUpTo = musicPtr
        <3>1. PerBatch' = PerBatchC
            BY <1>4, BatchStarts DEF PerBatch
        <3>2. PerBatchC - Cardinality(todo') = 0
            BY <1>4, BatchStarts
        <3> QED
            BY <1>1, <1>4, <3>1, <3>2, BatchStarts DEF SentUpTo, ServerTypeOK
    <2>2. IsFiniteSet(todo')
        <3>1. 0 \in Int /\ PerBatchC - 1 \in Int
            BY <1>4, BatchStarts
        <3> QED
            BY <1>4, <3>1, BatchStarts, FS_Interval
    <2> QED
        BY <1>4, <2>1, <2>2, BatchStarts DEF BytesInv
<1>5. CASE HandleREJ
    <2>1. SentUpTo' = musicPtr /\ SentUpTo = musicPtr
        BY <1>5, ResendStarts DEF SentUpTo, PerBatch
    <2>2. IsFiniteSet(todo')
        <3>1. todo' \subseteq Unmarked
            BY <1>5, ResendStarts DEF Missing
        <3> QED
            BY <1>1, <3>1, FewUnmarked, FS_Subset
    <2> QED
        BY <1>5, <2>1, <2>2, ResendStarts DEF BytesInv, Stranger
<1> QED
    BY <1>2, <1>3, <1>4, <1>5

LEMMA EndComesLate ==
    ASSUME SessionInv, LockInv, BytesInv, EndStream
    PROVE  Len(heard) >= FileChunks
<1>1. ServerTypeOK /\ ClientTypeOK /\ TrafficInv /\ PlaceInv
    BY DEF SessionInv, TypeOK, LockInv
<1>2. /\ sPc = "receive" /\ ~Stranger /\ c2s # <<>> /\ Head(c2s).flag = "RR"
      /\ bytesSent >= Payload
    BY DEF EndStream, ServerReceives
<1>3. cPc = "peek"
    BY <1>1, <1>2, WhoAsks DEF RequestOf
<1>4. musicPtr = Len(heard)
    BY <1>1, <1>2, <1>3 DEF PlaceInv, Between, BatchPending, BetweenBatches
<1>5. bytesSent <= Chunk * musicPtr /\ Chunk * musicPtr \in Int
    BY <1>1, <1>2, ProtocolAssumption DEF BytesInv, SentUpTo, ServerTypeOK
<1>6. Payload <= Chunk * musicPtr
    BY <1>1, <1>2, <1>5, ProtocolAssumption DEF ServerTypeOK
<1>7. FileChunks <= musicPtr /\ musicPtr \in Int
    BY <1>1, <1>6, PayloadCovered DEF ServerTypeOK
<1>8. FileChunks \in Int
    BY ProtocolAssumption DEF FileChunks
<1> QED
    BY <1>4, <1>7, <1>8

LEMMA StartKeepsAudio ==
    ASSUME SessionInv, MarksInv, AgreementInv, LockInv, AudioInv, ClientRests,
           \/ RejectStranger \/ EndStream \/ HandleACK \/ HandleQTY
           \/ HandleRR \/ HandleREJ
    PROVE  AudioInv'
<1>1. QueueTypeOK /\ ClientTypeOK /\ TrafficInv /\ SlotInv
    BY DEF SessionInv, TypeOK, NetTypeOK, LockInv
<1>2. BytesInv' /\ WholeInBatch'
    BY StartKeepsBytes, ListenerStays DEF AudioInv
<1>3. c2s # <<>> /\ s2c = <<>>
    BY <1>1, WhoAsks
    DEF RejectStranger, EndStream, HandleACK, HandleQTY, HandleRR, HandleREJ,
        ServerReceives
<1>4. WholeInTransit'
    <2>1. CASE HandleRR \/ HandleREJ
        <3>1. s2c' = <<>>
            BY <1>3, <2>1, BatchStarts, ResendStarts
        <3> QED
            BY <3>1, EmptySeq DEF WholeInTransit
    <2>2. CASE RejectStranger \/ EndStream \/ HandleACK \/ HandleQTY
        <3>1. PICK flag \in {"ACK", "EOS"} : ToClient(FlagOnly(flag))
            BY <2>2 DEF RejectStranger, EndStream, HandleACK, HandleQTY, AnswerFlag
        <3>2. FlagOnly(flag) \in Reply /\ FlagOnly(flag).flag # "NONE"
            BY DEF FlagOnly, Reply, Codecs, Fits
        <3>3. CASE s2c' = s2c
            BY <1>3, <3>3, EmptySeq DEF WholeInTransit
        <3>4. CASE s2c' # s2c
            <4>1. PICK e \in Reply : e.flag # "NONE" /\ s2c' = Append(s2c, e)
                BY <3>1, <3>2, <3>4, OnlyFitChanges
            <4>2. s2c' = <<e>>
                BY <1>3, <4>1, AppendToNone
            <4>3. \A i \in 1..Len(s2c') : s2c'[i] = e
                BY <4>2, Single
            <4> QED
                BY <4>1, <4>3 DEF WholeInTransit
        <3> QED
            BY <3>3, <3>4
    <2> QED
        BY <2>1, <2>2
<1>5. HeardToTheEnd'
    <2>1. Stranger' => Stranger \/ EndStream
        BY <1>1 DEF RejectStranger, HandleACK, HandleQTY, HandleRR, HandleREJ,
           Register, slotVars, Stranger
    <2>2. Len(heard) >= FileChunks \/ ~Stranger'
        BY <2>1, EndComesLate DEF AudioInv, HeardToTheEnd
    <2> QED
        BY <2>2, ClientStays DEF AudioInv, HeardToTheEnd
<1> QED
    BY <1>2, <1>4, <1>5 DEF AudioInv

(***************************************************************************)
(* A packet moves the end of what was sent on by one chunk, and bytes_sent *)
(* by no more than that.                                                   *)
(***************************************************************************)
LEMMA PacketSent ==
    ASSUME ServerTypeOK, BytesInv, SendPacket
    PROVE  \E n \in todo :
              /\ todo' = todo \ {n} /\ Sending /\ Sending'
              /\ Cardinality(todo) \in Nat
              /\ Cardinality(todo') = Cardinality(todo) - 1
              /\ Leaves(MusicPacket(n))
              /\ UNCHANGED <<sPc, seen, inUse, sQuality, musicPtr, counted>>
              /\ \/ counted /\ bytesSent' <= bytesSent + Chunk
                 \/ ~counted /\ bytesSent' = bytesSent
<1>1. PICK n \in todo :
          /\ Sending /\ todo' = todo \ {n}
          /\ Leaves(MusicPacket(n))
          /\ UNCHANGED <<sPc, seen, inUse, sQuality, musicPtr, counted>>
          /\ bytesSent' = IF ~counted THEN bytesSent
                          ELSE bytesSent + (IF Cut THEN Remaining ELSE Chunk)
    BY DEF SendPacket, NextToSend, Sending
<1>2. /\ Cardinality(todo') = Cardinality(todo) - 1
      /\ Cardinality(todo) \in Nat
    BY <1>1, FS_RemoveElement, FS_CardinalityType DEF BytesInv
<1>3. bytesSent \in Nat /\ Remaining \in Int /\ Chunk \in Nat
    BY SizeType, ProtocolAssumption DEF ServerTypeOK
<1>4. counted => bytesSent' <= bytesSent + Chunk
    BY <1>1, <1>3 DEF Cut
<1>5. counted \in BOOLEAN /\ Sending'
    BY <1>1 DEF ServerTypeOK, Sending
<1> QED
    BY <1>1, <1>2, <1>4, <1>5

LEMMA SendKeepsBytes ==
    ASSUME ServerTypeOK, ServerTypeOK', BytesInv, SendPacket
    PROVE  BytesInv'
<1>1. PICK n \in todo :
          /\ todo' = todo \ {n} /\ Sending
          /\ Cardinality(todo) \in Nat
          /\ Cardinality(todo') = Cardinality(todo) - 1
          /\ UNCHANGED <<sPc, seen, inUse, sQuality, musicPtr, counted>>
          /\ \/ counted /\ bytesSent' <= bytesSent + Chunk
             \/ ~counted /\ bytesSent' = bytesSent
    BY PacketSent
<1>2. IsFiniteSet(todo') /\ Stranger' = Stranger /\ PerBatch' = PerBatch
    BY <1>1, FS_Subset DEF BytesInv, Stranger, PerBatch
<1>3. /\ Chunk \in Nat /\ PerBatch \in Nat /\ musicPtr \in Int
      /\ bytesSent \in Nat /\ bytesSent' \in Nat
    BY PerBatchType, ProtocolAssumption DEF ServerTypeOK
<1>4. ASSUME ~Stranger PROVE bytesSent' <= Chunk * SentUpTo'
    <2>1. CASE sPc = "batch"
        <3>1. SentUpTo \in Int /\ SentUpTo' = SentUpTo + 1 /\ counted
            BY <1>1, <1>2, <1>3, <2>1 DEF SentUpTo, BytesInv
        <3>2. Chunk * (SentUpTo + 1) = Chunk * SentUpTo + Chunk
              /\ Chunk * SentUpTo \in Int
            BY <1>3, <3>1
        <3>3. bytesSent <= Chunk * SentUpTo
            BY <1>4, <2>1 DEF BytesInv
        <3> QED
            BY <1>1, <1>3, <3>1, <3>2, <3>3
    <2>2. CASE sPc = "resend"
        <3>1. SentUpTo' = SentUpTo /\ ~counted
            BY <1>1, <1>2, <2>2 DEF SentUpTo, BytesInv
        <3> QED
            BY <1>1, <1>4, <2>2, <3>1 DEF BytesInv
    <2> QED
        BY <1>1, <2>1, <2>2 DEF Sending
<1> QED
    BY <1>1, <1>2, <1>4 DEF BytesInv

(***************************************************************************)
(* A packet that is cut, or has a size that was cut to sixteen bits, is    *)
(* close to the end of the file.                                           *)
(***************************************************************************)
LEMMA PacketIsWhole ==
    ASSUME SessionInv, AgreementInv, LockInv, BytesInv, Sending,
           cPc \in {"peek", "collect"}, NEW n \in todo
    PROVE  /\ MusicPacket(n).pos = Len(heard) + n
           /\ MusicPacket(n).codec = Codec(cQuality)
           /\ Promised(MusicPacket(n).pos) => MusicPacket(n).size = Chunk
<1>1. /\ ServerTypeOK /\ ClientTypeOK /\ TrafficInv /\ PlaceInv /\ PromptInv
      /\ ~Stranger
    BY DEF SessionInv, TypeOK, LockInv, PromptInv
<1>2. Within
    BY <1>1 DEF TrafficInv, BatchAsked, Flight, EndSent, Idle, Within,
       Collecting, BatchPending
<1>3. musicPtr = Len(heard) /\ sQuality = cQuality
    BY <1>1, <1>2, Agreed DEF PlaceInv, WithinABatch, Sending, Settled
<1>4. ASSUME Promised(musicPtr + n) PROVE ~Cut
    <2>1. /\ PerBatch \in Nat /\ Packets[TopQuality] \in Nat
          /\ PerBatch <= Packets[TopQuality]
        BY <1>1, <1>3, BatchBounds DEF PerBatch, PerBatchC
    <2>2. n \in Nat /\ musicPtr \in Int /\ Cardinality(todo) \in Nat
        BY <1>1, FS_CardinalityType DEF ServerTypeOK, BytesInv
    <2>3. SentUpTo \in Int /\ SentUpTo <= musicPtr + PerBatch
        BY <2>1, <2>2 DEF SentUpTo, Sending
    <2>4. bytesSent <= Chunk * SentUpTo
        BY <1>1 DEF BytesInv, Sending
    <2>5. FileChunks \in Int
        BY ProtocolAssumption DEF FileChunks
    <2>6. ASSUME Cut PROVE FALSE
        <3>1. FileChunks <= SentUpTo + 1
            BY <1>1, <2>3, <2>4, <2>6, CutIsAtTheEnd
        <3> QED
            BY <1>4, <2>1, <2>2, <2>3, <2>5, <3>1 DEF Promised
    <2> QED
        BY <2>6
<1> QED
    BY <1>3, <1>4 DEF MusicPacket, SizeToSend

LEMMA SendKeepsAudio ==
    ASSUME SessionInv, AgreementInv, LockInv, AudioInv, ClientRests,
           ServerTypeOK', SendPacket
    PROVE  AudioInv'
<1>1. ServerTypeOK /\ QueueTypeOK /\ PromptInv
    BY DEF SessionInv, TypeOK, NetTypeOK, LockInv
<1>2. BytesInv' /\ WholeInBatch'
    BY <1>1, SendKeepsBytes, ListenerStays DEF AudioInv
<1>3. PICK n \in todo :
          /\ Sending /\ Leaves(MusicPacket(n))
          /\ UNCHANGED <<seen, inUse>>
    BY <1>1, PacketSent DEF AudioInv
<1>4. HeardToTheEnd'
    BY <1>3, ClientStays DEF AudioInv, HeardToTheEnd, Stranger
<1>5. CASE UNCHANGED s2c
    <2>1. WholeInTransit'
        BY <1>5, ClientStays, ListenerStays DEF AudioInv, WholeInTransit
    <2> QED
        BY <1>2, <1>4, <2>1 DEF AudioInv
<1>6. CASE s2c' # s2c /\ cPc \in {"peek", "collect"}
    <2>1. MusicPacket(n) \in Reply
        BY <1>1, <1>3, MusicPacketType DEF ServerTypeOK
    <2>2. PICK e \in Reply :
              /\ e.nr = MusicPacket(n).nr /\ e.pos = MusicPacket(n).pos
              /\ e.size = MusicPacket(n).size
              /\ e.codec = MusicPacket(n).codec
              /\ s2c' = Append(s2c, e)
        BY <1>3, <1>6, <2>1, OnlyFitChanges
    <2>3. /\ Len(s2c') = Len(s2c) + 1 /\ Len(s2c) \in Nat
          /\ \A i \in 1..Len(s2c) : s2c'[i] = s2c[i]
          /\ s2c'[Len(s2c) + 1] = e
        BY <1>1, <2>2, AppendProperties, LenProperties DEF QueueTypeOK
    <2>4. /\ e.pos = Len(heard) + e.nr /\ e.codec = Codec(cQuality)
          /\ Promised(e.pos) => e.size = Chunk
        <3>1. MusicPacket(n).nr = n
            BY DEF MusicPacket
        <3>2. /\ MusicPacket(n).pos = Len(heard) + n
              /\ MusicPacket(n).codec = Codec(cQuality)
              /\ Promised(MusicPacket(n).pos) => MusicPacket(n).size = Chunk
            BY <1>3, <1>6, PacketIsWhole DEF AudioInv
        <3> QED
            BY <2>2, <3>1, <3>2
    <2>5. \A i \in 1..Len(s2c') : s2c'[i].flag = "NONE" =>
             /\ s2c'[i].pos = Len(heard) + s2c'[i].nr
             /\ s2c'[i].codec = Codec(cQuality)
             /\ Promised(s2c'[i].pos) => s2c'[i].size = Chunk
        <3>1. \A i \in 1..Len(s2c') : i \in 1..Len(s2c) \/ i = Len(s2c) + 1
            BY <2>3
        <3> QED
            BY <1>6, <2>3, <2>4, <3>1 DEF AudioInv, WholeInTransit
    <2>6. WholeInTransit'
        BY <2>5, ClientStays, ListenerStays DEF AudioInv, WholeInTransit
    <2> QED
        BY <1>2, <1>4, <2>6 DEF AudioInv
<1>7. CASE cPc \notin {"peek", "collect"}
    <2>1. WholeInTransit'
        BY <1>7, ClientStays DEF WholeInTransit
    <2> QED
        BY <1>2, <1>4, <2>1 DEF AudioInv
<1> QED
    BY <1>5, <1>6, <1>7

(***************************************************************************)
(* The end of a batch or a resend, and a process that is gone.             *)
(***************************************************************************)
LEMMA RestKeepsAudio ==
    ASSUME SessionInv, LockInv, AudioInv, ClientRests,
           SendCrash \/ FinishBatch \/ FinishResend \/ NobodyListens
    PROVE  AudioInv'
<1>1. ServerTypeOK /\ BytesInv /\ PromptInv
    BY DEF SessionInv, TypeOK, LockInv, AudioInv
<1>2. /\ UNCHANGED <<s2c, seen, inUse, bytesSent>> /\ todo' = {}
      /\ sPc' \in {"receive", "down"}
    <2>1. CASE SendCrash
        BY <2>1 DEF SendCrash, Crash, slotVars
    <2>2. CASE FinishBatch
        BY <2>2 DEF FinishBatch, netVars
    <2>3. CASE FinishResend
        BY <2>3 DEF FinishResend, Crash, slotVars
    <2>4. CASE NobodyListens
        BY <1>1, <2>4
        DEF NobodyListens, serverVars, slotVars, PromptInv, Sending
    <2> QED
        BY <2>1, <2>2, <2>3, <2>4
<1>3. ASSUME sPc' = "receive" PROVE SentUpTo' = SentUpTo /\ sPc # "down"
    <2>1. /\ todo = {} /\ sPc \in {"batch", "resend"}
          /\ musicPtr' = musicPtr + PerBatch
        BY <1>3 DEF SendCrash, FinishBatch, FinishResend, NobodyListens,
           Crash, serverVars
    <2>2. Cardinality(todo) = 0 /\ musicPtr \in Int /\ PerBatch \in Nat
        BY <1>1, <2>1, FS_EmptySet, PerBatchType DEF ServerTypeOK
    <2> QED
        BY <1>3, <2>1, <2>2 DEF SentUpTo
<1>4. BytesInv'
    BY <1>1, <1>2, <1>3, FS_EmptySet DEF BytesInv, Stranger
<1>5. WholeInTransit' /\ WholeInBatch' /\ HeardToTheEnd'
    BY <1>2, ClientStays, ListenerStays
    DEF AudioInv, WholeInTransit, HeardToTheEnd, Stranger
<1> QED
    BY <1>4, <1>5 DEF AudioInv

LEMMA ServerKeepsAudio ==
    ASSUME SessionInv, SessionInv', MarksInv, AgreementInv, LockInv, AudioInv,
           ServerStep
    PROVE  AudioInv'
<1>1. ClientRests /\ ServerNext
    BY DEF ServerStep, ClientRests
<1>2. ServerTypeOK'
    BY DEF SessionInv, TypeOK
<1> QED
    BY <1>1, <1>2, NothingElseAsked, StartKeepsAudio, SendKeepsAudio,
       RestKeepsAudio
    DEF OnlyAsked, SendStep

-----------------------------------------------------------------------------
(***************************************************************************)
(* The client.                                                             *)
(***************************************************************************)
LEMMA SentStays ==
    ASSUME ServerRests, BytesInv
    PROVE  BytesInv'
BY DEF ServerRests, serverVars, slotVars, BytesInv, SentUpTo, PerBatch, Stranger

LEMMA ListenerElsewhere ==
    ASSUME cPc' \notin {"peek", "collect", "check"}
    PROVE  WholeInTransit' /\ WholeInBatch'
BY DEF WholeInTransit, WholeInBatch, Collecting

LEMMA TransitKept ==
    ASSUME QueueTypeOK, WholeInTransit, cPc \in {"peek", "collect"},
           UNCHANGED <<cQuality, heard>>,
           s2c' = s2c \/ (s2c # <<>> /\ s2c' = Tail(s2c))
    PROVE  WholeInTransit'
<1>1. \A pos : Promised(pos)' = Promised(pos)
    BY DEF Promised
<1>2. CASE s2c' = s2c
    BY <1>1, <1>2 DEF WholeInTransit
<1>3. CASE s2c # <<>> /\ s2c' = Tail(s2c)
    <2>1. /\ Len(s2c) \in Nat /\ Len(s2c') = Len(s2c) - 1
          /\ \A i \in 1..Len(s2c') : s2c'[i] = s2c[i + 1]
        BY <1>3, HeadTailProperties, EmptySeq DEF QueueTypeOK
    <2>2. \A i \in 1..Len(s2c') : i + 1 \in 1..Len(s2c)
        BY <2>1
    <2> QED
        BY <1>1, <2>1, <2>2 DEF WholeInTransit
<1> QED
    BY <1>2, <1>3

(***************************************************************************)
(* Of a packet in the client's own coding decoding leaves no more than the *)
(* server took for it, all of a full one; and what fits its place stays    *)
(* there.                                                                  *)
(***************************************************************************)
LEMMA CodedAlike ==
    ASSUME NEW m \in Reply, m.codec = Codec(cQuality)
    PROVE  /\ DecodedSize(m) = Kept(m.codec, m.size)
           /\ DecodedSize(m) \in Nat /\ DecodedSize(m) <= m.size
           /\ m.size = Chunk => DecodedSize(m) = Chunk
<1>1. m.codec \in Codecs /\ m.size \in Nat
    BY DEF Reply
<1>2. DecodedSize(m) = Kept(m.codec, m.size)
    BY DEF DecodedSize, PacketSize, Kept
<1> QED
    BY <1>1, <1>2, KeptGrows, KeptWhole

LEMMA NoOverrun ==
    ASSUME NEW m \in Reply, DecodedSize(m) <= Chunk, NEW n \in Int
    PROVE  ~Overruns(m, n)
<1>1. m.nr \in Nat /\ Chunk \in Nat /\ DecodedSize(m) \in Nat
    BY DecodedType, ProtocolAssumption DEF Reply
<1>2. ASSUME n > m.nr PROVE (n - m.nr) * Chunk >= Chunk
    BY <1>1, <1>2
<1> QED
    BY <1>1, <1>2 DEF Overruns

(***************************************************************************)
(* A packet that is accepted is written to its own place, whole if that is *)
(* promised, and spoils no other place for which something is promised.    *)
(***************************************************************************)
LEMMA AcceptKeepsWhole ==
    ASSUME SessionInv, LockInv, AudioInv, Accept
    PROVE  WholeInBatch'
<1> DEFINE m == Head(s2c)
<1>1. /\ QueueTypeOK /\ ClientTypeOK /\ BatchInv /\ TrafficInv
      /\ WholeInTransit /\ WholeInBatch
    BY DEF SessionInv, TypeOK, NetTypeOK, LockInv, AudioInv
<1>2. /\ cPc = "collect" /\ s2c # <<>> /\ m.flag = "NONE"
      /\ raw' = [n \in DOMAIN raw |->
                   IF n = m.nr THEN Overlay(raw[n], m)
                   ELSE IF Overruns(m, n) THEN Garbled ELSE raw[n]]
      /\ have' = have \cup {m.nr} /\ UNCHANGED <<cQuality, heard>>
    BY DEF Accept, ClientReceives, Acceptable, qualityVars
<1>3. Len(s2c) \in Nat \ {0} /\ m = s2c[1] /\ m \in Reply
    BY <1>1, <1>2, EmptySeq, HeadTailProperties DEF QueueTypeOK
<1>4. m.nr \in 0..(PerBatchC - 1) /\ m.nr \notin have
    BY <1>1, <1>2, <1>3
    DEF TrafficInv, BatchAsked, EndSent, Flight, Flying, Unmarked
<1>5. /\ m.pos = Len(heard) + m.nr /\ m.codec = Codec(cQuality)
      /\ Promised(m.pos) => m.size = Chunk
    BY <1>1, <1>2, <1>3 DEF WholeInTransit
<1>6. DOMAIN raw = 0..(PerBatchC - 1) /\ PerBatchC \in Nat
    BY <1>1, <1>2, BatchBounds DEF BatchInv, Collecting
<1>7. ASSUME NEW n \in have', Promised(Len(heard) + n)
      PROVE  raw'[n] = [pos |-> Len(heard) + n, size |-> Chunk]
    <2>1. n \in 0..(PerBatchC - 1)
        BY <1>1, <1>2, <1>4 DEF WholeInBatch, Collecting
    <2>2. CASE n = m.nr
        <3>1. DecodedSize(m) = Chunk /\ Chunk \in Nat \ {0}
            BY <1>3, <1>5, <1>7, <2>2, CodedAlike, ProtocolAssumption
        <3>2. Overlay(raw[n], m) = [pos |-> m.pos, size |-> Chunk]
            BY <1>5, <3>1 DEF Overlay
        <3> QED
            BY <1>2, <1>5, <1>6, <2>1, <2>2, <3>2
    <2>3. CASE n # m.nr
        <3>1. n \in have
            BY <1>2, <2>3
        <3>2. ASSUME n > m.nr PROVE DecodedSize(m) = Chunk
            <4>1. /\ Len(heard) \in Nat /\ FileChunks \in Int
                  /\ Packets[TopQuality] \in Nat
                BY <1>1, LenProperties, BatchBounds, ProtocolAssumption
                DEF ClientTypeOK, FileChunks
            <4>2. Promised(m.pos)
                BY <1>4, <1>5, <1>6, <1>7, <2>1, <3>2, <4>1, SMTT(30)
                DEF Promised
            <4> QED
                BY <1>3, <1>5, <4>2, CodedAlike
        <3>3. n > m.nr => DecodedSize(m) <= Chunk
            BY <3>2, ProtocolAssumption
        <3>4. ~Overruns(m, n)
            BY <1>3, <2>1, <3>3, NoOverrun DEF Overruns
        <3>5. raw'[n] = raw[n]
            BY <1>2, <1>6, <2>1, <2>3, <3>4
        <3> QED
            BY <1>1, <1>2, <1>7, <3>1, <3>5 DEF WholeInBatch, Collecting
    <2> QED
        BY <2>2, <2>3
<1>8. have' \subseteq 0..(PerBatchC - 1)
    BY <1>1, <1>2, <1>4 DEF WholeInBatch, Collecting
<1>9. UNCHANGED PerBatchC /\ (\A pos : Promised(pos)' = Promised(pos))
    BY <1>2 DEF PerBatchC, Promised
<1> QED
    BY <1>2, <1>7, <1>8, <1>9 DEF WholeInBatch

(***************************************************************************)
(* What the client does with a batch keeps what is promised of it.         *)
(***************************************************************************)
LEMMA BatchKeepsAudio ==
    ASSUME SessionInv, MarksInv, LockInv, AudioInv, ServerRests,
           BatchStep(ServerSilent)
    PROVE  WholeInTransit' /\ WholeInBatch'
<1>1. /\ QueueTypeOK /\ ClientTypeOK /\ BatchInv /\ TrafficInv /\ PromptInv
      /\ WholeInTransit /\ WholeInBatch /\ CountMatchesReceived
    BY DEF SessionInv, TypeOK, NetTypeOK, LockInv, AudioInv
<1>2. CASE RequestBatch
    <2>1. s2c' = <<>>
        BY <1>1, <1>2 DEF RequestBatch, Sends, TrafficInv, Quiet
    <2>2. have' = {}
        BY <1>1, <1>2, FS_EmptySet
        DEF RequestBatch, BatchInv, Collecting, CountMatchesReceived, MarksInv
    <2> QED
        BY <2>1, <2>2, EmptySeq DEF WholeInTransit, WholeInBatch
<1>3. CASE StreamEnds \/ AcceptCrash \/ TakeBatch
    BY <1>3, ListenerElsewhere DEF StreamEnds, AcceptCrash, TakeBatch
<1>4. CASE RejectMissing
    <2>1. s2c' = <<>> /\ cPc = "check"
        BY <1>1, <1>4 DEF RejectMissing, Sends, TrafficInv, Quiet
    <2>2. UNCHANGED <<cQuality, raw, have, heard>>
        BY <1>4 DEF RejectMissing, qualityVars, batchVars
    <2>3. WholeInBatch'
        BY <1>1, <2>1, <2>2 DEF WholeInBatch, Collecting, PerBatchC, Promised
    <2> QED
        BY <2>1, <2>3, EmptySeq DEF WholeInTransit
<1>5. CASE \/ StreamGoesOn(ServerSilent) \/ CollectTimeout(ServerSilent)
           \/ CollectFaulty \/ CollectIgnored \/ Accept
    <2>1. /\ cPc \in {"peek", "collect"} /\ UNCHANGED <<cQuality, heard>>
          /\ s2c' = s2c \/ (s2c # <<>> /\ s2c' = Tail(s2c))
        <3>1. cPc \in {"peek", "collect"} /\ UNCHANGED <<cQuality, heard>>
            BY <1>5 DEF StreamGoesOn, CollectTimeout, CollectFaulty,
               CollectIgnored, Accept, qualityVars
        <3>2. \/ s2c' = s2c
              \/ \E peek \in BOOLEAN : ClientReceives(peek)
            BY <1>5 DEF StreamGoesOn, CollectTimeout, CollectFaulty,
               CollectIgnored, Accept, SeesNoEOS, TimesOut
        <3>3. CASE s2c' = s2c
            BY <3>1, <3>3
        <3>4. CASE \E peek \in BOOLEAN : ClientReceives(peek)
            <4>1. PICK peek \in BOOLEAN : ClientReceives(peek)
                BY <3>4
            <4>2. s2c # <<>> /\ s2c' \in {s2c, Tail(s2c)}
                BY <4>1 DEF ClientReceives, AfterReceive
            <4> QED
                BY <3>1, <4>2
        <3> QED
            BY <3>2, <3>3, <3>4
    <2>2. WholeInTransit'
        BY <1>1, <2>1, TransitKept
    <2>3. CASE Accept
        BY <2>2, <2>3, AcceptKeepsWhole
    <2>4. CASE ~Accept
        <3>1. UNCHANGED <<raw, have>>
            BY <1>5, <2>4 DEF StreamGoesOn, CollectTimeout, CollectFaulty,
               CollectIgnored, batchVars
        <3>2. WholeInBatch'
            BY <1>1, <2>1, <3>1
            DEF WholeInBatch, Collecting, PerBatchC, Promised
        <3> QED
            BY <2>2, <3>2
    <2> QED
        BY <2>3, <2>4
<1> QED
    BY <1>2, <1>3, <1>4, <1>5 DEF BatchStep

(***************************************************************************)
(* Only TakeBatch adds to the music, and only the end of the stream leads  *)
(* to the last of the playing.                                             *)
(***************************************************************************)
LEMMA MusicGrows ==
    ASSUME ClientTypeOK, ClientNext(ServerSilent)
    PROVE  /\ ~TakeBatch => heard' = heard
           /\ Len(heard') \in Nat /\ Len(heard) \in Nat
           /\ Len(heard') >= Len(heard)
<1>1. ~TakeBatch => heard' = heard
    BY DEF ClientNext, ConnectStep, Connect, Connected, ConnectFaulty,
       ConnectFails, BatchStep, RequestBatch, StreamEnds, StreamGoesOn,
       CollectTimeout, CollectFaulty, CollectIgnored, Accept, AcceptCrash,
       RejectMissing, QualityStep, Measure, AdjustQuality, QualityPointless,
       QualityWanted, SendQuality, QualityAgreed, QualityRetry, Play, Drain
<1>2. heard \in Seq(Slot) /\ Len(heard) \in Nat
    BY LenProperties DEF ClientTypeOK
<1>3. CASE TakeBatch
    <2> DEFINE batch == [k \in 1..PerBatchC |-> raw[k - 1]]
    <2>1. heard' = heard \o batch /\ PerBatchC \in Nat
        BY <1>3, BatchBounds DEF TakeBatch
    <2>2. Len(batch) = PerBatchC /\ Len(heard') = Len(heard) + PerBatchC
        BY <1>2, <2>1
    <2> QED
        BY <1>1, <1>2, <2>1, <2>2
<1> QED
    BY <1>1, <1>2, <1>3

LEMMA EndIsSeen ==
    ASSUME HeardToTheEnd, ClientNext(ServerSilent)
    PROVE  cPc' \in {"drain", "done"} => eos'
<1>1. CASE ConnectStep(ServerSilent)
    BY <1>1 DEF ConnectStep, Connect, Connected, ConnectFaulty, ConnectFails,
       Plays
<1>2. CASE BatchStep(ServerSilent)
    BY <1>2 DEF BatchStep, RequestBatch, StreamEnds, StreamGoesOn,
       CollectTimeout, CollectFaulty, CollectIgnored, Accept, AcceptCrash,
       RejectMissing, TakeBatch, NextReceive
<1>3. CASE QualityStep(ServerSilent)
    <2>1. /\ eos' = eos
          /\ cPc' \in {AfterAdjust, "qpeek", "qsend", "qack"}
        BY <1>3 DEF QualityStep, Measure, AdjustQuality, QualityPointless,
           QualityWanted, SendQuality, QualityAgreed, QualityRetry
    <2> QED
        BY <2>1 DEF AfterAdjust
<1>4. CASE Play \/ Drain
    BY <1>4 DEF Play, Drain, Plays, HeardToTheEnd
<1> QED
    BY <1>1, <1>2, <1>3, <1>4 DEF ClientNext

LEMMA ClientKeepsAudio ==
    ASSUME SessionInv, MarksInv, LockInv, AudioInv, ClientStep
    PROVE  AudioInv'
<1>1. ServerRests /\ ClientNext(ServerSilent)
    BY DEF ClientStep, ServerRests
<1>2. ClientTypeOK /\ HeardToTheEnd
    BY DEF SessionInv, TypeOK, AudioInv
<1>3. BytesInv'
    BY <1>1, SentStays DEF AudioInv
<1>4. HeardToTheEnd'
    <2>1. Len(heard') >= Len(heard) /\ Len(heard') \in Nat /\ Len(heard) \in Nat
        BY <1>1, <1>2, MusicGrows
    <2>2. Stranger' = Stranger /\ FileChunks \in Int
        BY <1>1, ServerStays, ProtocolAssumption DEF FileChunks
    <2> QED
        BY <1>1, <1>2, <2>1, <2>2, EndIsSeen DEF HeardToTheEnd
<1>5. WholeInTransit' /\ WholeInBatch'
    <2>1. CASE BatchStep(ServerSilent)
        BY <1>1, <2>1, BatchKeepsAudio
    <2>2. CASE ConnectStep(ServerSilent)
        BY <2>2, ListenerElsewhere
        DEF ConnectStep, Connect, Connected, ConnectFaulty, ConnectFails, Plays
    <2>3. CASE QualityStep(ServerSilent)
        BY <2>3, ListenerElsewhere
        DEF QualityStep, Measure, AdjustQuality, QualityPointless,
            QualityWanted, SendQuality, QualityAgreed, QualityRetry, AfterAdjust
    <2>4. CASE Play \/ Drain
        BY <2>4, ListenerElsewhere DEF Play, Drain, Plays
    <2> QED
        BY <1>1, <2>1, <2>2, <2>3, <2>4 DEF ClientNext
<1> QED
    BY <1>3, <1>4, <1>5 DEF AudioInv

-----------------------------------------------------------------------------
LEMMA AudioInit ==
    ASSUME Init
    PROVE  AudioInv
<1>1. Len(<<>>) = 0 /\ IsFiniteSet({})
    BY EmptySeq, FS_EmptySet
<1>2. BytesInv
    BY <1>1, ProtocolAssumption DEF Init, ServerInit, BytesInv, SentUpTo
<1> QED
    BY <1>1, <1>2 DEF Init, ServerInit, ClientInit, AudioInv, WholeInTransit,
       WholeInBatch, Collecting, HeardToTheEnd, Stranger

LEMMA AudioStep ==
    ASSUME SessionInv, SessionInv', MarksInv, AgreementInv, LockInv, AudioInv,
           [Next]_vars
    PROVE  AudioInv'
<1>1. CASE ServerStep
    BY <1>1, ServerKeepsAudio
<1>2. CASE ClientStep
    BY <1>2, ClientKeepsAudio
<1>3. ~NetworkStep /\ ~TimerStep
    BY DEF NetworkStep, Delay, Deliver, TimerStep, Expire, Spend, LockInv,
       PromptInv, Withheld
<1>4. CASE Terminated \/ UNCHANGED vars
    <2>1. UNCHANGED vars
        BY <1>4 DEF Terminated
    <2>2. BytesInv' /\ WholeInBatch' /\ ClientRests
        BY <2>1, SentStays, ListenerStays
        DEF vars, ServerRests, ClientRests, AudioInv
    <2>3. WholeInTransit' /\ HeardToTheEnd'
        BY <2>1, <2>2, ClientStays, ListenerStays
        DEF vars, netVars, serverVars, slotVars, AudioInv, WholeInTransit,
            HeardToTheEnd, Stranger
    <2> QED
        BY <2>2, <2>3 DEF AudioInv
<1> QED
    BY <1>1, <1>2, <1>3, <1>4 DEF Next

LEMMA AudioHolds ==
    ASSUME RequestsArrive
    PROVE  Spec => [](SessionInv /\ MarksInv /\ AgreementInv /\ LockInv
                      /\ AudioInv)
<1>1. Init => MarksInv
    BY FS_EmptySet DEF Init, ClientInit, MarksInv
<1>2. Init => LockInv /\ AudioInv
    BY LockInit, AudioInit
<1>3. SessionInv /\ SessionInv' /\ MarksInv /\ AgreementInv /\ LockInv
      /\ AudioInv /\ [Next]_vars
         => MarksInv' /\ AgreementInv' /\ LockInv' /\ AudioInv'
    BY MarksStep, AgreementStep, LockStep, AudioStep
<1> QED
    BY <1>1, <1>2, <1>3, AgreementInit, SessionInvariant, PTL DEF Spec

-----------------------------------------------------------------------------
(***************************************************************************)
(* What the server sends.  A queue only gets what passes SendPacket, and   *)
(* flags: what holds of these holds of all that is under way.              *)
(***************************************************************************)
LEMMA QueueKept ==
    ASSUME NEW S, s2c \in Seq(S), s2c' = s2c \/ (s2c # <<>> /\ s2c' = Tail(s2c))
    PROVE  s2c' \in Seq(S)
BY HeadTailProperties

LEMMA QueueGrown ==
    ASSUME NEW S, s2c \in Seq(S), NEW e \in S, s2c' = Append(s2c, e)
    PROVE  s2c' \in Seq(S)
BY AppendProperties

LEMMA FlagsAreFree ==
    ASSUME SessionInv, AgreementInv, LockInv, ServerStep, ~SendPacket,
           NEW S, \A m \in Reply : m.flag # "NONE" => m \in S, s2c \in Seq(S)
    PROVE  s2c' \in Seq(S) /\ UNCHANGED bytesSent
<1>1. OnlyAsked /\ ~SendPacket
    BY NothingElseAsked DEF ServerStep
<1>2. CASE \/ HandleRR \/ HandleREJ \/ SendCrash \/ FinishBatch
           \/ FinishResend \/ NobodyListens
    <2>1. CASE HandleRR \/ HandleREJ
        BY <2>1 DEF HandleRR, HandleREJ, StartBatch, StartResend
    <2>2. CASE SendCrash
        BY <2>2 DEF SendCrash, Crash, slotVars
    <2>3. CASE FinishBatch
        BY <2>3 DEF FinishBatch, netVars
    <2>4. CASE FinishResend
        BY <2>4 DEF FinishResend, Crash, slotVars
    <2>5. CASE NobodyListens
        BY <2>5 DEF NobodyListens, serverVars, slotVars
    <2> QED
        BY <1>2, <2>1, <2>2, <2>3, <2>4, <2>5
<1>3. CASE RejectStranger \/ EndStream \/ HandleACK \/ HandleQTY
    <2>1. PICK flag \in {"ACK", "EOS"} : ToClient(FlagOnly(flag))
        BY <1>3 DEF RejectStranger, EndStream, HandleACK, HandleQTY, AnswerFlag
    <2>2. FlagOnly(flag) \in Reply /\ FlagOnly(flag).flag # "NONE"
        BY DEF FlagOnly, Reply, Codecs, Fits
    <2>3. \/ s2c' = s2c
          \/ \E e \in Reply : e.flag # "NONE" /\ s2c' = Append(s2c, e)
        BY <2>1, <2>2, OnlyFitChanges
    <2>4. UNCHANGED bytesSent
        BY <1>3 DEF RejectStranger, EndStream, HandleACK, HandleQTY, slotVars
    <2> QED
        BY <2>3, <2>4, QueueGrown
<1> QED
    BY <1>1, <1>2, <1>3 DEF OnlyAsked, SendStep

(***************************************************************************)
(* The client only takes packets away.                                     *)
(***************************************************************************)
LEMMA ClientTakes ==
    ASSUME ClientNext(ServerSilent)
    PROVE  s2c' = s2c \/ (s2c # <<>> /\ s2c' = Tail(s2c))
<1>1. \/ s2c' = s2c
      \/ \E peek \in BOOLEAN : ClientReceives(peek)
    BY DEF ClientNext, ConnectStep, Connect, Connected, ConnectFaulty,
       ConnectFails, BatchStep, RequestBatch, StreamEnds, StreamGoesOn,
       CollectTimeout, CollectFaulty, CollectIgnored, Accept, AcceptCrash,
       RejectMissing, TakeBatch, QualityStep, Measure, AdjustQuality,
       QualityPointless, QualityWanted, SendQuality, QualityAgreed,
       QualityRetry, Play, Drain, Sends, SeesEOS, SeesNoEOS, TimesOut, netVars
<1>2. ASSUME NEW peek \in BOOLEAN, ClientReceives(peek)
      PROVE  s2c # <<>> /\ s2c' \in {s2c, Tail(s2c)}
    BY <1>2 DEF ClientReceives, AfterReceive
<1> QED
    BY <1>1, <1>2

LEMMA ServerOrClient ==
    ASSUME LockInv, [Next]_vars
    PROVE  \/ ServerStep
           \/ ServerRests /\ ClientNext(ServerSilent)
           \/ UNCHANGED vars
<1>1. ~NetworkStep /\ ~TimerStep
    BY DEF NetworkStep, Delay, Deliver, TimerStep, Expire, Spend, LockInv,
       PromptInv, Withheld
<1> QED
    BY <1>1 DEF Next, Terminated, ClientStep, ServerRests

-----------------------------------------------------------------------------
(***************************************************************************)
(* As long as no more has been sent than the file has, no packet is longer *)
(* than its place in the batch: bytes_sent is past the end only when a     *)
(* batch of which the server did not know that it is the last one went     *)
(* beyond it, and from the FINAL stage it does not come back.              *)
(***************************************************************************)
FitReply == {m \in Reply : m.flag = "NONE" => m.size <= Chunk}

FitInv ==
    /\ sPc = "batch" /\ stage = "FINAL" => bytesSent <= Payload
    /\ bytesSent <= Payload => s2c \in Seq(FitReply)

(***************************************************************************)
(* One packet: what it adds to bytes_sent, and what it is cut to.          *)
(***************************************************************************)
LEMMA CountStays ==
    ASSUME ServerTypeOK, BytesInv, FitInv, SendPacket
    PROVE  /\ bytesSent' <= Payload => bytesSent <= Payload
           /\ sPc' = "batch" /\ stage' = "FINAL" => bytesSent' <= Payload
           /\ bytesSent <= Payload => SizeToSend <= Chunk
           /\ Cut /\ bytesSent <= Payload => SizeToSend = Payload - bytesSent
<1>1. /\ Sending /\ UNCHANGED <<sPc, stage>>
      /\ bytesSent' = IF ~counted THEN bytesSent
                      ELSE bytesSent + (IF Cut THEN Remaining ELSE Chunk)
    BY DEF SendPacket, Sending
<1>2. /\ bytesSent \in Nat /\ Payload \in Nat /\ Chunk \in Nat
      /\ SizeWidth \in Nat /\ SizeWidth > Chunk
      /\ Remaining = Payload - bytesSent /\ counted \in BOOLEAN
    BY ProtocolAssumption, ServerAssumption DEF ServerTypeOK, Remaining
<1>3. ASSUME sPc' = "batch", stage' = "FINAL" PROVE bytesSent' <= Payload
    <2>1. bytesSent <= Payload
        BY <1>1, <1>3 DEF FitInv
    <2>2. ~Cut => Remaining >= Chunk
        BY <1>1, <1>2, <1>3 DEF Cut
    <2> QED
        BY <1>1, <1>2, <2>1, <2>2
<1>4. ASSUME bytesSent' <= Payload PROVE bytesSent <= Payload
    <2>1. CASE ~counted
        BY <1>1, <1>4, <2>1
    <2>2. CASE counted
        <3>1. sPc = "batch"
            BY <1>1, <2>2 DEF BytesInv, Sending
        <3>2. CASE Cut
            BY <3>1, <3>2 DEF Cut, FitInv
        <3>3. CASE ~Cut
            BY <1>1, <1>2, <1>4, <2>2, <3>3
        <3> QED
            BY <3>2, <3>3
    <2> QED
        BY <2>1, <2>2
<1>5. ASSUME bytesSent <= Payload, Cut
      PROVE  SizeToSend = Payload - bytesSent /\ SizeToSend <= Chunk
    <2>1. Remaining \in 0..Chunk
        BY <1>2, <1>5 DEF Cut
    <2>2. Remaining % SizeWidth = Remaining
        BY <1>2, <2>1
    <2> QED
        BY <1>2, <1>5, <2>1, <2>2 DEF SizeToSend
<1>6. ~Cut => SizeToSend = Chunk
    BY DEF SizeToSend
<1> QED
    BY <1>2, <1>3, <1>4, <1>5, <1>6

LEMMA PacketGoesOut ==
    ASSUME QueueTypeOK, ServerTypeOK, NEW n \in todo,
           Leaves(MusicPacket(n)),
           NEW S, s2c \in Seq(S),
           \A e \in Reply : e.pos = musicPtr + n /\ e.size = SizeToSend
              => e \in S
    PROVE  s2c' \in Seq(S)
<1>1. MusicPacket(n) \in Reply
    BY MusicPacketType DEF ServerTypeOK
<1>2. MusicPacket(n).pos = musicPtr + n /\ MusicPacket(n).size = SizeToSend
    BY DEF MusicPacket
<1>3. \/ s2c' = s2c
      \/ \E e \in Reply : /\ e.pos = musicPtr + n /\ e.size = SizeToSend
                          /\ s2c' = Append(s2c, e)
    BY <1>1, <1>2, OnlyFitChanges
<1> QED
    BY <1>3, QueueGrown

LEMMA FitStep ==
    ASSUME SessionInv, AgreementInv, LockInv, AudioInv, FitInv, [Next]_vars
    PROVE  FitInv'
<1>1. /\ ServerTypeOK /\ QueueTypeOK /\ BytesInv
      /\ \A m \in Reply : m.flag # "NONE" => m \in FitReply
    BY DEF SessionInv, TypeOK, NetTypeOK, AudioInv, FitReply
<1>2. CASE SendPacket
    <2>1. PICK n \in todo : Leaves(MusicPacket(n))
        BY <1>1, <1>2, PacketSent
    <2>2. ASSUME bytesSent' <= Payload PROVE s2c' \in Seq(FitReply)
        <3>1. SizeToSend <= Chunk /\ s2c \in Seq(FitReply)
            BY <1>1, <1>2, <2>2, CountStays DEF FitInv
        <3>2. \A e \in Reply : e.pos = musicPtr + n /\ e.size = SizeToSend
                 => e \in FitReply
            BY <3>1 DEF FitReply
        <3> QED
            BY <1>1, <2>1, <3>1, <3>2, PacketGoesOut
    <2> QED
        BY <1>1, <1>2, <2>2, CountStays DEF FitInv
<1>3. CASE ServerStep /\ ~SendPacket
    <2>1. bytesSent' = bytesSent
        BY <1>1, <1>3, FlagsAreFree DEF QueueTypeOK
    <2>2. bytesSent <= Payload => s2c' \in Seq(FitReply)
        BY <1>1, <1>3, FlagsAreFree DEF FitInv
    <2>3. ASSUME sPc' = "batch", stage' = "FINAL" PROVE bytesSent <= Payload
        <3>1. OnlyAsked
            BY <1>3, NothingElseAsked DEF ServerStep
        <3>2. sPc = "receive" \/ sPc' # "batch"
            BY <1>3, <3>1 DEF OnlyAsked, SendStep, ServerReceives,
               RejectStranger, EndStream, HandleACK, HandleQTY, HandleRR,
               HandleREJ, SendCrash, Crash, FinishBatch, FinishResend,
               NobodyListens, serverVars
        <3>3. HandleRR
            BY <1>3, <2>3, <3>1, <3>2
            DEF OnlyAsked, SendStep, RejectStranger, EndStream, HandleACK,
                HandleQTY, HandleREJ, StartResend, AnswerFlag, SendCrash,
                Crash, FinishBatch, FinishResend, NobodyListens, serverVars
        <3>4. Stage = "FINAL"
            BY <2>3, <3>3 DEF HandleRR, Stage
        <3> QED
            BY <1>1, <3>3, <3>4, ProtocolAssumption DEF HandleRR, ServerTypeOK
    <2> QED
        BY <2>1, <2>2, <2>3 DEF FitInv
<1>4. CASE ~ServerStep
    <2>1. UNCHANGED <<sPc, stage, bytesSent>>
        BY <1>4, ServerOrClient DEF ServerRests, vars, serverVars, slotVars
    <2>2. s2c' = s2c \/ (s2c # <<>> /\ s2c' = Tail(s2c))
        BY <1>4, ServerOrClient, ClientTakes DEF vars, netVars
    <2> QED
        BY <2>1, <2>2, QueueKept DEF FitInv
<1> QED
    BY <1>2, <1>3, <1>4

(***************************************************************************)
(* Nothing but a packet too long can be written outside the batch.         *)
(***************************************************************************)
LEMMA HeadIsExpected ==
    ASSUME SessionInv, LockInv, AudioInv, cPc = "collect", s2c # <<>>,
           Head(s2c).flag = "NONE"
    PROVE  /\ Head(s2c).nr \in Unmarked
           /\ Head(s2c).pos = Len(heard) + Head(s2c).nr
           /\ Head(s2c).codec = Codec(cQuality)
<1>1. /\ QueueTypeOK /\ TrafficInv /\ WholeInTransit
    BY DEF SessionInv, TypeOK, NetTypeOK, LockInv, AudioInv
<1>2. Len(s2c) \in Nat \ {0} /\ Head(s2c) = s2c[1]
    BY <1>1, EmptySeq, HeadTailProperties DEF QueueTypeOK
<1>3. Head(s2c).nr \in Unmarked
    BY <1>1, <1>2 DEF TrafficInv, BatchAsked, EndSent, Flight, Flying
<1>4. /\ Head(s2c).pos = Len(heard) + Head(s2c).nr
      /\ Head(s2c).codec = Codec(cQuality)
    BY <1>1, <1>2 DEF WholeInTransit
<1> QED
    BY <1>3, <1>4

LEMMA FittingIsInside ==
    ASSUME SessionInv, LockInv, AudioInv, s2c \in Seq(FitReply)
    PROVE  WritesInside
<1> DEFINE m == Head(s2c)
<1> SUFFICES ASSUME cPc = "collect", s2c # <<>>, Acceptable(m)
             PROVE  ~WritesOutside(m)
    BY DEF WritesInside
<1>1. m \in FitReply /\ m \in Reply /\ m.flag = "NONE"
    BY HeadTailProperties DEF Acceptable, FitReply
<1>2. m.size <= Chunk
    BY <1>1 DEF FitReply
<1>3. m.nr \in 0..(PerBatchC - 1) /\ PerBatchC \in Nat
    BY <1>1, HeadIsExpected, BatchBounds DEF Unmarked, SessionInv, TypeOK
<1>4. DecodedSize(m) \in Nat /\ DecodedSize(m) <= m.size
    BY <1>1, HeadIsExpected, CodedAlike
<1>5. DecodedSize(m) <= Chunk
    BY <1>1, <1>2, <1>4, ProtocolAssumption DEF Reply
<1>6. ~Overruns(m, PerBatchC)
    BY <1>1, <1>3, <1>5, NoOverrun
<1> QED
    BY <1>3, <1>6 DEF WritesOutside

LEMMA FitHolds ==
    ASSUME RequestsArrive
    PROVE  Spec => [](SessionInv /\ MarksInv /\ AgreementInv /\ LockInv
                      /\ AudioInv /\ FitInv)
<1>1. Init => FitInv
    BY EmptySeq DEF Init, NetInit, ServerInit, FitInv
<1>2. SessionInv /\ AgreementInv /\ LockInv /\ AudioInv /\ FitInv /\ [Next]_vars
         => FitInv'
    BY FitStep
<1> QED
    BY <1>1, <1>2, AudioHolds, PTL DEF Spec

(***************************************************************************)
(* No packet is decoded past the end of the batch it is collected into     *)
(* (receive.c, memcpy), for every table of batch sizes and however many    *)
(* replies are lost and corrupted, as long as the server has not sent more *)
(* than the file has; sending more is what it does when the batch that it  *)
(* did not foresee to be the last one goes beyond the end.                 *)
(***************************************************************************)
THEOREM WritesHold ==
    ASSUME RequestsArrive
    PROVE  Spec => []WritesStayInside
<1>1. SessionInv /\ LockInv /\ AudioInv /\ FitInv => WritesStayInside
    BY FittingIsInside DEF FitInv, WritesStayInside
<1> QED
    BY <1>1, FitHolds, PTL

-----------------------------------------------------------------------------
(***************************************************************************)
(* The steps of Session as steps of AudioStream.                           *)
(***************************************************************************)
LEMMA BatchAppended ==
    ASSUME ClientTypeOK, BatchInv, TakeBatch
    PROVE  /\ Len(heard) \in Nat /\ PerBatchC \in Nat \ {0}
           /\ Len(heard') = Len(heard) + PerBatchC
           /\ SubSeq(heard', 1, Len(heard)) = heard
           /\ \A k \in 1..Len(heard) : heard'[k] = heard[k]
           /\ \A k \in (Len(heard) + 1)..(Len(heard) + PerBatchC) :
                 heard'[k] = raw[k - Len(heard) - 1]
<1> DEFINE batch == [k \in 1..PerBatchC |-> raw[k - 1]]
           old == Len(heard)
<1>1. cPc = "check" /\ heard' = heard \o batch /\ PerBatchC \in Nat \ {0}
    BY BatchBounds DEF TakeBatch
<1>2. raw \in [0..(PerBatchC - 1) -> Slot]
    BY <1>1 DEF BatchInv, Collecting
<1>3. heard \in Seq(Slot) /\ batch \in Seq(Slot) /\ Len(batch) = PerBatchC
      /\ old \in Nat
    <2>1. \A k \in 1..PerBatchC : raw[k - 1] \in Slot
        BY <1>1, <1>2
    <2>2. batch \in [1..PerBatchC -> Slot]
        BY <2>1
    <2>3. batch \in Seq(Slot) /\ Len(batch) = PerBatchC
        <3> HIDE DEF batch
        <3> QED
            BY <1>1, <2>2, SMTT(30)
    <2> QED
        BY <2>3, LenProperties DEF ClientTypeOK
<1>4. /\ Len(heard') = old + PerBatchC
      /\ \A k \in 1..old : heard'[k] = heard[k]
      /\ \A k \in (old + 1)..(old + PerBatchC) : heard'[k] = batch[k - old]
    BY <1>1, <1>3, ConcatProperties
<1>5. SubSeq(heard', 1, old) = heard
    BY <1>1, <1>3, <1>4
<1>6. \A k \in (old + 1)..(old + PerBatchC) : batch[k - old] = raw[k - old - 1]
    BY <1>1, <1>3
<1> QED
    BY <1>1, <1>3, <1>4, <1>5, <1>6

LEMMA FullBatch ==
    ASSUME SessionInv, LockInv, WholeInBatch, TakeBatch
    PROVE  have = 0..(PerBatchC - 1)
<1>1. /\ have \subseteq 0..(PerBatchC - 1) /\ Cardinality(have) = PerBatchC
      /\ PerBatchC \in Nat \ {0}
    BY BatchBounds
    DEF TakeBatch, WholeInBatch, Collecting, LockInv, CountMatchesReceived,
        SessionInv, TypeOK, ClientTypeOK
<1>2. /\ IsFiniteSet(0..(PerBatchC - 1))
      /\ Cardinality(0..(PerBatchC - 1)) = PerBatchC
    <2>1. 0 \in Int /\ PerBatchC - 1 \in Int
        BY <1>1
    <2>2. Cardinality(0..(PerBatchC - 1))
            = IF 0 > PerBatchC - 1 THEN 0 ELSE PerBatchC - 1 - 0 + 1
        BY <2>1, FS_Interval
    <2> QED
        BY <1>1, <2>1, <2>2, FS_Interval
<1> QED
    BY <1>1, <1>2, FS_Subset

LEMMA BatchIsHeard ==
    ASSUME SessionInv, LockInv, AudioInv, TakeBatch
    PROVE  Audio!Hear
<1> DEFINE old == Len(heard)
<1>1. /\ ClientTypeOK /\ BatchInv /\ WholeInBatch
      /\ cPc = "check" /\ cPc' \in {"request", "adjust"}
    BY DEF SessionInv, TypeOK, AudioInv, TakeBatch
<1>2. /\ PerBatchC \in 1..Packets[TopQuality] /\ FileChunks \in Int
      /\ Packets[TopQuality] \in Nat
    BY <1>1, BatchBounds, ProtocolAssumption DEF FileChunks
<1>3. /\ old \in Nat /\ Len(heard') = old + PerBatchC
      /\ SubSeq(heard', 1, old) = heard
      /\ \A k \in (old + 1)..(old + PerBatchC) : heard'[k] = raw[k - old - 1]
    BY <1>1, BatchAppended
<1>4. ASSUME NEW k \in (old + 1)..(old + PerBatchC),
             k + (Packets[TopQuality] + 1) <= FileChunks
      PROVE  heard'[k] = [pos |-> k - 1, size |-> Chunk]
    <2> DEFINE n == k - old - 1
    <2>1. n \in have /\ old + n = k - 1
        BY <1>1, <1>2, <1>3, FullBatch
    <2>2. Promised(old + n)
        BY <1>2, <1>3, <1>4, <2>1 DEF Promised
    <2>3. raw[n] = [pos |-> old + n, size |-> Chunk]
        BY <1>1, <2>1, <2>2 DEF WholeInBatch, Collecting
    <2> QED
        BY <1>3, <2>1, <2>3
<1>5. Phase = "streaming" /\ Phase' = "streaming"
    BY <1>1 DEF Phase
<1>6. \A k \in (old + 1)..(old + PerBatchC) : Audio!AsPromised(heard'[k], k)
    BY <1>4 DEF Audio!AsPromised
<1> QED
    BY <1>2, <1>3, <1>5, <1>6, Zenon DEF Audio!Hear

LEMMA ClientIsHeard ==
    ASSUME SessionInv, LockInv, AudioInv, ClientNext(ServerSilent)
    PROVE  [Audio!Next]_<<heard, Phase>>
<1>1. CASE TakeBatch
    BY <1>1, BatchIsHeard DEF Audio!Next
<1>2. CASE ~TakeBatch
    <2>1. heard' = heard /\ cPc \in ClientPcs
        BY <1>2, MusicGrows DEF SessionInv, TypeOK, ClientTypeOK
    <2>2. cPc \notin {"done", "exited", "crashed"}
        BY DEF ClientNext, ConnectStep, Connect, Connected, ConnectFaulty,
           ConnectFails, BatchStep, RequestBatch, StreamEnds, StreamGoesOn,
           CollectTimeout, CollectFaulty, CollectIgnored, Accept, AcceptCrash,
           RejectMissing, TakeBatch, QualityStep, Measure, AdjustQuality,
           QualityPointless, QualityWanted, SendQuality, QualityAgreed,
           QualityRetry, Play, Drain
    <2>3. Phase = "streaming"
        BY <2>2 DEF Phase
    <2>4. CASE cPc' = "done"
        <3>1. cPc = "drain"
            BY <2>4 DEF ClientNext, ConnectStep, Connect, Connected,
               ConnectFaulty, ConnectFails, BatchStep, RequestBatch,
               StreamEnds, StreamGoesOn, CollectTimeout, CollectFaulty,
               CollectIgnored, Accept, AcceptCrash, RejectMissing, TakeBatch,
               NextReceive, QualityStep, Measure, AdjustQuality,
               QualityPointless, QualityWanted, SendQuality, QualityAgreed,
               QualityRetry, AfterAdjust, Play, Drain, Plays
        <3>2. Stranger
            BY <3>1 DEF AudioInv, HeardToTheEnd, SessionInv, EOSIsTheEnd,
               Stranger
        <3>3. Len(heard) >= FileChunks /\ Phase' = "ended"
            BY <2>4, <3>2 DEF AudioInv, HeardToTheEnd, Phase
        <3> QED
            BY <2>1, <2>3, <3>3 DEF Audio!Next, Audio!End
    <2>5. CASE cPc' \in {"exited", "crashed"}
        BY <2>1, <2>3, <2>5 DEF Audio!Next, Audio!Leave, Phase
    <2>6. CASE cPc' \notin {"done", "exited", "crashed"}
        BY <2>1, <2>3, <2>6 DEF Phase
    <2> QED
        BY <2>4, <2>5, <2>6
<1> QED
    BY <1>1, <1>2

LEMMA StepIsHeard ==
    ASSUME SessionInv, LockInv, AudioInv, [Next]_vars
    PROVE  [Audio!Next]_<<heard, Phase>>
<1>1. CASE ClientStep
    BY <1>1, ClientIsHeard DEF ClientStep
<1>2. CASE ~ClientStep
    <2>1. UNCHANGED clientVars
        BY <1>2 DEF Next, ServerStep, NetworkStep, TimerStep, Terminated, vars
    <2> QED
        BY <2>1 DEF clientVars, Phase
<1> QED
    BY <1>1, <1>2

(***************************************************************************)
(* The two programs and the network implement AudioStream: whatever        *)
(* replies are lost and corrupted, whatever is asked for again and however *)
(* the quality changes, the client plays the file's chunks in order, each  *)
(* once and whole, until one batch and the partial chunk before the end,   *)
(* and the stream ends only after as many chunks as the file has.          *)
(***************************************************************************)
THEOREM ListenerGetsTheFile ==
    ASSUME RequestsArrive
    PROVE  Spec => ImplementsAudioStream
<1>1. Init => Audio!Init
    BY DEF Init, ClientInit, Audio!Init, Phase
<1>2. SessionInv /\ LockInv /\ AudioInv /\ [Next]_vars
         => [Audio!Next]_<<heard, Phase>>
    BY StepIsHeard
<1> QED
    BY <1>1, <1>2, AudioHolds, PTL DEF Spec, ImplementsAudioStream, Audio!Spec

-----------------------------------------------------------------------------
(***************************************************************************)
(* What the listener hears is what was sent: as long as only packets from  *)
(* S, none of them too long, are under way, every slot of the batch and of *)
(* the music holds what a packet of S for that place leaves in it, and the *)
(* slots that wait for theirs are still silent.                            *)
(***************************************************************************)
Written(m) ==
    LET left == Kept(m.codec, m.size)
    IN  IF left = 0 THEN Silence ELSE [pos |-> m.pos, size |-> left]

LeftBy(S, pos) ==
    {slot \in Slot : \E m \in S : /\ m.flag = "NONE" /\ m.pos = pos
                                  /\ slot = Written(m)}

HeardFrom(S) ==
    /\ s2c \in Seq(S)
    /\ Collecting =>
          /\ \A n \in Unmarked : raw[n] = Silence
          /\ \A n \in have : raw[n] \in LeftBy(S, Len(heard) + n)
    /\ \A k \in 1..Len(heard) : heard[k] \in LeftBy(S, k - 1)

LEMMA ClientMoves ==
    ASSUME ClientNext(ServerSilent)
    PROVE  \/ RequestBatch \/ Accept \/ TakeBatch
           \/ /\ heard' = heard
              /\ Collecting' =>
                    Collecting /\ UNCHANGED <<cQuality, raw, have>>
<1>1. CASE ConnectStep(ServerSilent)
    BY <1>1 DEF ConnectStep, Connect, Connected, ConnectFaulty, ConnectFails,
       Plays, Collecting
<1>2. CASE BatchStep(ServerSilent)
    BY <1>2 DEF BatchStep, StreamEnds, StreamGoesOn, CollectTimeout,
       CollectFaulty, CollectIgnored, AcceptCrash, RejectMissing, NextReceive,
       qualityVars, batchVars, Collecting
<1>3. CASE QualityStep(ServerSilent)
    BY <1>3 DEF QualityStep, Measure, AdjustQuality, QualityPointless,
       QualityWanted, SendQuality, QualityAgreed, QualityRetry, AfterAdjust,
       Collecting
<1>4. CASE Play \/ Drain
    BY <1>4 DEF Play, Drain, Plays, Collecting
<1> QED
    BY <1>1, <1>2, <1>3, <1>4 DEF ClientNext

LEMMA AcceptIsHeard ==
    ASSUME SessionInv, LockInv, AudioInv, Accept,
           NEW S, S \subseteq FitReply, HeardFrom(S), s2c' \in Seq(S)
    PROVE  HeardFrom(S)'
<1> DEFINE m == Head(s2c)
<1>1. /\ cPc = "collect" /\ s2c # <<>> /\ Acceptable(m) /\ Collecting
      /\ raw' = [n \in DOMAIN raw |->
                   IF n = m.nr THEN Overlay(raw[n], m)
                   ELSE IF Overruns(m, n) THEN Garbled ELSE raw[n]]
      /\ have' = have \cup {m.nr} /\ UNCHANGED <<cQuality, heard>>
    BY DEF Accept, ClientReceives, qualityVars, Collecting
<1>2. m \in S /\ m \in Reply /\ m.flag = "NONE" /\ m.size <= Chunk
    BY <1>1, HeadTailProperties DEF Acceptable, HeardFrom, FitReply
<1>3. /\ m.nr \in Unmarked /\ m.pos = Len(heard) + m.nr
      /\ m.codec = Codec(cQuality)
    BY <1>1, <1>2, HeadIsExpected
<1>4. /\ raw \in [0..(PerBatchC - 1) -> Slot] /\ have \subseteq 0..(PerBatchC - 1)
      /\ PerBatchC \in Nat
    BY <1>1, BatchBounds DEF SessionInv, TypeOK, BatchInv, AudioInv, WholeInBatch
<1>5. /\ Chunk \in Nat /\ m.pos \in Int
      /\ DecodedSize(m) = Kept(m.codec, m.size)
      /\ DecodedSize(m) \in Nat /\ DecodedSize(m) <= Chunk
    <2>1. Chunk \in Nat /\ m.pos \in Int /\ m.size \in Nat
        BY <1>2, ProtocolAssumption DEF Reply
    <2>2. /\ DecodedSize(m) = Kept(m.codec, m.size)
          /\ DecodedSize(m) \in Nat /\ DecodedSize(m) <= m.size
        BY <1>2, <1>3, CodedAlike
    <2> QED
        BY <1>2, <2>1, <2>2
<1>6. \A n \in 0..(PerBatchC - 1) : ~Overruns(m, n)
    BY <1>2, <1>4, <1>5, NoOverrun
<1>7. raw'[m.nr] = Written(m)
    <2>1. raw[m.nr] = Silence /\ m.nr \in DOMAIN raw
        BY <1>1, <1>3, <1>4 DEF HeardFrom, Unmarked
    <2>2. Overlay(Silence, m) = Written(m)
        BY <1>3, <1>5 DEF Overlay, Written
    <2> QED
        BY <1>1, <2>1, <2>2
<1>8. \A n \in 0..(PerBatchC - 1) : n # m.nr => raw'[n] = raw[n]
    BY <1>1, <1>4, <1>6
<1>9. Unmarked' = Unmarked \ {m.nr} /\ Unmarked \subseteq 0..(PerBatchC - 1)
    BY <1>1 DEF Unmarked, PerBatchC
<1>10. \A n \in Unmarked' : raw'[n] = Silence
    BY <1>1, <1>8, <1>9 DEF HeardFrom
<1>11. \A n \in have' : raw'[n] \in LeftBy(S, Len(heard) + n)
    <2>1. Written(m) \in Slot
        BY <1>2, <1>5 DEF Written, Slot, Silence
    <2>2. raw'[m.nr] \in LeftBy(S, Len(heard) + m.nr)
        BY <1>2, <1>3, <1>7, <2>1 DEF LeftBy
    <2> QED
        BY <1>1, <1>4, <1>8, <2>2 DEF HeardFrom
<1> QED
    BY <1>1, <1>10, <1>11 DEF HeardFrom

LEMMA ClientHears ==
    ASSUME SessionInv, MarksInv, LockInv, AudioInv, ClientNext(ServerSilent),
           NEW S, S \subseteq FitReply, HeardFrom(S)
    PROVE  HeardFrom(S)'
<1>1. s2c' \in Seq(S)
    BY ClientTakes, QueueKept DEF HeardFrom
<1>2. CASE RequestBatch
    <2>1. have = {}
        BY <1>2, FS_EmptySet
        DEF RequestBatch, SessionInv, BatchInv, Collecting, LockInv,
            CountMatchesReceived, MarksInv
    <2>2. /\ raw' = [n \in 0..(PerBatchC - 1) |-> Silence]
          /\ UNCHANGED <<cQuality, have, heard>>
        BY <1>2 DEF RequestBatch, qualityVars
    <2>3. \A n \in Unmarked' : raw'[n] = Silence
        BY <2>2 DEF Unmarked, PerBatchC
    <2> QED
        BY <1>1, <2>1, <2>2, <2>3 DEF HeardFrom
<1>3. CASE Accept
    BY <1>1, <1>3, AcceptIsHeard
<1>4. CASE TakeBatch
    <2>1. ClientTypeOK /\ BatchInv /\ Collecting /\ ~Collecting'
        BY <1>4 DEF SessionInv, TypeOK, TakeBatch, Collecting
    <2>2. have = 0..(PerBatchC - 1)
        BY <1>4, FullBatch DEF AudioInv
    <2>3. ASSUME NEW k \in (Len(heard) + 1)..(Len(heard) + PerBatchC)
          PROVE  heard'[k] \in LeftBy(S, k - 1)
        <3> DEFINE n == k - Len(heard) - 1
        <3>1. heard'[k] = raw[n] /\ n \in have /\ Len(heard) + n = k - 1
            BY <1>4, <2>1, <2>2, BatchAppended
        <3> QED
            BY <2>1, <3>1 DEF HeardFrom
    <2>4. \A k \in 1..Len(heard) : heard'[k] \in LeftBy(S, k - 1)
        BY <1>4, <2>1, BatchAppended DEF HeardFrom
    <2>5. \A k \in 1..Len(heard') :
             \/ k \in 1..Len(heard)
             \/ k \in (Len(heard) + 1)..(Len(heard) + PerBatchC)
        BY <1>4, <2>1, BatchAppended
    <2> QED
        BY <1>1, <2>1, <2>3, <2>4, <2>5 DEF HeardFrom
<1>5. CASE /\ heard' = heard
           /\ Collecting' => Collecting /\ UNCHANGED <<cQuality, raw, have>>
    BY <1>1, <1>5 DEF HeardFrom, Unmarked, PerBatchC
<1> QED
    BY <1>2, <1>3, <1>4, <1>5, ClientMoves

LEMMA ServerIsHeard ==
    ASSUME ClientRests, NEW S, HeardFrom(S), s2c' \in Seq(S)
    PROVE  HeardFrom(S)'
BY ClientStays DEF HeardFrom, ClientRests, clientVars, qualityVars, batchVars,
   Collecting, Unmarked, PerBatchC

-----------------------------------------------------------------------------
(***************************************************************************)
(* bytes_sent is exactly where the music that counts as sent ends, or at   *)
(* the end of the file.  A server that does not shuffle sends every packet *)
(* from where the last one ended.                                          *)
(***************************************************************************)
SentExactly ==
    \/ bytesSent = Chunk * SentUpTo
    \/ stage = "FINAL" /\ bytesSent = Payload /\ Payload <= Chunk * SentUpTo

SentInv ==
    /\ Sending => todo \subseteq 0..(PerBatch - 1)
    /\ ~Reorder /\ sPc = "batch" => LeavesInOrder
    /\ Sending \/ stage = "FINAL" => seen
    /\ ~Stranger /\ sPc # "down" => SentExactly

LEMMA StartKeepsSent ==
    ASSUME SessionInv, MarksInv, AgreementInv, LockInv, SentInv,
           \/ RejectStranger \/ EndStream \/ HandleACK \/ HandleQTY
           \/ HandleRR \/ HandleREJ
    PROVE  SentInv'
<1>1. ServerTypeOK /\ ClientTypeOK /\ SlotInv
    BY DEF SessionInv, TypeOK
<1>2. CASE RejectStranger \/ EndStream
    <2>1. sPc' = "receive"
        BY <1>2 DEF RejectStranger, EndStream, ServerReceives, AnswerFlag
    <2>2. ASSUME RejectStranger PROVE seen' /\ ~inUse'
        BY <2>2 DEF RejectStranger, slotVars, Stranger
    <2>3. ASSUME EndStream PROVE seen' /\ ~inUse'
        <3>1. inUse /\ ~inUse' /\ seen' = seen
            BY <2>3 DEF EndStream, Stage
        <3> QED
            BY <1>1, <3>1 DEF SlotInv
    <2> QED
        BY <1>2, <2>1, <2>2, <2>3 DEF SentInv, Sending, Stranger
<1>3. CASE HandleACK \/ HandleQTY
    <2>1. /\ sPc = "receive" /\ sPc' = "receive" /\ ~Stranger
          /\ UNCHANGED <<musicPtr, bytesSent>>
        BY <1>3 DEF HandleACK, HandleQTY, ServerReceives, AnswerFlag
    <2>2. (stage' = "FINAL" => seen') /\ (stage = "FINAL" => stage' = "FINAL")
        BY <1>1, <1>3 DEF HandleACK, HandleQTY, Register, Stage, Stranger,
           SentInv, SlotInv
    <2> QED
        BY <2>1, <2>2 DEF SentInv, SentExactly, SentUpTo, Sending
<1>4. CASE HandleRR
    <2>1. /\ PerBatchC \in Nat \ {0} /\ PerBatch' = PerBatchC
          /\ todo' = 0..(PerBatchC - 1) /\ sPc' = "batch" /\ sPc = "receive"
          /\ ~Stranger /\ UNCHANGED <<musicPtr, bytesSent>>
        BY <1>4, BatchStarts DEF PerBatch
    <2>2. SentUpTo' = musicPtr /\ SentUpTo = musicPtr
        <3>1. PerBatchC - Cardinality(todo') = 0
            BY <1>4, BatchStarts
        <3> QED
            BY <1>1, <2>1, <3>1 DEF SentUpTo, ServerTypeOK
    <2>3. seen' /\ (stage = "FINAL" => stage' = "FINAL")
        BY <1>4, <2>1 DEF HandleRR, Register, Stage, Stranger, SentInv
    <2>4. todo' = 0..(PerBatch' - 1)
        BY <2>1
    <2> QED
        BY <2>1, <2>2, <2>3, <2>4
        DEF SentInv, SentExactly, Sending, LeavesInOrder
<1>5. CASE HandleREJ
    <2>1. /\ sPc = "receive" /\ sPc' = "resend" /\ ~Stranger
          /\ cPc = "peek" /\ todo' = Missing
          /\ UNCHANGED <<seen, inUse, stage, sQuality, bytesSent>>
          /\ musicPtr = Len(heard) + PerBatch /\ musicPtr' = Len(heard)
        BY <1>5, ResendStarts
    <2>2. SentUpTo' = SentUpTo
        BY <2>1 DEF SentUpTo, PerBatch
    <2>3. PerBatch' = PerBatchC /\ inUse
        <3>1. inUse /\ sQuality = cQuality
            BY <2>1, Agreed DEF Settled, LockInv
        <3> QED
            BY <2>1, <3>1 DEF PerBatch, PerBatchC
    <2>4. todo' \subseteq 0..(PerBatch' - 1)
        BY <2>1, <2>3 DEF Missing, Unmarked
    <2> QED
        BY <1>1, <2>1, <2>2, <2>3, <2>4
        DEF SentInv, SentExactly, SlotInv, Stranger
<1> QED
    BY <1>2, <1>3, <1>4, <1>5

(***************************************************************************)
(* In a batch that leaves in order no packet that is left is before the    *)
(* end of what was sent, and the next one is there.                        *)
(***************************************************************************)
LEMMA NextOfABatch ==
    ASSUME ServerTypeOK, BytesInv, SentInv, sPc = "batch", LeavesInOrder,
           NEW n \in todo
    PROVE  /\ SentUpTo \in Int /\ SentUpTo <= musicPtr + n
           /\ (\A k \in todo : n <= k) => SentUpTo = musicPtr + n
<1> DEFINE all == 0..(PerBatch - 1)
           gone == all \ todo
<1>1. /\ PerBatch \in Nat /\ PerBatch - 1 \in Int /\ musicPtr \in Int
      /\ todo \subseteq all /\ n \in all
    BY PerBatchType DEF ServerTypeOK, SentInv, Sending
<1>2. IsFiniteSet(all) /\ Cardinality(all) = PerBatch
    BY <1>1, FS_Interval
<1>3. Cardinality(gone) = PerBatch - Cardinality(todo)
    <2>1. all \cap todo = todo
        BY <1>1
    <2> HIDE DEF all
    <2>2. Cardinality(all \ todo)
             = Cardinality(all) - Cardinality(all \cap todo)
        BY <1>2, FS_Difference
    <2> QED
        BY <1>2, <2>1, <2>2
<1>4. /\ IsFiniteSet(0..(n - 1)) /\ Cardinality(0..(n - 1)) = n
      /\ n \in Nat
    <2>1. 0 \in Int /\ n - 1 \in Int /\ n \in Nat
        BY <1>1
    <2>2. /\ IsFiniteSet(0..(n - 1))
          /\ Cardinality(0..(n - 1)) = IF 0 > n - 1 THEN 0 ELSE n - 1 - 0 + 1
        BY <2>1, FS_Interval
    <2> QED
        BY <2>1, <2>2
<1>5. gone \subseteq 0..(n - 1)
    BY <1>1 DEF LeavesInOrder
<1>6. Cardinality(gone) <= n /\ Cardinality(gone) \in Nat
    BY <1>4, <1>5, FS_Subset, FS_CardinalityType
<1>7. ASSUME \A k \in todo : n <= k PROVE gone = 0..(n - 1)
    <2>1. \A k \in 0..(n - 1) : k \in all /\ k \notin todo
        BY <1>1, <1>7
    <2> QED
        BY <1>5, <2>1
<1>8. SentUpTo = musicPtr + Cardinality(gone)
    BY <1>3 DEF SentUpTo
<1> HIDE DEF gone, all
<1> QED
    BY <1>1, <1>4, <1>6, <1>7, <1>8

LEMMA SendKeepsSent ==
    ASSUME ServerTypeOK, BytesInv, FitInv, SentInv, SendPacket
    PROVE  SentInv'
<1>1. PICK n \in NextToSend :
          /\ Sending /\ todo' = todo \ {n}
          /\ UNCHANGED <<sPc, seen, inUse, stage, sQuality, musicPtr>>
          /\ bytesSent' = IF ~counted THEN bytesSent
                          ELSE bytesSent + (IF Cut THEN Remaining ELSE Chunk)
    BY DEF SendPacket, Sending
<1>2. /\ Chunk \in Nat /\ PerBatch \in Nat /\ musicPtr \in Int
      /\ bytesSent \in Nat /\ Payload \in Nat
    BY PerBatchType, ProtocolAssumption DEF ServerTypeOK
<1>3. /\ PerBatch' = PerBatch /\ Stranger' = Stranger /\ Sending'
      /\ n \in todo /\ todo \subseteq 0..(PerBatch - 1)
    BY <1>1 DEF PerBatch, Stranger, Sending, NextToSend, SentInv
<1>4. CASE sPc = "batch"
    <2>1. SentUpTo \in Int /\ SentUpTo' = SentUpTo + 1
        <3>1. /\ Cardinality(todo) \in Nat
              /\ Cardinality(todo') = Cardinality(todo) - 1
            BY <1>1, <1>3, FS_RemoveElement, FS_CardinalityType DEF BytesInv
        <3> QED
            BY <1>1, <1>2, <1>3, <1>4, <3>1 DEF SentUpTo
    <2>2. todo' \subseteq 0..(PerBatch' - 1)
        BY <1>1, <1>3
    <2>3. ASSUME ~Reorder PROVE LeavesInOrder'
        <3> SUFFICES ASSUME NEW k \in todo',
                            NEW m \in (0..(PerBatch - 1)) \ todo'
                     PROVE  m < k
            BY <1>3 DEF LeavesInOrder
        <3>1. /\ k \in todo /\ k # n /\ k \in Int /\ m \in Int /\ n <= k
              /\ LeavesInOrder
            BY <1>1, <1>3, <1>4, <2>3 DEF NextToSend, SentInv
        <3>2. m \in (0..(PerBatch - 1)) \ todo \/ m = n
            BY <1>1
        <3>3. CASE m = n
            BY <3>1, <3>3
        <3>4. CASE m \in (0..(PerBatch - 1)) \ todo
            BY <3>1, <3>4 DEF LeavesInOrder
        <3> QED
            BY <3>2, <3>3, <3>4
    <2>4. ASSUME ~Stranger PROVE SentExactly'
        <3>1. /\ Chunk * (SentUpTo + 1) = Chunk * SentUpTo + Chunk
              /\ Chunk * SentUpTo \in Int
            BY <1>2, <2>1
        <3>2. SentExactly /\ counted
            BY <1>4, <2>4 DEF SentInv, BytesInv
        <3>3. CASE Cut
            <4>1. stage = "FINAL" /\ bytesSent' = Payload /\ Remaining < Chunk
                BY <1>1, <1>2, <3>2, <3>3 DEF Cut, Remaining
            <4>2. Payload <= Chunk * (SentUpTo + 1)
                BY <1>2, <2>1, <3>1, <3>2, <4>1 DEF SentExactly, Remaining
            <4> QED
                BY <1>1, <2>1, <4>1, <4>2 DEF SentExactly
        <3>4. CASE ~Cut
            <4>1. bytesSent = Chunk * SentUpTo
                BY <1>2, <3>2, <3>4, ProtocolAssumption
                DEF SentExactly, Cut, Remaining
            <4> QED
                BY <1>1, <2>1, <3>1, <3>2, <3>4, <4>1 DEF SentExactly
        <3> QED
            BY <3>3, <3>4
    <2> QED
        BY <1>1, <1>3, <1>4, <2>2, <2>3, <2>4 DEF SentInv
<1>5. CASE sPc = "resend"
    <2>1. ~counted /\ bytesSent' = bytesSent
        BY <1>1, <1>5 DEF BytesInv
    <2>2. SentUpTo' = SentUpTo /\ todo' \subseteq todo
        BY <1>1, <1>3, <1>5 DEF SentUpTo
    <2> QED
        BY <1>1, <1>3, <1>5, <2>1, <2>2 DEF SentInv, SentExactly
<1> QED
    BY <1>1, <1>4, <1>5 DEF Sending

LEMMA RestKeepsSent ==
    ASSUME ServerTypeOK, PromptInv, SentInv,
           SendCrash \/ FinishBatch \/ FinishResend \/ NobodyListens
    PROVE  SentInv'
<1>1. CASE sPc' = "down"
    <2>1. UNCHANGED <<seen, stage>> /\ (Sending \/ sPc = "down")
        BY <1>1 DEF SendCrash, FinishBatch, FinishResend, NobodyListens,
           Crash, serverVars, slotVars, Sending
    <2> QED
        BY <1>1, <2>1 DEF SentInv, Sending
<1>2. CASE sPc' # "down"
    <2>1. /\ sPc' = "receive" /\ Sending /\ todo = {}
          /\ musicPtr' = musicPtr + PerBatch
          /\ UNCHANGED <<seen, inUse, bytesSent>>
          /\ stage' \in {stage, "FINAL"}
        BY <1>2 DEF SendCrash, FinishBatch, FinishResend, NobodyListens,
           Crash, serverVars, Sending
    <2>2. SentUpTo' = SentUpTo
        <3>1. Cardinality(todo) = 0 /\ musicPtr \in Int /\ PerBatch \in Nat
            BY <2>1, FS_EmptySet, PerBatchType DEF ServerTypeOK
        <3> QED
            BY <2>1, <3>1 DEF SentUpTo, Sending
    <2> QED
        BY <2>1, <2>2 DEF SentInv, SentExactly, Sending, Stranger
<1> QED
    BY <1>1, <1>2

LEMMA SentStep ==
    ASSUME SessionInv, MarksInv, AgreementInv, LockInv, AudioInv, FitInv,
           SentInv, [Next]_vars
    PROVE  SentInv'
<1>1. ServerTypeOK /\ BytesInv /\ PromptInv
    BY DEF SessionInv, TypeOK, LockInv, AudioInv
<1>2. CASE ServerStep
    <2>1. OnlyAsked
        BY <1>2, NothingElseAsked DEF ServerStep
    <2> QED
        BY <1>1, <2>1, StartKeepsSent, SendKeepsSent, RestKeepsSent
        DEF OnlyAsked, SendStep
<1>3. CASE ~ServerStep
    BY <1>3, ServerOrClient
    DEF ServerRests, vars, serverVars, slotVars, SentInv, SentExactly,
        SentUpTo, Sending, Stranger, PerBatch, LeavesInOrder
<1> QED
    BY <1>2, <1>3

(***************************************************************************)
(* Two kinds of packets: those that have all the file has for their place, *)
(* and those that have nothing from beyond it.                             *)
(***************************************************************************)
Complete ==
    {m \in FitReply : m.flag = "NONE" /\ m.pos < FileChunks =>
        m.size >= LesserOf(Chunk, Payload - m.pos * Chunk)}

Inside ==
    {m \in FitReply : m.flag = "NONE" /\ m.size > 0 =>
        m.pos * Chunk + m.size <= Payload}

LEMMA BeforeTheEnd ==
    ASSUME NEW p \in Int, p < FileChunks
    PROVE  Chunk * p < Payload
<1>1. Chunk \in Nat \ {0} /\ Payload \in Nat /\ FileChunks \in Int
      /\ Chunk * p \in Int
    BY ProtocolAssumption DEF FileChunks
<1>2. ASSUME Payload <= Chunk * p PROVE FALSE
    BY <1>1, <1>2, PayloadCovered
<1> QED
    BY <1>1, <1>2

(***************************************************************************)
(* What the server sends is complete, unless it is sent a second time and  *)
(* cut, or cut before its turn.                                            *)
(***************************************************************************)
LEMMA SentIsComplete ==
    ASSUME SessionInv, LockInv, AudioInv, FitInv, SentInv, SendPacket,
           NoResendIsCut, EndsInOrder,
           NEW n \in todo, NEW e \in Reply,
           e.pos = musicPtr + n, e.size = SizeToSend
    PROVE  e \in Complete
<1>1. /\ ServerTypeOK /\ BytesInv /\ SentExactly /\ Sending
    BY DEF SessionInv, TypeOK, AudioInv, SentInv, SendPacket, Sending,
       LockInv, PromptInv
<1>2. /\ Chunk \in Nat \ {0} /\ Payload \in Nat /\ bytesSent \in Nat
      /\ e.pos \in Int /\ e.size \in Nat
    BY <1>1, ProtocolAssumption DEF ServerTypeOK, Reply
<1>3. Chunk * e.pos \in Int /\ e.pos * Chunk = Chunk * e.pos
    BY <1>2
<1>4. CASE ~Cut
    <2>1. e.size = Chunk
        BY <1>4 DEF SizeToSend
    <2>2. LesserOf(Chunk, Payload - e.pos * Chunk) <= Chunk
        BY <1>2, <1>3 DEF LesserOf
    <2> QED
        BY <1>2, <1>3, <2>1, <2>2 DEF Complete, FitReply
<1>5. CASE Cut
    <2>1. sPc = "batch" /\ stage = "FINAL" /\ bytesSent <= Payload
        BY <1>1, <1>5 DEF NoResendIsCut, Sending, Cut, FitInv
    <2>2. e.size = Payload - bytesSent /\ e.size <= Chunk
        BY <1>1, <1>5, <2>1, CountStays
    <2>3. SentUpTo \in Int /\ SentUpTo <= e.pos
        BY <1>1, <2>1, NextOfABatch DEF EndsInOrder
    <2>4. Chunk * SentUpTo <= Chunk * e.pos
        BY <1>2, <2>3
    <2>5. ASSUME e.pos < FileChunks
          PROVE  e.size >= LesserOf(Chunk, Payload - e.pos * Chunk)
        <3>1. Chunk * e.pos < Payload
            BY <1>2, <2>5, BeforeTheEnd
        <3>2. Chunk * SentUpTo \in Int
            BY <1>2, <2>3
        <3>3. bytesSent <= Chunk * e.pos
            BY <1>1, <1>3, <2>4, <3>1, <3>2, <1>2 DEF SentExactly
        <3> QED
            BY <1>2, <1>3, <2>2, <3>3 DEF LesserOf
    <2> QED
        BY <2>2, <2>5 DEF Complete, FitReply
<1> QED
    BY <1>4, <1>5

(***************************************************************************)
(* It is inside the file until more has been sent than that has, if its    *)
(* batch leaves in order or has its whole size in the file.                *)
(***************************************************************************)
NoneAhead ==
    sPc = "batch" => \/ LeavesInOrder /\ LeavesInOrder'
                     \/ Chunk * (musicPtr + PerBatch) <= Payload

LEMMA SentIsInside ==
    ASSUME SessionInv, LockInv, AudioInv, FitInv, SentInv, SendPacket,
           NoneAhead, bytesSent' <= Payload,
           NEW n \in todo, todo' = todo \ {n}, NEW e \in Reply,
           e.pos = musicPtr + n, e.size = SizeToSend
    PROVE  e \in Inside
<1>1. /\ ServerTypeOK /\ BytesInv /\ SentExactly /\ Sending
      /\ todo \subseteq 0..(PerBatch - 1)
    BY DEF SessionInv, TypeOK, AudioInv, SentInv, SendPacket, Sending,
       LockInv, PromptInv
<1>2. /\ Chunk \in Nat \ {0} /\ Payload \in Nat /\ PerBatch \in Nat
      /\ musicPtr \in Int /\ bytesSent \in Nat /\ n \in 0..(PerBatch - 1)
      /\ e.pos \in Int /\ e.size \in Nat /\ Remaining = Payload - bytesSent
    BY <1>1, PerBatchType, ProtocolAssumption
    DEF ServerTypeOK, Reply, Remaining
<1>3. /\ Chunk * e.pos \in Int /\ e.pos * Chunk = Chunk * e.pos
      /\ Chunk * (e.pos + 1) = Chunk * e.pos + Chunk
      /\ e.pos + 1 <= musicPtr + PerBatch /\ musicPtr + PerBatch \in Int
      /\ Chunk * (musicPtr + PerBatch) \in Int
    BY <1>2
<1>4. Chunk * (e.pos + 1) <= Chunk * (musicPtr + PerBatch)
    BY <1>2, <1>3
<1>5. /\ ~Cut => e.size = Chunk
      /\ bytesSent <= Payload /\ e.size <= Chunk
      /\ Cut => e.size = Payload - bytesSent
    BY <1>1, CountStays DEF SizeToSend
<1>6. CASE Chunk * (musicPtr + PerBatch) <= Payload
    BY <1>2, <1>3, <1>4, <1>5, <1>6 DEF Inside, FitReply
<1>7. CASE sPc = "batch" /\ LeavesInOrder /\ LeavesInOrder'
    <2>1. \A k \in todo : n <= k
        <3>1. PerBatch' = PerBatch
            BY DEF SendPacket, PerBatch
        <3>2. n \in (0..(PerBatch' - 1)) \ todo'
            BY <1>2, <3>1
        <3>3. \A k \in todo' : n < k
            BY <1>7, <3>2 DEF LeavesInOrder
        <3> QED
            BY <1>1, <1>2, <3>3
    <2>2. SentUpTo = e.pos
        BY <1>1, <1>7, <2>1, NextOfABatch
    <2>3. \/ bytesSent = Chunk * e.pos
          \/ Cut /\ bytesSent = Payload
        BY <1>1, <1>2, <2>2 DEF SentExactly, Cut
    <2>4. ~Cut => bytesSent' = bytesSent + Chunk
        BY <1>1, <1>7 DEF SendPacket, BytesInv
    <2>5. e.size > 0 => e.pos * Chunk + e.size <= Payload
        BY <1>2, <1>3, <1>5, <2>3, <2>4
    <2> QED
        BY <1>5, <2>5 DEF Inside, FitReply
<1>8. CASE sPc = "resend"
    <2>1. SentUpTo = musicPtr + PerBatch
        BY <1>8 DEF SentUpTo
    <2>2. e.size > 0 => e.pos * Chunk + e.size <= Payload
        BY <1>1, <1>2, <1>3, <1>4, <1>5, <2>1 DEF SentExactly, Cut
    <2> QED
        BY <1>5, <2>2 DEF Inside, FitReply
<1> QED
    BY <1>1, <1>6, <1>7, <1>8 DEF Sending, NoneAhead

LEMMA HeardStep ==
    ASSUME SessionInv, MarksInv, AgreementInv, LockInv, AudioInv, [Next]_vars,
           NEW S, S \subseteq FitReply, HeardFrom(S),
           \A m \in Reply : m.flag # "NONE" => m \in S,
           \A n \in todo, e \in Reply :
              SendPacket /\ todo' = todo \ {n} /\ e.pos = musicPtr + n
                 /\ e.size = SizeToSend => e \in S
    PROVE  HeardFrom(S)'
<1>1. QueueTypeOK /\ ServerTypeOK /\ s2c \in Seq(S)
    BY DEF SessionInv, TypeOK, NetTypeOK, HeardFrom
<1>2. CASE SendPacket /\ ServerStep
    <2>1. PICK n \in todo : /\ Leaves(MusicPacket(n))
                            /\ todo' = todo \ {n}
        BY <1>2 DEF SendPacket, NextToSend
    <2>2. s2c' \in Seq(S)
        BY <1>1, <1>2, <2>1, PacketGoesOut
    <2> QED
        BY <1>2, <2>2, ServerIsHeard DEF ServerStep, ClientRests
<1>3. CASE ServerStep /\ ~SendPacket
    <2>1. s2c' \in Seq(S)
        BY <1>1, <1>3, FlagsAreFree
    <2> QED
        BY <1>3, <2>1, ServerIsHeard DEF ServerStep, ClientRests
<1>4. CASE ServerRests /\ ClientNext(ServerSilent)
    BY <1>4, ClientHears
<1>5. CASE UNCHANGED vars
    <2>1. ClientRests /\ s2c' = s2c
        BY <1>5 DEF vars, ClientRests, netVars
    <2> QED
        BY <1>1, <2>1, ServerIsHeard
<1> QED
    BY <1>2, <1>3, <1>4, <1>5, ServerOrClient

LEMMA HeardInit ==
    ASSUME Init
    PROVE  SentInv /\ HeardFrom(Complete) /\ HeardFrom(Inside)
<1>1. SentInv
    <2>1. Chunk * 0 = 0
        BY ProtocolAssumption
    <2> QED
        BY <2>1 DEF Init, ServerInit, SentInv, SentExactly, SentUpTo, Sending
<1>2. Len(heard) = 0 /\ s2c = <<>> /\ ~Collecting
    BY EmptySeq DEF Init, NetInit, ClientInit, Collecting
<1>3. \A S : s2c \in Seq(S)
    BY <1>2, EmptySeq
<1> QED
    BY <1>1, <1>2, <1>3 DEF HeardFrom

(***************************************************************************)
(* The music on its way to the listener has no gap unless a resend is cut  *)
(* or the last batch shuffled, and nothing from beyond the file until      *)
(* bytes_sent is.                                                          *)
(***************************************************************************)
LEMMA CompleteStep ==
    ASSUME SessionInv, MarksInv, AgreementInv, LockInv, AudioInv, FitInv,
           SentInv, NoResendIsCut, EndsInOrder, HeardFrom(Complete),
           [Next]_vars
    PROVE  HeardFrom(Complete)'
<1>1. /\ Complete \subseteq FitReply
      /\ \A m \in Reply : m.flag # "NONE" => m \in Complete
    BY DEF Complete, FitReply
<1>2. \A n \in todo, e \in Reply :
         SendPacket /\ todo' = todo \ {n} /\ e.pos = musicPtr + n
            /\ e.size = SizeToSend => e \in Complete
    BY SentIsComplete
<1> QED
    BY <1>1, <1>2, HeardStep

LEMMA InsideStep ==
    ASSUME SessionInv, MarksInv, AgreementInv, LockInv, AudioInv, FitInv,
           SentInv, bytesSent <= Payload => HeardFrom(Inside),
           SendPacket => NoneAhead, [Next]_vars
    PROVE  bytesSent' <= Payload => HeardFrom(Inside)'
<1> SUFFICES ASSUME bytesSent' <= Payload
             PROVE  HeardFrom(Inside)'
    OBVIOUS
<1>1. /\ Inside \subseteq FitReply
      /\ \A m \in Reply : m.flag # "NONE" => m \in Inside
    BY DEF Inside, FitReply
<1>2. HeardFrom(Inside)
    <2>1. ServerTypeOK /\ BytesInv
        BY DEF SessionInv, TypeOK, AudioInv
    <2>2. CASE SendPacket
        BY <2>1, <2>2, CountStays
    <2>3. CASE ServerStep /\ ~SendPacket
        <3>1. QueueTypeOK /\ \A m \in Reply : m.flag # "NONE" => m \in Reply
            BY DEF SessionInv, TypeOK, NetTypeOK
        <3>2. UNCHANGED bytesSent
            BY <2>3, <3>1, FlagsAreFree DEF QueueTypeOK
        <3> QED
            BY <3>2
    <2>4. CASE ~ServerStep
        BY <2>4, ServerOrClient DEF ServerRests, vars, serverVars, slotVars
    <2> QED
        BY <2>2, <2>3, <2>4
<1>3. \A n \in todo, e \in Reply :
         SendPacket /\ todo' = todo \ {n} /\ e.pos = musicPtr + n
            /\ e.size = SizeToSend => e \in Inside
    BY SentIsInside
<1> QED
    BY <1>1, <1>2, <1>3, HeardStep

LEMMA WrittenOf ==
    ASSUME NEW m \in Reply
    PROVE  /\ Kept(m.codec, m.size) \in Nat /\ Kept(m.codec, m.size) <= m.size
           /\ Written(m).size = Kept(m.codec, m.size)
           /\ Written(m).size > 0 => Written(m).pos = m.pos
<1>1. m.codec \in Codecs /\ m.size \in Nat
    BY DEF Reply
<1> QED
    BY <1>1, KeptGrows DEF Written, Silence

LEMMA HeardIsInside ==
    ASSUME HeardFrom(Inside)
    PROVE  NothingBeyondTheFile
<1> SUFFICES ASSUME NEW k \in 1..Len(heard), heard[k].size > 0
             PROVE  heard[k].pos * Chunk + heard[k].size <= Payload
    BY DEF NothingBeyondTheFile
<1>1. PICK m \in Inside : m.flag = "NONE" /\ heard[k] = Written(m)
    BY DEF HeardFrom, LeftBy
<1>2. m \in Reply /\ m.size \in Nat /\ m.pos \in Int
    BY DEF Inside, FitReply, Reply
<1>3. /\ heard[k].pos = m.pos /\ heard[k].size \in Nat
      /\ heard[k].size <= m.size /\ m.size > 0
    BY <1>1, <1>2, WrittenOf
<1>4. m.pos * Chunk + m.size <= Payload
    BY <1>1, <1>3 DEF Inside
<1>5. m.pos * Chunk \in Int /\ Payload \in Nat
    BY <1>2, ProtocolAssumption
<1> QED
    BY <1>2, <1>3, <1>4, <1>5

LEMMA HeardIsComplete ==
    ASSUME SessionInv, AudioInv, HeardFrom(Complete)
    PROVE  WholeFileHeard
<1> SUFFICES ASSUME cPc = "done", NEW k \in 1..FileChunks
             PROVE  /\ k <= Len(heard)
                    /\ \E codec \in Codecs :
                          HeardAsCoded(heard[k], k - 1, codec)
    BY DEF WholeFileHeard
<1>1. Len(heard) \in Nat /\ FileChunks \in Int /\ Len(heard) >= FileChunks
    <2>1. Len(heard) \in Nat /\ FileChunks \in Int
        BY LenProperties, ProtocolAssumption
        DEF SessionInv, TypeOK, ClientTypeOK, FileChunks
    <2>2. Stranger
        BY DEF AudioInv, HeardToTheEnd, SessionInv, EOSIsTheEnd, Stranger
    <2> QED
        BY <2>1, <2>2 DEF AudioInv, HeardToTheEnd
<1>2. k \in 1..Len(heard)
    BY <1>1
<1>3. PICK m \in Complete :
          m.flag = "NONE" /\ m.pos = k - 1 /\ heard[k] = Written(m)
    BY <1>2 DEF HeardFrom, LeftBy
<1>4. m \in Reply /\ m.codec \in Codecs /\ m.size \in Nat
    BY DEF Complete, FitReply, Reply
<1>5. InTheFile(k - 1) \in Nat /\ m.size >= InTheFile(k - 1)
    <2>1. k - 1 \in Int /\ k - 1 < FileChunks
        BY <1>1
    <2>2. Chunk * (k - 1) < Payload
        BY <2>1, BeforeTheEnd
    <2>3. m.size >= LesserOf(Chunk, Payload - (k - 1) * Chunk)
        BY <1>1, <1>3 DEF Complete
    <2> QED
        BY <2>1, <2>2, <2>3, ProtocolAssumption DEF InTheFile, LesserOf
<1>6. /\ Kept(m.codec, InTheFile(k - 1)) \in Nat
      /\ Kept(m.codec, InTheFile(k - 1)) <= Kept(m.codec, m.size)
    BY <1>4, <1>5, KeptGrows
<1>7. HeardAsCoded(heard[k], k - 1, m.codec)
    BY <1>3, <1>4, <1>6, WrittenOf DEF HeardAsCoded
<1> QED
    BY <1>2, <1>4, <1>7

LEMMA SentHolds ==
    ASSUME RequestsArrive
    PROVE  Spec => [](SessionInv /\ MarksInv /\ AgreementInv /\ LockInv
                      /\ AudioInv /\ FitInv /\ SentInv)
<1>1. SessionInv /\ MarksInv /\ AgreementInv /\ LockInv /\ AudioInv /\ FitInv
      /\ SentInv /\ [Next]_vars => SentInv'
    BY SentStep
<1>2. Init => SentInv
    BY HeardInit
<1> QED
    BY <1>1, <1>2, FitHolds, PTL DEF Spec

(***************************************************************************)
(* send.c, whatever replies are lost and corrupted and however the batches *)
(* before the last are shuffled: the client that has heard the stream to   *)
(* its end has heard all of every full chunk of the file, and of a partial *)
(* last one what the coding it came in leaves of it (compress.c), unless a *)
(* packet that was sent a second time has been cut by the bytes_sent of    *)
(* the first time, or a packet of the last batch has left before its turn. *)
(***************************************************************************)
THEOREM WholeFile ==
    ASSUME RequestsArrive
    PROVE  Spec => OnlyCutResendsLose
<1>1. SessionInv /\ MarksInv /\ AgreementInv /\ LockInv /\ AudioInv /\ FitInv
      /\ SentInv /\ HeardFrom(Complete) /\ NoResendIsCut /\ EndsInOrder
      /\ [Next]_vars
         => HeardFrom(Complete)'
    BY CompleteStep
<1>2. Init => HeardFrom(Complete)
    BY HeardInit
<1>3. SessionInv /\ AudioInv /\ HeardFrom(Complete) => WholeFileHeard
    BY HeardIsComplete
<1> QED
    BY <1>1, <1>2, <1>3, SentHolds, PTL DEF Spec, OnlyCutResendsLose

(***************************************************************************)
(* By a server that does not shuffle nothing from beyond the file is       *)
(* heard, whatever is sent again, until a batch of which it did not know   *)
(* that it would be the last one has taken bytes_sent past the end.        *)
(***************************************************************************)
THEOREM NothingBeyond ==
    ASSUME RequestsArrive, ~Reorder
    PROVE  Spec => [](bytesSent <= Payload => NothingBeyondTheFile)
<1>1. SessionInv /\ MarksInv /\ AgreementInv /\ LockInv /\ AudioInv /\ FitInv
      /\ SentInv /\ SentInv' /\ (bytesSent <= Payload => HeardFrom(Inside))
      /\ [Next]_vars
         => (bytesSent <= Payload => HeardFrom(Inside))'
    <2>1. SentInv /\ SentInv' /\ SendPacket => NoneAhead
        BY DEF SentInv, SendPacket, NoneAhead
    <2> QED
        BY <2>1, InsideStep
<1>2. Init => (bytesSent <= Payload => HeardFrom(Inside))
    BY HeardInit
<1>3. HeardFrom(Inside) => NothingBeyondTheFile
    BY HeardIsInside
<1> QED
    BY <1>1, <1>2, <1>3, SentHolds, PTL DEF Spec

-----------------------------------------------------------------------------
(***************************************************************************)
(* As long as no better quality is asked for the server foresees its last  *)
(* batch: a batch that is not known to be the last has its whole size left *)
(* in the file, and so has the next one, of which the size is known as     *)
(* soon as that decision is taken.                                         *)
(***************************************************************************)
ForeseenInv ==
    /\ bytesSent <= Payload
    /\ ~seen => stage = "INITIAL"
    /\ Sending => stage # "INITIAL"
    /\ ~Stranger /\ sPc # "down" /\ stage = "INITIAL" =>
          /\ bytesSent = 0 /\ cQuality = InitialQuality
          /\ cPc \notin {"adjust", "qpeek", "qsend", "qack"}
    /\ ~Stranger /\ sPc \in {"receive", "resend"} /\ stage = "INTERMEDIATE" =>
          bytesSent + Chunk * PerBatch <= Payload
    /\ sPc = "batch" /\ stage # "FINAL" =>
          bytesSent + Chunk * Cardinality(todo) <= Payload

LEMMA StartForesees ==
    ASSUME SessionInv, MarksInv, AgreementInv, LockInv, ForeseenInv,
           NoRaiseAsked, ClientRests,
           Payload >= Chunk * Packets[InitialQuality],
           \/ RejectStranger \/ EndStream \/ HandleACK \/ HandleQTY
           \/ HandleRR \/ HandleREJ
    PROVE  ForeseenInv'
<1>1. ServerTypeOK /\ ClientTypeOK /\ SlotInv /\ QueueTypeOK
    BY DEF SessionInv, TypeOK, NetTypeOK
<1>2. UNCHANGED <<cPc, cQuality>>
    BY ClientStays DEF ClientRests, clientVars, qualityVars
<1>3. CASE RejectStranger
    <2>1. sPc' = "receive" /\ UNCHANGED slotVars /\ Stranger'
        BY <1>3 DEF RejectStranger, ServerReceives, AnswerFlag, slotVars,
           Stranger
    <2> QED
        BY <2>1 DEF ForeseenInv, slotVars, Sending
<1>4. CASE EndStream
    <2>1. sPc' = "receive" /\ UNCHANGED <<seen, stage, bytesSent>> /\ inUse
          /\ ~inUse'
        BY <1>4 DEF EndStream, ServerReceives, AnswerFlag, Stage
    <2> QED
        BY <1>1, <2>1 DEF ForeseenInv, SlotInv, Stranger, Sending
<1>5. CASE HandleACK
    <2>1. /\ sPc = "receive" /\ sPc' = "receive" /\ seen'
          /\ ~Stranger /\ Stage = "INITIAL" /\ stage' = "INITIAL"
          /\ UNCHANGED bytesSent
        BY <1>5 DEF HandleACK, ServerReceives, AnswerFlag, Register
    <2>2. stage = "INITIAL"
        BY <2>1 DEF Stage, Stranger, ForeseenInv
    <2> QED
        BY <1>2, <2>1, <2>2 DEF ForeseenInv, Sending
<1>6. CASE HandleQTY
    <2>1. /\ sPc = "receive" /\ sPc' = "receive" /\ ~Stranger
          /\ Stage # "INITIAL" /\ c2s # <<>> /\ Head(c2s).flag = "QTY"
          /\ sQuality' = Head(c2s).arg
          /\ UNCHANGED <<seen, inUse, stage, bytesSent>>
        BY <1>6 DEF HandleQTY, ServerReceives, AnswerFlag
    <2>2. stage # "INITIAL"
        BY <2>1 DEF Stage
    <2>3. /\ sQuality' \in Qualities /\ sQuality' <= sQuality
          /\ sQuality \in Qualities
        <3>1. Head(c2s) \in Request
            BY <1>1, <2>1, HeadTailProperties DEF QueueTypeOK
        <3>2. Head(c2s).arg \in Qualities
            BY <2>1, <3>1, RequestFields
        <3> QED
            BY <1>1, <2>1, <3>2, ProtocolAssumption
            DEF NoRaiseAsked, Qualities, ServerTypeOK
    <2>4. /\ PerBatch \in Nat /\ PerBatch' \in Nat /\ PerBatch' <= PerBatch
        BY <2>3, ProtocolAssumption DEF PerBatch, PacketsOf, Qualities
    <2>5. Chunk * PerBatch' <= Chunk * PerBatch /\ Chunk * PerBatch' \in Nat
          /\ Chunk * PerBatch \in Nat
        <3>1. \A a, b \in Nat : a <= b => Chunk * a <= Chunk * b
            BY ProtocolAssumption
        <3>2. \A a \in Nat : Chunk * a \in Nat
            BY ProtocolAssumption
        <3> QED
            BY <2>4, <3>1, <3>2
    <2>6. bytesSent \in Nat /\ Payload \in Nat
        BY <1>1, ProtocolAssumption DEF ServerTypeOK
    <2>7. stage = "INTERMEDIATE" => bytesSent + Chunk * PerBatch' <= Payload
        BY <2>1, <2>5, <2>6 DEF ForeseenInv
    <2> QED
        BY <2>1, <2>2, <2>7 DEF ForeseenInv, Sending, Stranger
<1>7. CASE HandleRR
    <2>1. /\ sPc = "receive" /\ sPc' = "batch" /\ ~Stranger
          /\ seen' /\ stage' # "INITIAL"
          /\ stage' = IF Stage = "INITIAL" THEN "INTERMEDIATE" ELSE stage
          /\ cPc = "peek" /\ PerBatch = PerBatchC /\ PerBatchC \in Nat
          /\ Cardinality(todo') = PerBatchC /\ UNCHANGED bytesSent
        BY <1>7, BatchStarts DEF HandleRR, Register
    <2>2. stage \in {"INITIAL", "INTERMEDIATE"}
          => bytesSent + Chunk * PerBatchC <= Payload
        <3>1. CASE stage = "INITIAL"
            <4>1. bytesSent = 0 /\ cQuality = InitialQuality
                BY <2>1, <3>1 DEF ForeseenInv
            <4>2. PerBatchC = Packets[InitialQuality]
                BY <4>1, ClientAssumption DEF PerBatchC, PacketsOf
            <4> QED
                BY <2>1, <4>1, <4>2, ProtocolAssumption
        <3>2. CASE stage = "INTERMEDIATE"
            BY <2>1, <3>2 DEF ForeseenInv
        <3> QED
            BY <3>1, <3>2
    <2>3. stage' # "FINAL" => stage \in {"INITIAL", "INTERMEDIATE"}
        BY <1>1, <2>1 DEF Stage, Stranger, ForeseenInv, ServerTypeOK, Stages
    <2> QED
        BY <2>1, <2>2, <2>3 DEF ForeseenInv
<1>8. CASE HandleREJ
    <2>1. /\ sPc = "receive" /\ sPc' = "resend" /\ ~Stranger
          /\ stage # "INITIAL"
          /\ UNCHANGED <<seen, inUse, stage, sQuality, bytesSent>>
        BY <1>8, ResendStarts
    <2> QED
        BY <2>1 DEF ForeseenInv, Stranger, PerBatch
<1> QED
    BY <1>3, <1>4, <1>5, <1>6, <1>7, <1>8

LEMMA SendForesees ==
    ASSUME ServerTypeOK, BytesInv, FitInv, ForeseenInv, ClientRests, SendPacket
    PROVE  ForeseenInv'
<1>1. PICK n \in todo :
          /\ Sending /\ todo' = todo \ {n}
          /\ UNCHANGED <<sPc, seen, inUse, stage, sQuality, musicPtr>>
          /\ bytesSent' = IF ~counted THEN bytesSent
                          ELSE bytesSent + (IF Cut THEN Remaining ELSE Chunk)
    BY DEF SendPacket, NextToSend, Sending
<1>2. /\ Cardinality(todo) \in Nat /\ Chunk \in Nat /\ bytesSent \in Nat
      /\ Payload \in Nat /\ Cardinality(todo') = Cardinality(todo) - 1
      /\ Cardinality(todo') \in Nat
    BY <1>1, FS_RemoveElement, FS_CardinalityType, FS_Subset, ProtocolAssumption
    DEF BytesInv, ServerTypeOK
<1>3. PerBatch' = PerBatch /\ Stranger' = Stranger /\ Sending'
      /\ stage # "INITIAL"
    BY <1>1 DEF PerBatch, Stranger, Sending, ForeseenInv
<1>4. CASE sPc = "batch" /\ stage # "FINAL"
    <2>1. bytesSent' = bytesSent + Chunk
        BY <1>1, <1>4 DEF BytesInv, Cut
    <2>2. Chunk * Cardinality(todo) = Chunk * Cardinality(todo') + Chunk
          /\ Chunk * Cardinality(todo') \in Nat
        BY <1>2
    <2>3. bytesSent' + Chunk * Cardinality(todo') <= Payload
        BY <1>2, <1>4, <2>1, <2>2 DEF ForeseenInv
    <2>4. bytesSent' <= Payload
        BY <1>2, <2>1, <2>2, <2>3
    <2> QED
        BY <1>1, <1>3, <1>4, <2>3, <2>4 DEF ForeseenInv
<1>5. CASE sPc = "batch" /\ stage = "FINAL"
    <2>1. bytesSent' <= Payload
        BY <1>1, <1>5, CountStays
    <2> QED
        BY <1>1, <1>3, <1>5, <2>1 DEF ForeseenInv
<1>6. CASE sPc = "resend"
    <2>1. bytesSent' = bytesSent
        BY <1>1, <1>6 DEF BytesInv
    <2> QED
        BY <1>1, <1>3, <1>6, <2>1 DEF ForeseenInv
<1> QED
    BY <1>1, <1>4, <1>5, <1>6 DEF Sending

LEMMA RestForesees ==
    ASSUME ServerTypeOK, PromptInv, ForeseenInv, ClientRests,
           SendCrash \/ FinishBatch \/ FinishResend \/ NobodyListens
    PROVE  ForeseenInv'
<1>1. CASE sPc' = "down"
    <2>1. UNCHANGED <<seen, stage, bytesSent>>
        BY <1>1 DEF SendCrash, FinishBatch, FinishResend, NobodyListens,
           Crash, serverVars, slotVars
    <2> QED
        BY <1>1, <2>1 DEF ForeseenInv, Sending
<1>2. CASE FinishBatch
    <2>1. /\ sPc = "batch" /\ sPc' = "receive"
          /\ stage' = IF bytesSent + PerBatch * Chunk >= Payload THEN "FINAL"
                      ELSE stage
          /\ UNCHANGED <<seen, inUse, sQuality, bytesSent>>
        BY <1>2 DEF FinishBatch
    <2>2. /\ PerBatch' = PerBatch /\ Chunk \in Nat /\ PerBatch \in Nat
          /\ bytesSent \in Nat /\ Payload \in Nat
        BY <2>1, PerBatchType, ProtocolAssumption DEF PerBatch, ServerTypeOK
    <2>3. PerBatch * Chunk = Chunk * PerBatch /\ Chunk * PerBatch \in Nat
        BY <2>2
    <2>4. stage # "INITIAL" /\ seen
        BY <2>1 DEF ForeseenInv, Sending
    <2>5. stage' = "INTERMEDIATE" => bytesSent' + Chunk * PerBatch' <= Payload
        BY <2>1, <2>2, <2>3
    <2> QED
        BY <2>1, <2>4, <2>5 DEF ForeseenInv, Sending
<1>3. CASE FinishResend /\ sPc' # "down"
    <2>1. /\ sPc = "resend" /\ sPc' = "receive"
          /\ UNCHANGED <<seen, inUse, stage, sQuality, bytesSent>>
        BY <1>3 DEF FinishResend, Crash
    <2> QED
        BY <2>1 DEF ForeseenInv, Sending, Stranger, PerBatch
<1> QED
    BY <1>1, <1>2, <1>3
    DEF SendCrash, NobodyListens, Crash, serverVars

(***************************************************************************)
(* The client leaves its first quality only when it has had a batch.       *)
(***************************************************************************)
LEMMA ClientForesees ==
    ASSUME SessionInv, LockInv, ForeseenInv, ServerRests,
           ClientNext(ServerSilent)
    PROVE  ForeseenInv'
<1>1. UNCHANGED <<sPc, seen, inUse, stage, sQuality, bytesSent, todo>>
    BY DEF ServerRests, serverVars, slotVars
<1>2. ASSUME ~Stranger, sPc # "down", stage = "INITIAL"
      PROVE  /\ cQuality' = cQuality
             /\ cPc' \notin {"adjust", "qpeek", "qsend", "qack"}
    <2>1. cPc \notin {"adjust", "qpeek", "qsend", "qack"}
        BY <1>2 DEF ForeseenInv
    <2>2. cPc # "check" /\ (cPc = "peek" => s2c = <<>>)
        <3>1. Collecting => BatchPending
            BY <1>2 DEF LockInv, PlaceInv, Within, WithinABatch
        <3>2. TrafficInv /\ ClientTypeOK
            BY DEF LockInv, SessionInv, TypeOK
        <3> QED
            BY <3>1, <3>2, WhoAsks DEF Collecting, BatchPending
    <2>3. CASE ConnectStep(ServerSilent)
        BY <2>3 DEF ConnectStep, Connect, Connected, ConnectFaulty,
           ConnectFails, Plays, qualityVars
    <2>4. CASE BatchStep(ServerSilent)
        BY <2>2, <2>4 DEF BatchStep, RequestBatch, StreamEnds, StreamGoesOn,
           CollectTimeout, CollectFaulty, CollectIgnored, Accept, AcceptCrash,
           RejectMissing, TakeBatch, NextReceive, SeesEOS, ClientReceives,
           qualityVars
    <2>5. ~QualityStep(ServerSilent)
        BY <2>1 DEF QualityStep, Measure, AdjustQuality, QualityPointless,
           QualityWanted, SendQuality, QualityAgreed, QualityRetry
    <2>6. CASE Play \/ Drain
        BY <2>6 DEF Play, Drain, Plays, qualityVars
    <2> QED
        BY <2>3, <2>4, <2>5, <2>6 DEF ClientNext
<1> QED
    BY <1>1, <1>2 DEF ForeseenInv, Sending, Stranger, PerBatch

LEMMA ForeseenInit ==
    ASSUME Init
    PROVE  ForeseenInv
BY ProtocolAssumption
DEF Init, ServerInit, ClientInit, ForeseenInv, Sending

LEMMA ForeseenStep ==
    ASSUME SessionInv, MarksInv, AgreementInv, LockInv, AudioInv, FitInv,
           ForeseenInv, NoRaiseAsked,
           Payload >= Chunk * Packets[InitialQuality], [Next]_vars
    PROVE  ForeseenInv'
<1>1. ServerTypeOK /\ BytesInv /\ PromptInv
    BY DEF SessionInv, TypeOK, LockInv, AudioInv
<1>2. CASE ServerStep
    <2>1. OnlyAsked /\ ClientRests
        BY <1>2, NothingElseAsked DEF ServerStep, ClientRests
    <2> QED
        BY <1>1, <2>1, StartForesees, SendForesees, RestForesees
        DEF OnlyAsked, SendStep
<1>3. CASE ServerRests /\ ClientNext(ServerSilent)
    BY <1>3, ClientForesees
<1>4. CASE UNCHANGED vars
    BY <1>4
    DEF vars, serverVars, slotVars, clientVars, qualityVars, ForeseenInv,
        Sending, Stranger, PerBatch
<1> QED
    BY <1>2, <1>3, <1>4, ServerOrClient

LEMMA ForeseenHolds ==
    ASSUME RequestsArrive, Payload >= Chunk * Packets[InitialQuality]
    PROVE  Spec => ([]NoRaiseAsked => []ForeseenInv)
<1>1. SessionInv /\ MarksInv /\ AgreementInv /\ LockInv /\ AudioInv /\ FitInv
      /\ ForeseenInv /\ NoRaiseAsked /\ [Next]_vars => ForeseenInv'
    BY ForeseenStep
<1> QED
    BY <1>1, ForeseenInit, FitHolds, PTL DEF Spec

(***************************************************************************)
(* A batch that is not known to be the last one may be shuffled: all of it *)
(* is in the file.                                                         *)
(***************************************************************************)
LEMMA ForeseenIsInside ==
    ASSUME SessionInv, LockInv, AudioInv, SentInv, ForeseenInv,
           EndsInOrder, EndsInOrder', SendPacket
    PROVE  NoneAhead
<1>1. ServerTypeOK /\ BytesInv /\ SentExactly /\ UNCHANGED <<sPc, stage>>
    BY DEF SessionInv, TypeOK, AudioInv, SentInv, SendPacket, LockInv,
       PromptInv, Sending
<1>2. CASE stage = "FINAL"
    BY <1>1, <1>2 DEF EndsInOrder, NoneAhead
<1>3. CASE sPc = "batch" /\ stage # "FINAL"
    <2>1. /\ Chunk \in Nat /\ PerBatch \in Nat /\ musicPtr \in Int
          /\ Cardinality(todo) \in Nat
        BY <1>1, PerBatchType, ProtocolAssumption, FS_CardinalityType
        DEF ServerTypeOK, BytesInv
    <2>2. /\ bytesSent = Chunk * (musicPtr + (PerBatch - Cardinality(todo)))
          /\ bytesSent + Chunk * Cardinality(todo) <= Payload
        BY <1>1, <1>3 DEF SentExactly, SentUpTo, ForeseenInv
    <2>3. Chunk * (musicPtr + (PerBatch - Cardinality(todo)))
             + Chunk * Cardinality(todo) = Chunk * (musicPtr + PerBatch)
        BY <2>1
    <2> QED
        BY <2>2, <2>3 DEF NoneAhead
<1> QED
    BY <1>2, <1>3 DEF NoneAhead

(***************************************************************************)
(* What process_intermediate foresees of the end of the file holds good    *)
(* unless the quality is raised after it: in a stream that starts with     *)
(* enough music for a batch, and of which the last batch leaves in order,  *)
(* nothing from beyond the file is heard, ...                              *)
(***************************************************************************)
THEOREM OnlyRaises ==
    ASSUME RequestsArrive
    PROVE  Spec => OnlyRaisesGoBeyond
<1>1. CASE Payload >= Chunk * Packets[InitialQuality]
    <2>1. SessionInv /\ MarksInv /\ AgreementInv /\ LockInv /\ AudioInv
          /\ FitInv /\ SentInv /\ ForeseenInv /\ ForeseenInv'
          /\ EndsInOrder /\ EndsInOrder' /\ HeardFrom(Inside) /\ [Next]_vars
             => HeardFrom(Inside)'
        BY InsideStep, ForeseenIsInside DEF ForeseenInv
    <2>2. Init => HeardFrom(Inside)
        BY HeardInit
    <2>3. HeardFrom(Inside) => NothingBeyondTheFile
        BY HeardIsInside
    <2> QED
        BY <1>1, <2>1, <2>2, <2>3, SentHolds, ForeseenHolds, PTL
        DEF Spec, OnlyRaisesGoBeyond
<1>2. CASE ~(Payload >= Chunk * Packets[InitialQuality])
    BY <1>2, PTL DEF OnlyRaisesGoBeyond
<1> QED
    BY <1>1, <1>2

(***************************************************************************)
(* ... and no packet is decoded past the end of the batch it is collected  *)
(* into, whether batches are shuffled or not.                              *)
(***************************************************************************)
THEOREM WritesHoldUnlessRaised ==
    ASSUME RequestsArrive, Payload >= Chunk * Packets[InitialQuality]
    PROVE  Spec => ([]NoRaiseAsked => []WritesInside)
<1>1. ForeseenInv /\ WritesStayInside => WritesInside
    BY DEF ForeseenInv, WritesStayInside
<1> QED
    BY <1>1, ForeseenHolds, WritesHold, PTL

(***************************************************************************)
(* What the server reads for a packet is in the file, and the packet fits  *)
(* a datagram, as long as bytes_sent is not past the end: in every batch   *)
(* that is foreseen, in every resend, and in a last batch that leaves in   *)
(* order.                                                                  *)
(***************************************************************************)
UpInv ==
    /\ sPc = "resend" => task = "FAULTY"
    /\ Sending => musicPtr \in Nat
    /\ sPc = "down" => Reorder /\ stage = "FINAL"

LEMMA SizeFits ==
    ASSUME ServerTypeOK, bytesSent <= Payload
    PROVE  /\ SizeToSend \in Nat /\ SizeToSend <= Chunk
           /\ stage = "FINAL" => SizeToSend <= Payload - bytesSent
<1>1. /\ bytesSent \in Nat /\ Payload \in Nat /\ Chunk \in Nat
      /\ SizeWidth \in Nat /\ SizeWidth > Chunk
      /\ Remaining = Payload - bytesSent
    BY ProtocolAssumption, ServerAssumption DEF ServerTypeOK, Remaining
<1>2. CASE Cut
    <2>1. Remaining \in 0..Chunk
        BY <1>1, <1>2 DEF Cut
    <2>2. Remaining % SizeWidth = Remaining
        BY <1>1, <2>1
    <2> QED
        BY <1>1, <1>2, <2>1, <2>2 DEF SizeToSend
<1>3. CASE ~Cut
    BY <1>1, <1>3 DEF SizeToSend, Cut
<1> QED
    BY <1>2, <1>3

LEMMA SizeLeaves ==
    ASSUME ServerTypeOK, bytesSent <= Payload, NEW n \in Nat
    PROVE  ~Wraps(MusicPacket(n))
<1>1. MusicPacket(n).size = SizeToSend /\ MusicPacket(n).codec \in Codecs
    BY DEF MusicPacket, Codec, Codecs
<1>2. /\ PacketSize(MusicPacket(n)) \in Nat
      /\ PacketSize(MusicPacket(n)) <= SizeToSend
    BY <1>1, SizeFits, CodingType DEF PacketSize
<1>3. DatagramSize(MusicPacket(n)) <= 8 + Chunk
    BY <1>2, SizeFits, ProtocolAssumption DEF DatagramSize
<1> QED
    BY <1>2, <1>3, ServerAssumption, ProtocolAssumption
    DEF Wraps, DatagramSize

LEMMA ReadsInside ==
    ASSUME SessionInv, LockInv, AudioInv, SentInv, ForeseenInv, UpInv,
           Sending, ~(Reorder /\ stage = "FINAL"), NEW n \in NextToSend
    PROVE  ~ReadsOutside(n)
<1> DEFINE pos == musicPtr + n
           end == musicPtr + PerBatch
<1>1. /\ ServerTypeOK /\ BytesInv /\ SentExactly /\ n \in todo
      /\ todo \subseteq 0..(PerBatch - 1) /\ bytesSent <= Payload
    BY DEF SessionInv, TypeOK, AudioInv, SentInv, LockInv, PromptInv, Sending,
       ForeseenInv, NextToSend
<1>2. /\ Chunk \in Nat \ {0} /\ Payload \in Nat /\ PerBatch \in Nat
      /\ musicPtr \in Nat /\ bytesSent \in Nat /\ n \in 0..(PerBatch - 1)
      /\ Cardinality(todo) \in Nat
    BY <1>1, PerBatchType, ProtocolAssumption, FS_CardinalityType
    DEF ServerTypeOK, UpInv, BytesInv
<1>3. /\ pos \in Nat /\ pos + 1 <= end /\ end \in Nat
      /\ Chunk * pos \in Nat /\ pos * Chunk = Chunk * pos
      /\ Chunk * (pos + 1) = Chunk * pos + Chunk
      /\ Chunk * end \in Nat
    BY <1>2
<1>4. Chunk * (pos + 1) <= Chunk * end
    BY <1>2, <1>3
<1>5. /\ SizeToSend \in Nat /\ SizeToSend <= Chunk
      /\ stage = "FINAL" => SizeToSend <= Payload - bytesSent
    BY <1>1, SizeFits
<1>6. CASE stage = "FINAL" /\ bytesSent = Payload
    BY <1>2, <1>5, <1>6 DEF ReadsOutside
<1>7. CASE Chunk * end <= Payload
    BY <1>2, <1>3, <1>4, <1>5, <1>7 DEF ReadsOutside
<1>8. CASE bytesSent = Chunk * SentUpTo
    <2>1. CASE sPc = "resend"
        <3>1. Chunk * end <= Payload
            BY <1>1, <1>8, <2>1 DEF SentUpTo
        <3> QED
            BY <1>7, <3>1
    <2>2. CASE sPc = "batch" /\ stage # "FINAL"
        <3>1. /\ bytesSent = Chunk * (musicPtr + (PerBatch - Cardinality(todo)))
              /\ bytesSent + Chunk * Cardinality(todo) <= Payload
            BY <1>8, <2>2 DEF SentUpTo, ForeseenInv
        <3>2. Chunk * (musicPtr + (PerBatch - Cardinality(todo)))
                 + Chunk * Cardinality(todo) = Chunk * end
            BY <1>2
        <3>3. Chunk * end <= Payload
            BY <3>1, <3>2
        <3> QED
            BY <1>7, <3>3
    <2>3. CASE sPc = "batch" /\ stage = "FINAL"
        <3>1. LeavesInOrder /\ \A k \in todo : n <= k
            BY <2>3 DEF SentInv, NextToSend
        <3>2. SentUpTo = pos
            BY <1>1, <2>3, <3>1, NextOfABatch
        <3>3. pos * Chunk + SizeToSend <= Payload
            BY <1>2, <1>3, <1>5, <1>8, <2>3, <3>2
        <3>4. ~(pos * Chunk + SizeToSend > Payload) /\ ~(pos < 0)
            BY <1>2, <1>3, <1>5, <3>3
        <3> QED
            BY <3>4 DEF ReadsOutside
    <2> QED
        BY <2>1, <2>2, <2>3 DEF Sending
<1> QED
    BY <1>1, <1>6, <1>8 DEF SentExactly

(***************************************************************************)
(* So nothing brings the server down: a request is carried out once, with  *)
(* the numbers it brought, and what is read for it is there.               *)
(***************************************************************************)
LEMMA UpStep ==
    ASSUME SessionInv, MarksInv, AgreementInv, LockInv, AudioInv, SentInv,
           ForeseenInv, UpInv, [Next]_vars
    PROVE  UpInv'
<1>1. ServerTypeOK /\ ClientTypeOK /\ PromptInv
    BY DEF SessionInv, TypeOK, LockInv
<1>2. CASE ServerStep
    <2>1. OnlyAsked
        BY <1>2, NothingElseAsked DEF ServerStep
    <2>2. CASE RejectStranger \/ EndStream \/ HandleACK \/ HandleQTY
        BY <2>2 DEF RejectStranger, EndStream, HandleACK, HandleQTY,
           ServerReceives, AnswerFlag, UpInv, Sending
    <2>3. CASE HandleRR
        <3>1. sPc' = "batch" /\ UNCHANGED musicPtr
            BY <2>3, BatchStarts
        <3>2. musicPtr = Len(heard) /\ Len(heard) \in Nat
            <4>1. ~Stranger /\ Between /\ sPc = "receive"
                BY <2>3, BatchStarts DEF Between, BatchPending
            <4> QED
                BY <1>1, <4>1, LenProperties
                DEF LockInv, PlaceInv, BetweenBatches, ClientTypeOK
        <3> QED
            BY <3>1, <3>2 DEF UpInv
    <2>4. CASE HandleREJ
        <3>1. sPc' = "resend" /\ task' = "FAULTY" /\ musicPtr' = Len(heard)
            BY <2>4, ResendStarts DEF HandleREJ
        <3>2. Len(heard) \in Nat
            BY <1>1, LenProperties DEF ClientTypeOK
        <3> QED
            BY <3>1, <3>2 DEF UpInv
    <2>5. CASE SendPacket
        BY <2>5 DEF SendPacket, UpInv, Sending
    <2>6. CASE SendCrash
        <3>1. PICK n \in NextToSend : ReadsOutside(n) \/ Wraps(MusicPacket(n))
            BY <2>6 DEF SendCrash
        <3>2. Sending /\ n \in Nat /\ bytesSent <= Payload
            BY <1>1, <2>6
            DEF SendCrash, Sending, NextToSend, ServerTypeOK, ForeseenInv
        <3>3. Reorder /\ stage = "FINAL"
            BY <1>1, <3>1, <3>2, SizeLeaves, ReadsInside
        <3> QED
            BY <2>6, <3>3 DEF SendCrash, Crash, slotVars, UpInv, Sending
    <2>7. CASE FinishBatch
        BY <2>7 DEF FinishBatch, UpInv, Sending
    <2>8. CASE FinishResend
        <3>1. task # "junk"
            BY <2>8 DEF FinishResend, UpInv
        <3> QED
            BY <2>8, <3>1 DEF FinishResend, UpInv, Sending
    <2>9. CASE NobodyListens
        BY <2>9 DEF NobodyListens, serverVars, slotVars, UpInv, Sending
    <2> QED
        BY <2>1, <2>2, <2>3, <2>4, <2>5, <2>6, <2>7, <2>8, <2>9
        DEF OnlyAsked, SendStep
<1>3. CASE ~ServerStep
    <2>1. UNCHANGED <<sPc, task, musicPtr, stage>>
        BY <1>3, ServerOrClient DEF ServerRests, vars, serverVars, slotVars
    <2> QED
        BY <2>1 DEF UpInv, Sending
<1> QED
    BY <1>2, <1>3

(***************************************************************************)
(* ... and the server's process is still there, unless the shuffle of a    *)
(* last batch ends it: it reads no music from outside the file (send.c,    *)
(* prepare_intermediate and prepare_final) and carries out no task twice   *)
(* or without its argument (receive.c).                                    *)
(***************************************************************************)
THEOREM OnlyRaisesCrash ==
    ASSUME RequestsArrive
    PROVE  Spec => OnlyRaisesBringItDown
<1>1. CASE Payload >= Chunk * Packets[InitialQuality]
    <2>1. Init => UpInv
        BY DEF Init, ServerInit, UpInv, Sending
    <2>2. SessionInv /\ MarksInv /\ AgreementInv /\ LockInv /\ AudioInv
          /\ SentInv /\ ForeseenInv /\ UpInv /\ [Next]_vars => UpInv'
        BY UpStep
    <2>3. UpInv => (sPc = "down" => Reorder /\ stage = "FINAL")
        BY DEF UpInv
    <2> QED
        BY <1>1, <2>1, <2>2, <2>3, SentHolds, ForeseenHolds, PTL
        DEF Spec, OnlyRaisesBringItDown
<1>2. CASE ~(Payload >= Chunk * Packets[InitialQuality])
    BY <1>2, PTL DEF OnlyRaisesBringItDown
<1> QED
    BY <1>1, <1>2
=============================================================================
