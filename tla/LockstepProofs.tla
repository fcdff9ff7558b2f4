---------------------------- MODULE LockstepProofs ----------------------------
(***************************************************************************)
(* With requests that arrive and answers that are prompt the two sides     *)
(* keep step: for every file, table of batch sizes, buffer and number of   *)
(* lost and corrupted replies.                                             *)
(***************************************************************************)
EXTENDS SessionProofs

(***************************************************************************)
(* What is asked of the budgets: requests arrive, intact and in order, no  *)
(* timeout comes too early and the timer drops nobody.  Replies may be     *)
(* lost and corrupted as often as the network likes.                       *)
(***************************************************************************)
Withheld == {"loseRequest", "badRequest", "delay", "late", "expire"}

RequestsArrive == \A b \in Budgets : \A k \in Withheld : b[k] = 0

PromptInv ==
    /\ \A k \in Withheld : budget[k] = 0
    /\ delayed = {} /\ ~overtaken
    /\ sPc # "swallow"
    /\ Sending => ~Stranger
    /\ ~Sending => todo = {}

(***************************************************************************)
(* What may be under way: nothing; a question about the connection or the  *)
(* quality, or its answer; ...                                             *)
(***************************************************************************)
Idle == c2s = <<>> /\ todo = {}

Quiet == Idle /\ s2c = <<>>

Asked(flag) ==
    \/ c2s = <<RequestOf(flag, cQuality, {})>> /\ s2c = <<>> /\ todo = {}
    \/ Idle /\ Len(s2c) <= 1

(***************************************************************************)
(* ... a request for music; ...                                            *)
(***************************************************************************)
BatchAsked ==
    /\ cPc = "peek" /\ s2c = <<>> /\ todo = {}
    /\ \/ c2s = <<RequestOf("RR", cBatch, {})>> /\ count = 0
       \/ c2s = <<RequestOf("REJ", cBatch, Missing)>>

(***************************************************************************)
(* ... the answer to it, of which a part may still have to be sent:        *)
(* packets of the batch that have not been received, each once, and no     *)
(* more of them than there will be receives; ...                           *)
(***************************************************************************)
Flying(q, rest, wanted) ==
    /\ \A i \in 1..Len(q) : q[i].flag = "NONE" /\ q[i].nr \in wanted \ rest
    /\ \A i, j \in 1..Len(q) : i < j => q[i].nr # q[j].nr

Receives == IF cPc = "peek" THEN PerBatchC - count ELSE limit - iter

Flight ==
    /\ c2s = <<>>
    /\ todo \subseteq Unmarked
    /\ Flying(s2c, todo, Unmarked)
    /\ Len(s2c) + Cardinality(todo) <= Receives

(***************************************************************************)
(* ... or the end of the stream.                                           *)
(***************************************************************************)
EndSent == Idle /\ Len(s2c) = 1 /\ Head(s2c).flag = "EOS"

(***************************************************************************)
(* The server has not begun with the batch the client has asked for.       *)
(***************************************************************************)
BatchPending == cPc = "peek" /\ c2s # <<>> /\ Head(c2s).flag = "RR"

Between ==
    \/ cPc \in {"connect", "connack", "request",
                "adjust", "qpeek", "qsend", "qack"}
    \/ BatchPending

Within == Collecting /\ ~BatchPending

TrafficInv ==
    /\ cPc \in {"connect", "request", "check", "qsend"} => Quiet /\ ~eos
    /\ cPc \in {"adjust", "qpeek"} =>
          IF eos THEN EndSent /\ Intact(s2c) ELSE Quiet
    /\ cPc = "connack" => Asked("ACK") /\ ~eos
    /\ cPc = "qack" => Asked("QTY") /\ ~eos
    /\ cPc \in {"peek", "collect"} =>
          (BatchAsked \/ Flight \/ EndSent) /\ ~eos
    /\ cPc \in {"drain", "done", "exited"} => Idle
    /\ cPc = "crashed" => c2s = <<>>

(***************************************************************************)
(* Where the two sides are.                                                *)
(***************************************************************************)
BetweenBatches ==
    /\ sPc = "receive" => sBatch = cBatch /\ musicPtr = Len(heard)
    /\ sPc = "batch" =>
          sBatch + 1 = cBatch /\ musicPtr + PerBatch = Len(heard)
    /\ sPc = "resend" => sBatch = cBatch /\ musicPtr + PerBatch = Len(heard)

WithinABatch ==
    /\ sPc # "down" => stage # "INITIAL"
    /\ sPc = "receive" =>
          sBatch = cBatch + 1 /\ musicPtr = Len(heard) + PerBatch
    /\ sPc = "batch" => sBatch = cBatch /\ musicPtr = Len(heard)
    /\ sPc = "resend" => sBatch = cBatch + 1 /\ musicPtr = Len(heard)

PlaceInv ==
    /\ ~Stranger /\ Between => BetweenBatches
    /\ ~Stranger /\ Within => WithinABatch
    /\ cPc = "crashed" /\ sPc = "resend" => musicPtr = Len(heard)

LockInv == PromptInv /\ TrafficInv /\ PlaceInv /\ CountMatchesReceived

-----------------------------------------------------------------------------
(***************************************************************************)
(* Queues of one datagram.                                                 *)
(***************************************************************************)
LEMMA Single ==
    ASSUME NEW m
    PROVE  /\ <<m>> # <<>> /\ Len(<<m>>) = 1 /\ <<m>>[1] = m
           /\ Head(<<m>>) = m /\ Tail(<<m>>) = <<>>
OBVIOUS

LEMMA AppendToNone ==
    ASSUME NEW m
    PROVE  Append(<<>>, m) = <<m>>
OBVIOUS

LEMMA TailOfOne ==
    ASSUME NEW M, NEW q \in Seq(M), q # <<>>
    PROVE  /\ Len(q) \in Nat \ {0} /\ Len(Tail(q)) = Len(q) - 1
           /\ Len(q) <= 1 => Tail(q) = <<>>
           /\ Tail(q) \in Seq(M)
<1>1. Len(q) \in Nat \ {0} /\ Len(Tail(q)) = Len(q) - 1 /\ Tail(q) \in Seq(M)
    BY EmptySeq, HeadTailProperties
<1>2. ASSUME Len(q) <= 1 PROVE Tail(q) = <<>>
    BY <1>1, <1>2, EmptySeq
<1> QED
    BY <1>1, <1>2

(***************************************************************************)
(* What com_send and com_receive do under these budgets.                   *)
(***************************************************************************)
LEMMA RequestGoesOut ==
    ASSUME PromptInv, NEW m, ToServer(m)
    PROVE  c2s' = Append(c2s, m) /\ UNCHANGED budget
<1>1. ~Spend("loseRequest") /\ ~Spend("badRequest")
    BY DEF PromptInv, Withheld, Spend
<1> QED
    BY <1>1 DEF ToServer

LEMMA ReplyGoesOut ==
    ASSUME QueueTypeOK, PromptInv, NEW m \in Reply,
           ToClient(m) \/ Leaves(m)
    PROVE  /\ \A k \in Withheld : budget'[k] = 0
           /\ \/ s2c' = s2c
              \/ \E e \in Reply : /\ e.flag = m.flag /\ e.nr = m.nr
                                  /\ s2c' = Append(s2c, e)
<1>1. \A k \in Withheld : budget[k] = 0
    BY DEF PromptInv
<1>2. \A k \in {"loseReply", "badReply"} :
         Spend(k) => \A j \in Withheld : budget'[j] = 0
    BY <1>1 DEF Spend, Withheld, QueueTypeOK, Disturbances
<1>3. \A f \in Fits : /\ [m EXCEPT !.fit = f] \in Reply
                      /\ [m EXCEPT !.fit = f].flag = m.flag
                      /\ [m EXCEPT !.fit = f].nr = m.nr
    BY DEF Reply
<1>4. CASE \/ s2c' = Append(s2c, m) /\ UNCHANGED budget
           \/ UNCHANGED <<s2c, budget>>
    BY <1>1, <1>4
<1>5. CASE Spend("loseReply") /\ UNCHANGED s2c
    BY <1>2, <1>5
<1>6. CASE \E f \in Fits \ {"ok"} :
              Spend("badReply") /\ s2c' = Append(s2c, [m EXCEPT !.fit = f])
    BY <1>2, <1>3, <1>6
<1>7. CASE s2c' = Append(s2c, [m EXCEPT !.fit = "head"]) /\ UNCHANGED budget
    BY <1>1, <1>3, <1>7 DEF Fits
<1> QED
    BY <1>4, <1>5, <1>6, <1>7 DEF ToClient, Leaves

LEMMA TimeoutIsSilence ==
    ASSUME PromptInv, TimesOut(ServerSilent)
    PROVE  /\ c2s = <<>> /\ s2c = <<>> /\ todo = {}
           /\ UNCHANGED <<c2s, s2c, budget>>
BY DEF PromptInv, Withheld, TimesOut, Spend, ServerSilent, Sending

-----------------------------------------------------------------------------
(***************************************************************************)
(* A request the server finds is the one the client waits for.             *)
(***************************************************************************)
LEMMA WhoAsks ==
    ASSUME TrafficInv, ClientTypeOK, c2s # <<>>
    PROVE  /\ s2c = <<>> /\ todo = {} /\ Intact(c2s) /\ Tail(c2s) = <<>>
           /\ \/ cPc = "connack" /\ Head(c2s) = RequestOf("ACK", cQuality, {})
              \/ cPc = "qack" /\ Head(c2s) = RequestOf("QTY", cQuality, {})
              \/ /\ cPc = "peek" /\ count = 0
                 /\ Head(c2s) = RequestOf("RR", cBatch, {})
              \/ cPc = "peek" /\ Head(c2s) = RequestOf("REJ", cBatch, Missing)
<1>1. cPc \in {"connack", "qack", "peek", "collect"}
    BY DEF TrafficInv, Quiet, Idle, EndSent, ClientTypeOK, ClientPcs
<1>0. ASSUME NEW m, m.fit = "ok", c2s = <<m>>
      PROVE  Intact(c2s) /\ Tail(c2s) = <<>> /\ Head(c2s) = m
    BY <1>0, Single DEF Intact
<1>5. \A flag, arg, list : RequestOf(flag, arg, list).fit = "ok"
    BY DEF RequestOf
<1>2. CASE cPc = "connack"
    BY <1>0, <1>2, <1>5 DEF TrafficInv, Asked, Idle
<1>3. CASE cPc = "qack"
    BY <1>0, <1>3, <1>5 DEF TrafficInv, Asked, Idle
<1>4. CASE cPc \in {"peek", "collect"}
    BY <1>0, <1>4, <1>5 DEF TrafficInv, BatchAsked, Flight, EndSent, Idle
<1> QED
    BY <1>1, <1>2, <1>3, <1>4

(***************************************************************************)
(* What the agreement on the quality gives while a client is served.       *)
(***************************************************************************)
LEMMA Agreed ==
    ASSUME AgreementInv, PromptInv, ~Stranger
    PROVE  /\ cPc \in {"connect", "connack"} => (inUse => stage = "INITIAL")
           /\ cPc \in {"qpeek", "qsend", "qack"} => inUse
           /\ cPc \in Settled => inUse /\ sQuality = cQuality
BY DEF AgreementInv, PromptInv, OrderInv, ConnectOrder, ChangeOrder,
       SettledOrder, Stranger

LEMMA FewUnmarked ==
    ASSUME ClientTypeOK
    PROVE  IsFiniteSet(Unmarked)
<1>1. PerBatchC - 1 \in Int /\ 0 \in Int
    BY BatchBounds DEF ClientTypeOK
<1>2. IsFiniteSet(0..(PerBatchC - 1))
    BY <1>1, FS_Interval
<1> QED
    BY <1>2, FS_Subset DEF Unmarked

-----------------------------------------------------------------------------
(***************************************************************************)
(* The server.                                                             *)
(***************************************************************************)
ClientRests == UNCHANGED <<clientVars, delayed, overtaken>>

LEMMA ClientStays ==
    ASSUME ClientRests
    PROVE  /\ UNCHANGED <<cPc, eos, cBatch, cQuality, have, count, iter, limit,
                          heard, delayed, overtaken>>
           /\ PerBatchC' = PerBatchC /\ Unmarked' = Unmarked
           /\ Receives' = Receives
BY DEF ClientRests, clientVars, qualityVars, batchVars, PerBatchC, Unmarked,
       Receives

LEMMA NothingFlies ==
    ASSUME Idle', s2c' = <<>>, Receives' \in Nat
    PROVE  Flight'
<1>1. Len(s2c') = 0 /\ Cardinality(todo') = 0 /\ todo' = {}
    BY EmptySeq, FS_EmptySet DEF Idle
<1> QED
    BY <1>1 DEF Idle, Flight, Flying

LEMMA StillToReceive ==
    ASSUME ClientTypeOK, BatchInv, cPc \in {"peek", "collect"}
    PROVE  Receives \in Nat \ {0}
BY BatchBounds DEF ClientTypeOK, BatchInv, Receives

(***************************************************************************)
(* A request that is answered with one flag, or with nothing any more.     *)
(***************************************************************************)
LEMMA AnswerKeepsTraffic ==
    ASSUME SessionInv, LockInv, ClientRests, c2s # <<>>, c2s' = Tail(c2s),
           UNCHANGED todo,
           \/ s2c' = <<>>
           \/ \E e \in Reply :
                 /\ s2c' = <<e>>
                 /\ e.flag = "EOS" \/ cPc \in {"connack", "qack"}
    PROVE  TrafficInv'
<1>1. ClientTypeOK /\ BatchInv /\ TrafficInv
    BY DEF SessionInv, TypeOK, LockInv
<1>2. Idle' /\ cPc \in {"connack", "qack", "peek"}
    BY <1>1, WhoAsks DEF Idle
<1>3. Len(s2c') <= 1
    <2>1. CASE s2c' = <<>>
        BY <2>1, EmptySeq
    <2>2. CASE s2c' # <<>>
        <3>1. PICK e \in Reply : s2c' = <<e>>
            BY <2>2
        <3>2. Len(<<e>>) = 1
            BY Single
        <3> QED
            BY <3>1, <3>2
    <2> QED
        BY <2>1, <2>2
<1>4. CASE cPc \in {"connack", "qack"}
    BY <1>1, <1>2, <1>3, <1>4, ClientStays DEF TrafficInv, Asked
<1>5. CASE cPc = "peek"
    <2>1. Receives' \in Nat
        BY <1>1, <1>5, StillToReceive, ClientStays
    <2>2. CASE s2c' = <<>>
        BY <1>1, <1>2, <1>5, <2>1, <2>2, NothingFlies, ClientStays
        DEF TrafficInv
    <2>3. CASE \E e \in Reply : s2c' = <<e>> /\ e.flag = "EOS"
        <3>1. EndSent'
            BY <1>2, <2>3, Single DEF EndSent
        <3> QED
            BY <1>1, <1>5, <3>1, ClientStays DEF TrafficInv
    <2> QED
        BY <1>5, <2>2, <2>3
<1> QED
    BY <1>2, <1>4, <1>5

LEMMA EndKeepsLock ==
    ASSUME SessionInv, LockInv, ClientRests, RejectStranger \/ EndStream
    PROVE  PromptInv' /\ TrafficInv' /\ PlaceInv'
<1>1. QueueTypeOK /\ ClientTypeOK /\ TrafficInv /\ PromptInv /\ SlotInv
    BY DEF SessionInv, TypeOK, NetTypeOK, LockInv
<1>2. /\ c2s # <<>> /\ c2s' = Tail(c2s) /\ sPc = "receive"
      /\ UNCHANGED <<sPc, todo>> /\ ToClient(FlagOnly("EOS"))
    BY DEF RejectStranger, EndStream, ServerReceives, AfterReceive, AnswerFlag
<1>3. FlagOnly("EOS") \in Reply /\ FlagOnly("EOS").flag = "EOS"
    BY DEF FlagOnly, Reply, Codecs, Fits
<1>4. s2c = <<>>
    BY <1>1, <1>2, WhoAsks
<1>5. /\ \A k \in Withheld : budget'[k] = 0
      /\ \/ s2c' = <<>>
         \/ \E e \in Reply : e.flag = "EOS" /\ s2c' = <<e>>
    BY <1>1, <1>2, <1>3, <1>4, ReplyGoesOut, AppendToNone
<1>6. Stranger'
    BY <1>1 DEF RejectStranger, EndStream, slotVars, Stranger, Stage, SlotInv
<1>7. PromptInv'
    BY <1>1, <1>2, <1>5, ClientStays DEF PromptInv, Sending
<1>8. TrafficInv'
    BY <1>2, <1>5, AnswerKeepsTraffic
<1>9. PlaceInv'
    BY <1>2, <1>6 DEF PlaceInv
<1> QED
    BY <1>7, <1>8, <1>9

LEMMA AnswerKeepsLock ==
    ASSUME SessionInv, AgreementInv, LockInv, ClientRests, HandleACK \/ HandleQTY
    PROVE  PromptInv' /\ TrafficInv' /\ PlaceInv'
<1>1. QueueTypeOK /\ ClientTypeOK /\ TrafficInv /\ PromptInv /\ PlaceInv
    BY DEF SessionInv, TypeOK, NetTypeOK, LockInv
<1>2. /\ c2s # <<>> /\ c2s' = Tail(c2s) /\ sPc = "receive" /\ ~Stranger
      /\ UNCHANGED <<sPc, todo, sBatch, musicPtr>>
      /\ ToClient(FlagOnly("ACK")) /\ Head(c2s).flag \in {"ACK", "QTY"}
    BY DEF HandleACK, HandleQTY, ServerReceives, AfterReceive, AnswerFlag
<1>3. FlagOnly("ACK") \in Reply
    BY DEF FlagOnly, Reply, Codecs, Fits
<1>4. s2c = <<>> /\ cPc \in {"connack", "qack"}
    BY <1>1, <1>2, WhoAsks DEF RequestOf
<1>5. /\ \A k \in Withheld : budget'[k] = 0
      /\ s2c' = <<>> \/ \E e \in Reply : s2c' = <<e>>
    BY <1>1, <1>2, <1>3, <1>4, ReplyGoesOut, AppendToNone
<1>6. PromptInv'
    BY <1>1, <1>2, <1>5, ClientStays DEF PromptInv, Sending
<1>7. TrafficInv'
    BY <1>2, <1>4, <1>5, AnswerKeepsTraffic
<1>8. BetweenBatches
    BY <1>1, <1>2, <1>4 DEF PlaceInv, Between
<1>9. PlaceInv'
    BY <1>2, <1>4, <1>8, ClientStays
    DEF PlaceInv, Between, Within, Collecting, BetweenBatches
<1> QED
    BY <1>6, <1>7, <1>9

(***************************************************************************)
(* A batch begins when it is the one the client waits for, and fits into   *)
(* the receives it will do.                                                *)
(***************************************************************************)
LEMMA BatchStarts ==
    ASSUME SessionInv, MarksInv, AgreementInv, LockInv, HandleRR
    PROVE  /\ sPc' = "batch" /\ ~Stranger /\ inUse' /\ stage' # "INITIAL"
           /\ cPc = "peek" /\ count = 0 /\ have = {}
           /\ Head(c2s).flag = "RR" /\ c2s # <<>> /\ c2s' = <<>>
           /\ s2c = <<>> /\ sPc = "receive" /\ counted'
           /\ PerBatch = PerBatchC /\ PerBatchC \in Nat \ {0}
           /\ todo' = 0..(PerBatchC - 1) /\ Cardinality(todo') = PerBatchC
           /\ UNCHANGED <<s2c, budget, sBatch, sQuality, musicPtr, bytesSent>>
<1>1. /\ ServerTypeOK /\ ClientTypeOK /\ BatchInv
      /\ TrafficInv /\ PromptInv /\ PlaceInv /\ CountMatchesReceived
    BY DEF SessionInv, TypeOK, LockInv
<1>2. /\ c2s # <<>> /\ c2s' = Tail(c2s) /\ sPc = "receive" /\ ~Stranger
      /\ Head(c2s).flag = "RR" /\ sPc' = "batch" /\ counted'
      /\ todo' = 0..(PerBatch - 1) /\ stage' # "INITIAL" /\ inUse'
      /\ UNCHANGED <<s2c, budget, sBatch, sQuality, musicPtr, bytesSent>>
    BY DEF HandleRR, ServerReceives, AfterReceive, StartBatch, Register, Stage
<1>3. cPc = "peek" /\ count = 0 /\ s2c = <<>> /\ c2s' = <<>>
    BY <1>1, <1>2, WhoAsks DEF RequestOf
<1>4. PerBatch = PerBatchC /\ PerBatchC \in Nat \ {0} /\ have = {}
    <2>1. sQuality = cQuality
        BY <1>1, <1>2, <1>3, Agreed DEF Settled
    <2>2. PerBatchC \in Nat \ {0}
        BY <1>1, BatchBounds DEF ClientTypeOK
    <2>3. IsFiniteSet(have) /\ Cardinality(have) = 0
        BY <1>1, <1>3 DEF CountMatchesReceived, MarksInv
    <2> QED
        BY <2>1, <2>2, <2>3, FS_EmptySet DEF PerBatch, PerBatchC
<1>5. Cardinality(todo') = PerBatchC
    <2>1. PerBatchC - 1 \in Int /\ 0 \in Int
        BY <1>4
    <2>2. Cardinality(0..(PerBatchC - 1))
            = IF 0 > PerBatchC - 1 THEN 0 ELSE PerBatchC - 1 - 0 + 1
        BY <2>1, FS_Interval
    <2> QED
        BY <1>2, <1>4, <2>2
<1> QED
    BY <1>2, <1>3, <1>4, <1>5

LEMMA BatchKeepsLock ==
    ASSUME SessionInv, MarksInv, AgreementInv, LockInv, ClientRests, HandleRR
    PROVE  PromptInv' /\ TrafficInv' /\ PlaceInv'
<1>1. /\ ServerTypeOK /\ ClientTypeOK /\ BatchInv
      /\ TrafficInv /\ PromptInv /\ PlaceInv /\ CountMatchesReceived
    BY DEF SessionInv, TypeOK, LockInv
<1>2. Unmarked = 0..(PerBatchC - 1) /\ Receives = PerBatchC
    BY BatchStarts DEF Unmarked, Receives
<1>3. Flight'
    <2>1. Len(s2c') = 0
        BY BatchStarts, EmptySeq
    <2>2. Flying(s2c', todo', Unmarked')
        BY <2>1 DEF Flying
    <2> QED
        BY <1>2, <2>1, <2>2, BatchStarts, ClientStays DEF Flight
<1>4. PromptInv'
    BY <1>1, BatchStarts, ClientStays DEF PromptInv, Sending, Stranger
<1>5. TrafficInv'
    BY <1>1, <1>3, BatchStarts, ClientStays DEF TrafficInv
<1>6. BetweenBatches
    BY <1>1, BatchStarts DEF PlaceInv, Between, BatchPending
<1>7. PlaceInv'
    BY <1>6, BatchStarts, ClientStays
    DEF PlaceInv, Between, BatchPending, BetweenBatches, WithinABatch
<1> QED
    BY <1>4, <1>5, <1>7

(***************************************************************************)
(* A REJ is served from where the client's music ends, with as many        *)
(* packets as the client will wait for.                                    *)
(***************************************************************************)
LEMMA ResendStarts ==
    ASSUME SessionInv, AgreementInv, LockInv, HandleREJ
    PROVE  /\ sPc = "receive" /\ sPc' = "resend" /\ ~Stranger /\ ~counted'
           /\ cPc = "peek" /\ s2c = <<>> /\ c2s' = <<>> /\ todo' = Missing
           /\ stage # "INITIAL" /\ sBatch = cBatch + 1
           /\ musicPtr = Len(heard) + PerBatch /\ musicPtr' = Len(heard)
           /\ UNCHANGED <<s2c, budget, seen, inUse, stage, sBatch, sQuality,
                          bytesSent>>
<1>1. /\ ServerTypeOK /\ ClientTypeOK /\ BatchInv
      /\ TrafficInv /\ PromptInv /\ PlaceInv
    BY DEF SessionInv, TypeOK, LockInv
<1>2. /\ c2s # <<>> /\ c2s' = Tail(c2s) /\ sPc = "receive" /\ ~Stranger
      /\ Head(c2s).flag = "REJ" /\ stage # "INITIAL" /\ inUse
      /\ StartResend(Head(c2s).arg, Head(c2s).list)
      /\ UNCHANGED <<seen, inUse, stage>>
    BY DEF HandleREJ, ServerReceives, AfterReceive, Stage
<1>3. /\ cPc = "peek" /\ s2c = <<>> /\ c2s' = <<>>
      /\ Head(c2s).arg = cBatch /\ Head(c2s).list = Missing
    BY <1>1, <1>2, WhoAsks DEF RequestOf
<1>4. sBatch = cBatch + 1 /\ musicPtr = Len(heard) + PerBatch
    BY <1>1, <1>2, <1>3
    DEF PlaceInv, Within, Collecting, BatchPending, WithinABatch
<1>5. cBatch \in Nat /\ Len(heard) \in Nat /\ PerBatch \in Nat
    BY <1>1, PerBatchType, LenProperties DEF ClientTypeOK
<1>6. /\ sPc' = "resend" /\ todo' = Missing /\ sBatch' = sBatch /\ ~counted'
      /\ musicPtr' = musicPtr - PerBatch
      /\ UNCHANGED <<sQuality, bytesSent, s2c, budget>>
    <2>1. cBatch - 1 # sBatch
        BY <1>4, <1>5
    <2> QED
        BY <1>2, <1>3, <2>1 DEF StartResend
<1>7. musicPtr' = Len(heard)
    BY <1>4, <1>5, <1>6
<1> QED
    BY <1>2, <1>3, <1>4, <1>6, <1>7

LEMMA ResendKeepsLock ==
    ASSUME SessionInv, MarksInv, AgreementInv, LockInv, ClientRests, HandleREJ
    PROVE  PromptInv' /\ TrafficInv' /\ PlaceInv'
<1>1. /\ ServerTypeOK /\ ClientTypeOK /\ BatchInv
      /\ TrafficInv /\ PromptInv /\ PlaceInv
    BY DEF SessionInv, TypeOK, LockInv
<1>2. Flight'
    <2>1. count \in Nat /\ PerBatchC \in Nat /\ count <= PerBatchC
        BY <1>1, ResendStarts, BatchBounds DEF ClientTypeOK, BatchInv
    <2>2. Cardinality(todo') = PerBatchC - count
        BY <1>1, <2>1, ResendStarts, RestIsListed
    <2>3. Len(s2c') = 0
        BY ResendStarts, EmptySeq
    <2>4. Flying(s2c', todo', Unmarked')
        BY <2>3 DEF Flying
    <2>5. todo' \subseteq Unmarked
        BY ResendStarts DEF Missing
    <2> QED
        BY <2>1, <2>2, <2>3, <2>4, <2>5, ResendStarts, ClientStays
        DEF Flight, Receives
<1>3. PromptInv'
    BY <1>1, ResendStarts, ClientStays DEF PromptInv, Sending, Stranger
<1>4. TrafficInv'
    BY <1>1, <1>2, ResendStarts, ClientStays DEF TrafficInv
<1>5. PlaceInv'
    BY ResendStarts, ClientStays
    DEF PlaceInv, Between, BatchPending, WithinABatch
<1> QED
    BY <1>3, <1>4, <1>5

(***************************************************************************)
(* Every packet that is sent is one that is still wanted, and leaves one   *)
(* less to send.                                                           *)
(***************************************************************************)
LEMMA PacketKeepsFlying ==
    ASSUME NEW q \in Seq(Reply), NEW rest, NEW wanted, NEW n \in rest,
           Flying(q, rest, wanted), rest \subseteq wanted
    PROVE  /\ Flying(q, rest \ {n}, wanted)
           /\ \A e \in Reply : e.flag = "NONE" /\ e.nr = n
                 => Flying(Append(q, e), rest \ {n}, wanted)
<1>1. Flying(q, rest \ {n}, wanted)
    BY DEF Flying
<1>2. ASSUME NEW e \in Reply, e.flag = "NONE", e.nr = n
      PROVE  Flying(Append(q, e), rest \ {n}, wanted)
    <2>1. /\ Len(Append(q, e)) = Len(q) + 1
          /\ \A i \in 1..Len(q) : Append(q, e)[i] = q[i]
          /\ Append(q, e)[Len(q) + 1] = e
          /\ Len(q) \in Nat
        BY AppendProperties, LenProperties
    <2>2. \A i \in 1..Len(q) : q[i].nr # n
        BY DEF Flying
    <2>3. \A i \in 1..Len(Append(q, e)) : i \in 1..Len(q) \/ i = Len(q) + 1
        BY <2>1
    <2>4. \A i \in 1..Len(Append(q, e)) :
             /\ Append(q, e)[i].flag = "NONE"
             /\ Append(q, e)[i].nr \in wanted \ (rest \ {n})
        BY <1>2, <2>1, <2>3 DEF Flying
    <2>5. ASSUME NEW i \in 1..Len(Append(q, e)),
                 NEW j \in 1..Len(Append(q, e)), i < j
          PROVE  Append(q, e)[i].nr # Append(q, e)[j].nr
        <3>1. i \in 1..Len(q)
            BY <2>1, <2>5
        <3>2. CASE j \in 1..Len(q)
            BY <2>1, <2>5, <3>1, <3>2 DEF Flying
        <3>3. CASE j = Len(q) + 1
            BY <1>2, <2>1, <2>2, <3>1, <3>3
        <3> QED
            BY <2>3, <3>2, <3>3
    <2> QED
        BY <2>4, <2>5 DEF Flying
<1> QED
    BY <1>1, <1>2

LEMMA SendKeepsLock ==
    ASSUME SessionInv, LockInv, ClientRests, SendPacket
    PROVE  PromptInv' /\ TrafficInv' /\ PlaceInv'
<1>1. /\ QueueTypeOK /\ ServerTypeOK /\ ClientTypeOK /\ BatchInv
      /\ TrafficInv /\ PromptInv /\ PlaceInv
    BY DEF SessionInv, TypeOK, NetTypeOK, LockInv
<1>2. PICK n \in todo :
          /\ Sending /\ Leaves(MusicPacket(n))
          /\ todo' = todo \ {n}
          /\ UNCHANGED <<sPc, seen, inUse, stage, sBatch, sQuality, musicPtr,
                         c2s>>
    BY DEF SendPacket, NextToSend, Sending
<1>3. MusicPacket(n) \in Reply /\ MusicPacket(n).flag = "NONE"
      /\ MusicPacket(n).nr = n
    BY <1>1, MusicPacketType DEF ServerTypeOK, MusicPacket
<1>4. /\ \A k \in Withheld : budget'[k] = 0
      /\ \/ s2c' = s2c
         \/ \E e \in Reply : /\ e.flag = "NONE" /\ e.nr = n
                             /\ s2c' = Append(s2c, e)
    BY <1>1, <1>2, <1>3, ReplyGoesOut DEF PromptInv
<1>5. PromptInv'
    BY <1>1, <1>2, <1>4, ClientStays DEF PromptInv, Sending, Stranger
<1>6. /\ cPc \in {"peek", "collect", "crashed"}
      /\ cPc # "crashed" => Flight
    BY <1>1
    DEF TrafficInv, Quiet, Idle, EndSent, Asked, BatchAsked, ClientTypeOK,
        ClientPcs
<1>7. ASSUME Flight PROVE Flight'
    <2>1. s2c \in Seq(Reply) /\ todo \subseteq Unmarked
        BY <1>1, <1>7 DEF QueueTypeOK, Flight
    <2>2. Flying(s2c', todo', Unmarked)
        <3>1. /\ Flying(s2c, todo \ {n}, Unmarked)
              /\ \A e \in Reply : e.flag = "NONE" /\ e.nr = n
                    => Flying(Append(s2c, e), todo \ {n}, Unmarked)
            BY <1>7, <2>1, PacketKeepsFlying DEF Flight
        <3>2. CASE s2c' = s2c
            BY <1>2, <3>1, <3>2
        <3>3. CASE s2c' # s2c
            <4>1. PICK e \in Reply : /\ e.flag = "NONE" /\ e.nr = n
                                     /\ s2c' = Append(s2c, e)
                BY <1>4, <3>3
            <4> QED
                BY <1>2, <3>1, <4>1
        <3> QED
            BY <3>2, <3>3
    <2>3. IsFiniteSet(todo)
        BY <1>1, <2>1, FewUnmarked, FS_Subset
    <2>4. /\ Cardinality(todo') = Cardinality(todo) - 1
          /\ Cardinality(todo) \in Nat
        BY <1>2, <2>3, FS_RemoveElement, FS_CardinalityType
    <2>5. Len(s2c) \in Nat /\ Len(s2c') <= Len(s2c) + 1
          /\ Len(s2c') \in Nat
        <3>1. \A e \in Reply : Len(Append(s2c, e)) = Len(s2c) + 1
            BY <2>1, AppendProperties
        <3>2. Len(s2c) \in Nat
            BY <2>1, LenProperties
        <3> QED
            BY <1>4, <3>1, <3>2
    <2>6. Receives \in Int
        BY <1>1, BatchBounds DEF Receives, ClientTypeOK
    <2>7. Len(s2c') + Cardinality(todo') <= Receives
        BY <1>7, <2>4, <2>5, <2>6 DEF Flight
    <2> QED
        BY <1>2, <1>7, <2>1, <2>2, <2>7, ClientStays DEF Flight
<1>8. TrafficInv'
    BY <1>1, <1>2, <1>6, <1>7, ClientStays DEF TrafficInv
<1>9. PlaceInv'
    BY <1>1, <1>2, ClientStays
    DEF PlaceInv, Between, Within, Collecting, BatchPending, BetweenBatches,
        WithinABatch, PerBatch, Stranger
<1> QED
    BY <1>5, <1>8, <1>9

(***************************************************************************)
(* A batch or a resend that is over leaves both sides where they should    *)
(* be, and a process that is gone leaves nothing.                          *)
(***************************************************************************)
LEMMA LessTrafficKept ==
    ASSUME SessionInv, TrafficInv, ClientRests, UNCHANGED s2c,
           c2s' = c2s \/ c2s' = <<>>, todo' = todo \/ todo' = {}
    PROVE  TrafficInv'
<1>1. ClientTypeOK /\ BatchInv
    BY DEF SessionInv, TypeOK
<1>2. Idle => Idle'
    BY DEF Idle
<1>3. /\ Quiet => Quiet'
      /\ EndSent => EndSent'
      /\ \A flag : Asked(flag) => Asked(flag)'
    <2>1. ASSUME s2c = <<>> PROVE Len(s2c') <= 1
        BY <2>1, EmptySeq
    <2> QED
        BY <1>2, <2>1, ClientStays DEF Quiet, EndSent, Asked, Idle
<1>4. ASSUME Flight PROVE Flight'
    <2>1. todo' \subseteq todo /\ IsFiniteSet(todo)
        BY <1>1, <1>4, FewUnmarked, FS_Subset DEF Flight
    <2>2. /\ Cardinality(todo') <= Cardinality(todo)
          /\ Cardinality(todo') \in Nat /\ Cardinality(todo) \in Nat
        BY <2>1, FS_Subset, FS_CardinalityType
    <2>3. Len(s2c) \in Nat /\ Receives \in Int
        BY <1>1, BatchBounds, LenProperties
        DEF Receives, ClientTypeOK, SessionInv, TypeOK, NetTypeOK, QueueTypeOK
    <2>4. Flying(s2c', todo', Unmarked')
        BY <1>4, <2>1, ClientStays DEF Flight, Flying
    <2>5. Len(s2c') + Cardinality(todo') <= Receives'
        BY <1>4, <2>2, <2>3, ClientStays DEF Flight
    <2> QED
        BY <1>4, <2>1, <2>4, <2>5, ClientStays DEF Flight
<1>5. ASSUME BatchAsked PROVE BatchAsked' \/ Flight'
    <2>1. Missing' = Missing
        BY ClientStays DEF Missing
    <2>2. CASE c2s' = c2s
        BY <1>5, <2>1, <2>2, ClientStays DEF BatchAsked
    <2>3. CASE c2s' = <<>>
        <3>1. Receives' \in Nat
            BY <1>1, <1>5, StillToReceive, ClientStays DEF BatchAsked
        <3> QED
            BY <1>5, <2>3, <3>1, NothingFlies DEF BatchAsked, Idle
    <2> QED
        BY <2>2, <2>3
<1> QED
    BY <1>2, <1>3, <1>4, <1>5, ClientStays DEF TrafficInv, Intact

LEMMA RestKeepsLock ==
    ASSUME SessionInv, LockInv, ClientRests,
           SendCrash \/ FinishBatch \/ FinishResend \/ NobodyListens
    PROVE  PromptInv' /\ TrafficInv' /\ PlaceInv'
<1>1. /\ QueueTypeOK /\ ServerTypeOK /\ ClientTypeOK
      /\ TrafficInv /\ PromptInv /\ PlaceInv
    BY DEF SessionInv, TypeOK, NetTypeOK, LockInv
<1>2. /\ UNCHANGED <<s2c, budget, seen, inUse>>
      /\ c2s' = c2s \/ c2s' = <<>>
      /\ sPc' \in {"receive", "down"} /\ todo' = {}
    <2>1. CASE SendCrash
        BY <2>1 DEF SendCrash, Crash, slotVars
    <2>2. CASE FinishBatch
        BY <2>2 DEF FinishBatch, netVars
    <2>3. CASE FinishResend
        BY <2>3 DEF FinishResend, Crash, slotVars
    <2>4. CASE NobodyListens
        BY <1>1, <2>4
        DEF NobodyListens, serverVars, slotVars, PromptInv, Sending
    <2> QED
        BY <2>1, <2>2, <2>3, <2>4
<1>3. PromptInv'
    BY <1>1, <1>2, ClientStays DEF PromptInv, Sending, Stranger
<1>4. TrafficInv'
    BY <1>1, <1>2, LessTrafficKept
<1>5. CASE sPc' = "down"
    <2>1. BetweenBatches' /\ WithinABatch'
        BY <1>5 DEF BetweenBatches, WithinABatch
    <2> QED
        BY <1>3, <1>4, <1>5, <2>1 DEF PlaceInv
<1>6. CASE sPc' = "receive"
    <2>1. /\ c2s' = c2s /\ sBatch \in Nat /\ cBatch \in Nat
          /\ Len(heard) \in Nat /\ musicPtr \in Int /\ PerBatch \in Nat
          /\ sQuality' = sQuality
          /\ \/ sPc = "batch" /\ sBatch' = sBatch + 1
             \/ sPc = "resend" /\ sBatch' = sBatch
          /\ musicPtr' = musicPtr + PerBatch
          /\ stage # "INITIAL" => stage' # "INITIAL"
        BY <1>1, <1>2, <1>6, PerBatchType, LenProperties
        DEF SendCrash, FinishBatch, FinishResend, NobodyListens, Crash,
            serverVars, slotVars, ServerTypeOK, ClientTypeOK, netVars
    <2>2. /\ Between' = Between /\ Within' = Within
          /\ Stranger' = Stranger /\ PerBatch' = PerBatch
        BY <1>2, <2>1, ClientStays
        DEF Between, Within, BatchPending, Collecting, Stranger, PerBatch
    <2>3. ASSUME ~Stranger, Between PROVE BetweenBatches'
        BY <1>1, <1>6, <2>1, <2>2, <2>3, ClientStays
        DEF PlaceInv, BetweenBatches
    <2>4. ASSUME ~Stranger, Within PROVE WithinABatch'
        BY <1>1, <1>6, <2>1, <2>2, <2>4, ClientStays
        DEF PlaceInv, WithinABatch
    <2> QED
        <3>1. cPc' = "crashed" /\ sPc' = "resend" => FALSE
            BY <1>6
        <3> QED
            BY <1>3, <1>4, <2>2, <2>3, <2>4, <3>1 DEF PlaceInv
<1> QED
    BY <1>2, <1>3, <1>4, <1>5, <1>6

(***************************************************************************)
(* No request is faulty, none comes out of turn.                           *)
(***************************************************************************)
OnlyAsked ==
    \/ RejectStranger \/ EndStream \/ HandleACK \/ HandleQTY
    \/ HandleRR \/ HandleREJ \/ SendStep \/ NobodyListens

LEMMA NothingElseAsked ==
    ASSUME SessionInv, AgreementInv, LockInv, ServerNext
    PROVE  OnlyAsked
<1>1. ClientTypeOK /\ TrafficInv /\ PromptInv /\ PlaceInv
    BY DEF SessionInv, TypeOK, LockInv
<1>2. ~ReceiveFaulty /\ ~Swallow
    BY <1>1, WhoAsks DEF ReceiveFaulty, Swallow, PromptInv
<1>3. ~HandleFirstREJ
    <2> SUFFICES ASSUME HandleFirstREJ PROVE FALSE
        OBVIOUS
    <2>1. /\ c2s # <<>> /\ ~Stranger /\ Stage = "INITIAL"
          /\ Head(c2s).flag = "REJ" /\ sPc = "receive"
        BY DEF HandleFirstREJ, ServerReceives
    <2>2. cPc = "peek"
        BY <1>1, <2>1, WhoAsks DEF RequestOf
    <2>3. inUse
        BY <1>1, <2>1, <2>2, Agreed DEF Settled
    <2> QED
        BY <1>1, <2>1, <2>2, <2>3
        DEF Stage, PlaceInv, Within, Collecting, BatchPending, WithinABatch
<1>4. ~RepeatLastTask
    <2> SUFFICES ASSUME RepeatLastTask PROVE FALSE
        OBVIOUS
    <2>1. /\ c2s # <<>> /\ ~Stranger /\ Stage # "INITIAL"
          /\ Head(c2s).flag = "ACK"
        BY DEF RepeatLastTask, ServerReceives
    <2>2. cPc = "connack"
        BY <1>1, <2>1, WhoAsks DEF RequestOf
    <2> QED
        BY <1>1, <2>1, <2>2, Agreed DEF Stage
<1> QED
    BY <1>2, <1>3, <1>4 DEF OnlyAsked, ServerNext, ReceiveStep

LEMMA ServerKeepsLock ==
    ASSUME SessionInv, MarksInv, AgreementInv, LockInv, ServerStep
    PROVE  LockInv'
<1>1. ClientRests /\ ServerNext
    BY DEF ServerStep, ClientRests
<1>2. CountMatchesReceived'
    BY <1>1, ClientStays DEF LockInv, CountMatchesReceived
<1>3. PromptInv' /\ TrafficInv' /\ PlaceInv'
    BY <1>1, NothingElseAsked, EndKeepsLock, AnswerKeepsLock, BatchKeepsLock,
       ResendKeepsLock, SendKeepsLock, RestKeepsLock
    DEF OnlyAsked, SendStep
<1> QED
    BY <1>2, <1>3 DEF LockInv

-----------------------------------------------------------------------------
(***************************************************************************)
(* The client.                                                             *)
(***************************************************************************)
ServerRests == UNCHANGED <<serverVars, delayed, overtaken>>

LEMMA ServerStays ==
    ASSUME ServerRests
    PROVE  /\ UNCHANGED <<sPc, seen, inUse, stage, sBatch, sQuality, musicPtr,
                          todo, delayed, overtaken>>
           /\ Stranger' = Stranger /\ PerBatch' = PerBatch
           /\ PromptInv /\ (\A k \in Withheld : budget'[k] = 0) => PromptInv'
BY DEF ServerRests, serverVars, slotVars, Stranger, PerBatch, PromptInv, Sending

LEMMA PlaceKept ==
    ASSUME PlaceInv, ServerRests, UNCHANGED <<cBatch, heard>>,
           Between' => Between, Within' => Within,
           cPc' = "crashed" => Within \/ cPc = "crashed",
           PromptInv
    PROVE  PlaceInv'
<1>1. /\ BetweenBatches => BetweenBatches'
      /\ WithinABatch => WithinABatch'
    BY ServerStays DEF BetweenBatches, WithinABatch
<1>2. sPc = "resend" => ~Stranger
    BY DEF PromptInv, Sending
<1> QED
    BY <1>1, <1>2, ServerStays DEF PlaceInv, WithinABatch

(***************************************************************************)
(* What the client can see in each phase.                                  *)
(***************************************************************************)
LEMMA OneTaken ==
    ASSUME QueueTypeOK, ClientReceives(FALSE)
    PROVE  /\ s2c # <<>> /\ s2c' = Tail(s2c) /\ UNCHANGED <<c2s, budget>>
           /\ Len(s2c) <= 1 => s2c' = <<>>
BY TailOfOne DEF ClientReceives, AfterReceive, QueueTypeOK

LEMMA SendIsAlone ==
    ASSUME PromptInv, Quiet, ServerRests, NEW flag, NEW arg, NEW list,
           Sends(flag, arg, list)
    PROVE  /\ c2s' = <<RequestOf(flag, arg, list)>> /\ s2c' = <<>>
           /\ todo' = {} /\ UNCHANGED budget
<1>1. c2s' = Append(c2s, RequestOf(flag, arg, list)) /\ UNCHANGED <<budget, s2c>>
    BY RequestGoesOut DEF Sends
<1> QED
    BY <1>1, AppendToNone, ServerStays DEF Quiet, Idle

LEMMA ConnectKeepsLock ==
    ASSUME SessionInv, LockInv, ServerRests, ConnectStep(ServerSilent)
    PROVE  PromptInv' /\ TrafficInv' /\ PlaceInv'
<1>1. /\ QueueTypeOK /\ ClientTypeOK /\ TrafficInv /\ PromptInv /\ PlaceInv
      /\ \A k \in Withheld : budget[k] = 0
    BY DEF SessionInv, TypeOK, NetTypeOK, LockInv, PromptInv
<1>2. /\ cPc \in {"connect", "connack"}
      /\ cPc' \in {"connect", "connack", "request", "exited"}
      /\ UNCHANGED <<eos, cBatch, cQuality, heard>>
    BY DEF ConnectStep, Connect, Connected, ConnectFaulty, ConnectFails,
           Plays, qualityVars
<1>3. ~eos /\ todo = {}
    BY <1>1, <1>2 DEF TrafficInv, Quiet, Idle, Asked
<1>4. CASE Connect
    <2>1. /\ c2s' = <<RequestOf("ACK", cQuality, {})>> /\ s2c' = <<>>
          /\ todo' = {} /\ UNCHANGED budget /\ cPc' = "connack"
        BY <1>1, <1>4, SendIsAlone DEF Connect, TrafficInv
    <2>2. TrafficInv'
        BY <1>2, <1>3, <2>1 DEF TrafficInv, Asked
    <2>3. PromptInv'
        BY <1>1, <2>1, ServerStays
    <2>4. PlaceInv'
        BY <1>1, <1>2, <2>1, PlaceKept DEF Between, Within, Collecting
    <2> QED
        BY <2>2, <2>3, <2>4
<1>5. CASE ~Connect
    <2>1. cPc = "connack" /\ cPc' \in {"connect", "request", "exited"}
          /\ (ClientReceives(FALSE) \/ TimesOut(ServerSilent))
        BY <1>5 DEF ConnectStep, Connected, ConnectFaulty, ConnectFails, Plays
    <2>2. c2s' = <<>> /\ s2c' = <<>> /\ UNCHANGED budget
        <3>1. CASE TimesOut(ServerSilent)
            BY <1>1, <3>1, TimeoutIsSilence
        <3>2. CASE ClientReceives(FALSE)
            BY <1>1, <2>1, <3>2, OneTaken DEF TrafficInv, Asked, Idle
        <3> QED
            BY <2>1, <3>1, <3>2
    <2>3. TrafficInv'
        BY <1>2, <1>3, <2>1, <2>2, ServerStays DEF TrafficInv, Quiet, Idle
    <2>4. PromptInv'
        BY <1>1, <2>2, ServerStays
    <2>5. PlaceInv'
        BY <1>1, <1>2, <2>1, PlaceKept DEF Between, Within, Collecting
    <2> QED
        BY <2>3, <2>4, <2>5
<1> QED
    BY <1>4, <1>5

LEMMA QualityKeepsLock ==
    ASSUME SessionInv, LockInv, ServerRests, QualityStep(ServerSilent)
    PROVE  PromptInv' /\ TrafficInv' /\ PlaceInv'
<1>1. /\ QueueTypeOK /\ ClientTypeOK /\ TrafficInv /\ PromptInv /\ PlaceInv
      /\ \A k \in Withheld : budget[k] = 0
    BY DEF SessionInv, TypeOK, NetTypeOK, LockInv, PromptInv
<1>2. /\ cPc \in {"adjust", "qpeek", "qsend", "qack"}
      /\ cPc' \in {"request", "drain", "qpeek", "qsend", "qack"}
      /\ UNCHANGED <<eos, cBatch, heard>>
    BY DEF QualityStep, Measure, AdjustQuality, QualityPointless,
           QualityWanted, SendQuality, QualityAgreed, QualityRetry, AfterAdjust
<1>3. PlaceInv'
    BY <1>1, <1>2, PlaceKept DEF Between, Within, Collecting
<1>4. CASE Measure \/ AdjustQuality
    <2>1. /\ cPc = "adjust" /\ UNCHANGED <<c2s, s2c, budget>>
          /\ cPc' \in {"qpeek", IF eos THEN "drain" ELSE "request"}
        BY <1>4 DEF Measure, AdjustQuality, AfterAdjust, netVars
    <2>2. IF eos THEN EndSent /\ Intact(s2c) ELSE Quiet
        BY <1>1, <2>1 DEF TrafficInv
    <2>3. UNCHANGED todo
        BY ServerStays
    <2>4. CASE eos
        <3>1. EndSent' /\ Intact(s2c') /\ Idle'
            BY <2>1, <2>2, <2>3, <2>4 DEF EndSent, Idle, Intact
        <3> QED
            BY <1>1, <1>2, <1>3, <2>1, <2>4, <3>1, ServerStays DEF TrafficInv
    <2>5. CASE ~eos
        <3>1. Quiet'
            BY <2>1, <2>2, <2>3, <2>5 DEF Quiet, Idle
        <3> QED
            BY <1>1, <1>2, <1>3, <2>1, <2>5, <3>1, ServerStays DEF TrafficInv
    <2> QED
        BY <2>4, <2>5
<1>5. CASE QualityPointless
    <2>1. cPc = "qpeek" /\ s2c # <<>> /\ c2s' = c2s /\ UNCHANGED budget
        BY <1>5 DEF QualityPointless, SeesEOS, ClientReceives
    <2>2. eos /\ Idle
        BY <1>1, <2>1 DEF TrafficInv, Quiet, EndSent
    <2>3. cPc' = "drain" /\ Idle'
        BY <1>5, <2>1, <2>2, ServerStays DEF QualityPointless, AfterAdjust, Idle
    <2> QED
        BY <1>1, <1>3, <2>1, <2>3, ServerStays DEF TrafficInv
<1>6. CASE QualityWanted(ServerSilent)
    <2>1. cPc = "qpeek" /\ cPc' = "qsend" /\ SeesNoEOS(ServerSilent)
        BY <1>6 DEF QualityWanted
    <2>2. s2c = <<>>
        <3>1. ASSUME s2c # <<>> PROVE FALSE
            <4>1. EndSent /\ Intact(s2c)
                BY <1>1, <2>1, <3>1 DEF TrafficInv, Quiet
            <4>2. ~TimesOut(ServerSilent)
                BY <1>1, <3>1, TimeoutIsSilence
            <4> QED
                BY <2>1, <4>1, <4>2 DEF SeesNoEOS, EndSent
        <3> QED
            BY <3>1
    <2>3. TimesOut(ServerSilent)
        BY <2>1, <2>2 DEF SeesNoEOS, ClientReceives
    <2>4. c2s' = <<>> /\ s2c' = <<>> /\ todo = {} /\ UNCHANGED budget
        BY <1>1, <2>3, TimeoutIsSilence
    <2>5. ~eos
        <3>1. Len(<<>>) = 0
            BY EmptySeq
        <3> QED
            BY <1>1, <2>1, <2>2, <3>1 DEF TrafficInv, EndSent
    <2> QED
        BY <1>1, <1>2, <1>3, <2>1, <2>4, <2>5, ServerStays
        DEF TrafficInv, Quiet, Idle
<1>7. CASE SendQuality
    <2>1. cPc = "qsend" /\ Quiet /\ ~eos
        BY <1>1, <1>7 DEF SendQuality, TrafficInv
    <2>2. /\ c2s' = <<RequestOf("QTY", cQuality, {})>> /\ s2c' = <<>>
          /\ todo' = {} /\ UNCHANGED budget /\ cPc' = "qack"
          /\ cQuality' = cQuality
        BY <1>1, <1>7, <2>1, SendIsAlone DEF SendQuality, qualityVars
    <2>3. TrafficInv'
        BY <1>2, <2>1, <2>2 DEF TrafficInv, Asked
    <2> QED
        BY <1>1, <1>3, <2>2, <2>3, ServerStays
<1>8. CASE QualityAgreed \/ QualityRetry(ServerSilent)
    <2>1. /\ cPc = "qack" /\ ~eos /\ cPc' \in {"request", "qpeek"}
          /\ ClientReceives(FALSE) \/ TimesOut(ServerSilent)
        BY <1>1, <1>8
        DEF QualityAgreed, QualityRetry, AfterAdjust, TrafficInv
    <2>2. c2s' = <<>> /\ s2c' = <<>> /\ todo = {} /\ UNCHANGED budget
        <3>1. CASE TimesOut(ServerSilent)
            BY <1>1, <3>1, TimeoutIsSilence
        <3>2. CASE ClientReceives(FALSE)
            BY <1>1, <2>1, <3>2, OneTaken DEF TrafficInv, Asked, Idle
        <3> QED
            BY <2>1, <3>1, <3>2
    <2> QED
        BY <1>1, <1>2, <1>3, <2>1, <2>2, ServerStays DEF TrafficInv, Quiet, Idle
<1> QED
    BY <1>4, <1>5, <1>6, <1>7, <1>8 DEF QualityStep

LEMMA PlayKeepsLock ==
    ASSUME SessionInv, LockInv, ServerRests, Play \/ Drain
    PROVE  PromptInv' /\ TrafficInv' /\ PlaceInv'
<1>1. /\ TrafficInv /\ PromptInv /\ PlaceInv
      /\ \A k \in Withheld : budget[k] = 0
    BY DEF LockInv, PromptInv
<1>2. /\ UNCHANGED <<eos, cBatch, heard, c2s, s2c, budget>>
      /\ \/ cPc = "request" /\ cPc' \in {"request", "exited"}
         \/ cPc = "drain" /\ cPc' \in {"drain", "exited", "done"}
    BY DEF Play, Drain, Plays, netVars
<1>3. PlaceInv'
    BY <1>1, <1>2, PlaceKept
    DEF Between, Within, Collecting, BatchPending
<1>4. TrafficInv'
    BY <1>1, <1>2, ServerStays DEF TrafficInv, Quiet, Idle
<1> QED
    BY <1>1, <1>2, <1>3, <1>4, ServerStays

(***************************************************************************)
(* A batch is requested when nothing is under way, in either direction.    *)
(***************************************************************************)
LEMMA RequestKeepsLock ==
    ASSUME SessionInv, LockInv, ServerRests, RequestBatch \/ RejectMissing
    PROVE  PromptInv' /\ TrafficInv' /\ PlaceInv'
<1>1. /\ ClientTypeOK /\ BatchInv /\ TrafficInv /\ PromptInv /\ PlaceInv
      /\ \A k \in Withheld : budget[k] = 0
    BY DEF SessionInv, TypeOK, LockInv, PromptInv
<1>2. /\ Quiet /\ ~eos /\ cPc' = "peek"
      /\ UNCHANGED <<eos, cBatch, cQuality, have, count, heard>>
    BY <1>1 DEF RequestBatch, RejectMissing, TrafficInv, qualityVars, batchVars
<1>3. CASE RequestBatch
    <2>1. cPc = "request" /\ count = 0
        BY <1>1, <1>3 DEF RequestBatch, BatchInv, Collecting
    <2>2. /\ c2s' = <<RequestOf("RR", cBatch, {})>> /\ s2c' = <<>>
          /\ todo' = {} /\ UNCHANGED budget
        BY <1>1, <1>2, <1>3, SendIsAlone DEF RequestBatch
    <2>3. TrafficInv'
        <3>1. BatchAsked'
            BY <1>2, <2>1, <2>2 DEF BatchAsked
        <3> QED
            BY <1>2, <3>1 DEF TrafficInv
    <2>4. BatchPending'
        <3>1. c2s' # <<>> /\ Head(c2s') = RequestOf("RR", cBatch, {})
            BY <2>2, Single
        <3> QED
            BY <1>2, <3>1 DEF BatchPending, RequestOf
    <2>5. PlaceInv'
        BY <1>1, <1>2, <2>1, <2>4, PlaceKept DEF Between, Within
    <2> QED
        BY <1>1, <2>2, <2>3, <2>5, ServerStays
<1>4. CASE RejectMissing
    <2>1. cPc = "check"
        BY <1>4 DEF RejectMissing
    <2>2. /\ c2s' = <<RequestOf("REJ", cBatch, Missing)>> /\ s2c' = <<>>
          /\ todo' = {} /\ UNCHANGED budget
        BY <1>1, <1>2, <1>4, SendIsAlone DEF RejectMissing
    <2>3. Missing' = Missing
        BY <1>2 DEF Missing, Unmarked, PerBatchC
    <2>4. TrafficInv'
        <3>1. BatchAsked'
            BY <1>2, <2>2, <2>3 DEF BatchAsked
        <3> QED
            BY <1>2, <3>1 DEF TrafficInv
    <2>5. ~BatchPending'
        <3>1. Head(c2s') = RequestOf("REJ", cBatch, Missing)
            BY <2>2, Single
        <3> QED
            BY <3>1 DEF BatchPending, RequestOf
    <2>6. Within /\ ~Between'
        BY <1>2, <2>1, <2>5 DEF Within, Between, Collecting, BatchPending
    <2>7. PlaceInv'
        BY <1>1, <1>2, <2>6, PlaceKept
    <2> QED
        BY <1>1, <2>2, <2>4, <2>7, ServerStays
<1> QED
    BY <1>3, <1>4

(***************************************************************************)
(* Peeking for the end of the stream loses nothing but a faulty header.    *)
(***************************************************************************)
LEMMA TailFlies ==
    ASSUME NEW q \in Seq(Reply), NEW rest, NEW wanted, Flying(q, rest, wanted),
           q # <<>>
    PROVE  /\ Head(q).flag = "NONE" /\ Head(q).nr \in wanted \ rest
           /\ Flying(Tail(q), rest, wanted \ {Head(q).nr})
           /\ Flying(Tail(q), rest, wanted)
<1>1. /\ Len(q) \in Nat \ {0} /\ Len(Tail(q)) = Len(q) - 1
      /\ \A i \in 1..Len(Tail(q)) : Tail(q)[i] = q[i + 1]
      /\ Head(q) = q[1]
    BY EmptySeq, HeadTailProperties
<1>2. 1 \in 1..Len(q) /\ \A i \in 1..Len(Tail(q)) : i + 1 \in 1..Len(q)
    BY <1>1
<1>3. \A i \in 1..Len(Tail(q)) :
         /\ Tail(q)[i].flag = "NONE" /\ Tail(q)[i].nr \in wanted \ rest
         /\ Tail(q)[i].nr # Head(q).nr
    BY <1>1, <1>2 DEF Flying
<1>4. \A i, j \in 1..Len(Tail(q)) : i < j => Tail(q)[i].nr # Tail(q)[j].nr
    BY <1>1, <1>2 DEF Flying
<1> QED
    BY <1>1, <1>2, <1>3, <1>4 DEF Flying

LEMMA EndKeepsClientLock ==
    ASSUME SessionInv, LockInv, ServerRests, StreamEnds
    PROVE  PromptInv' /\ TrafficInv' /\ PlaceInv'
<1>1. /\ QueueTypeOK /\ TrafficInv /\ PromptInv
      /\ \A k \in Withheld : budget[k] = 0
    BY DEF SessionInv, TypeOK, NetTypeOK, LockInv, PromptInv
<1>2. /\ cPc = "peek" /\ s2c # <<>> /\ Intact(s2c) /\ Head(s2c).flag = "EOS"
      /\ UNCHANGED <<c2s, s2c, budget>> /\ eos'
      /\ cPc' \in {"drain", "adjust"}
    BY DEF StreamEnds, SeesEOS, ClientReceives, AfterReceive, Intact
<1>3. EndSent
    <2>1. s2c \in Seq(Reply)
        BY <1>1 DEF QueueTypeOK
    <2>2. ~Flight
        BY <1>2, <2>1, TailFlies DEF Flight
    <2> QED
        BY <1>1, <1>2, <2>2 DEF TrafficInv, BatchAsked
<1>4. EndSent' /\ Intact(s2c') /\ Idle'
    BY <1>2, <1>3, ServerStays DEF EndSent, Idle
<1>5. Stranger
    <2> SUFFICES ASSUME ~Stranger PROVE FALSE
        OBVIOUS
    <2>1. SeesEOS
        BY DEF StreamEnds
    <2> QED
        BY <2>1, NoEOSYet
<1>6. PlaceInv'
    BY <1>2, <1>5, ServerStays DEF PlaceInv
<1>7. TrafficInv'
    BY <1>2, <1>4 DEF TrafficInv
<1> QED
    BY <1>1, <1>2, <1>6, <1>7, ServerStays

LEMMA PeekKeepsLock ==
    ASSUME SessionInv, LockInv, ServerRests, StreamGoesOn(ServerSilent)
    PROVE  PromptInv' /\ TrafficInv' /\ PlaceInv'
<1>1. /\ QueueTypeOK /\ ClientTypeOK /\ BatchInv
      /\ TrafficInv /\ PromptInv /\ PlaceInv
      /\ \A k \in Withheld : budget[k] = 0
    BY DEF SessionInv, TypeOK, NetTypeOK, LockInv, PromptInv
<1>2. /\ cPc = "peek" /\ cPc' = "collect" /\ SeesNoEOS(ServerSilent)
      /\ iter' = 0 /\ limit' = PerBatchC - count
      /\ UNCHANGED <<eos, cBatch, cQuality, have, count, heard>>
    BY DEF StreamGoesOn, qualityVars
<1>3. /\ ~eos /\ s2c \in Seq(Reply) /\ UNCHANGED <<c2s, budget>>
      /\ s2c' = s2c \/ (s2c # <<>> /\ s2c' = Tail(s2c))
    <2>1. ~eos /\ s2c \in Seq(Reply)
        BY <1>1, <1>2 DEF TrafficInv, QueueTypeOK
    <2>2. CASE TimesOut(ServerSilent)
        BY <1>1, <2>1, <2>2, TimeoutIsSilence
    <2>3. CASE ClientReceives(TRUE)
        BY <2>1, <2>3 DEF ClientReceives, AfterReceive
    <2> QED
        BY <1>2, <2>2, <2>3 DEF SeesNoEOS
<1>4. c2s = <<>> /\ (Flight \/ EndSent)
    <2>1. ~BatchAsked
        BY <1>1, <1>2, Single, TimeoutIsSilence
        DEF BatchAsked, SeesNoEOS, ClientReceives
    <2> QED
        BY <1>1, <1>2, <2>1 DEF TrafficInv, Flight, EndSent, Idle
<1>5. Receives' = Receives /\ Receives \in Nat \ {0} /\ Unmarked' = Unmarked
    <2>1. count \in Nat /\ PerBatchC \in Nat \ {0}
        BY <1>1, BatchBounds DEF ClientTypeOK
    <2> QED
        BY <1>1, <1>2, <2>1, StillToReceive DEF Receives, Unmarked, PerBatchC
<1>6. ASSUME Flight PROVE Flight'
    <2>1. Flying(s2c', todo, Unmarked) /\ Len(s2c') <= Len(s2c)
          /\ Len(s2c') \in Nat /\ Len(s2c) \in Nat
        <3>1. Flying(s2c, todo, Unmarked) /\ Len(s2c) \in Nat
            BY <1>3, <1>6, LenProperties DEF Flight
        <3>2. CASE s2c' = s2c
            BY <3>1, <3>2
        <3>3. CASE s2c # <<>> /\ s2c' = Tail(s2c)
            <4>1. Flying(Tail(s2c), todo, Unmarked)
                BY <1>3, <3>1, <3>3, TailFlies
            <4>2. Len(Tail(s2c)) = Len(s2c) - 1 /\ Len(s2c) # 0
                BY <1>3, <3>3, TailOfOne
            <4> QED
                BY <3>1, <3>3, <4>1, <4>2
        <3> QED
            BY <1>3, <3>2, <3>3
    <2>2. IsFiniteSet(todo)
        BY <1>1, <1>6, FewUnmarked, FS_Subset DEF Flight
    <2>3. Cardinality(todo) \in Nat
        BY <2>2, FS_CardinalityType
    <2> QED
        BY <1>3, <1>4, <1>5, <1>6, <2>1, <2>3, ServerStays DEF Flight
<1>7. ASSUME EndSent PROVE EndSent' \/ Flight'
    <2>1. CASE s2c' = s2c
        BY <1>3, <1>7, <2>1, ServerStays DEF EndSent, Idle
    <2>2. CASE s2c # <<>> /\ s2c' = Tail(s2c)
        <3>1. s2c' = <<>>
            BY <1>3, <1>7, <2>2, TailOfOne DEF EndSent
        <3>2. Idle'
            BY <1>3, <1>7, ServerStays DEF EndSent, Idle
        <3> QED
            BY <1>5, <3>1, <3>2, NothingFlies
    <2> QED
        BY <1>3, <2>1, <2>2
<1>8. TrafficInv'
    BY <1>2, <1>3, <1>4, <1>6, <1>7 DEF TrafficInv
<1>9. PlaceInv'
    BY <1>1, <1>2, <1>4, PlaceKept DEF Between, Within, BatchPending, Collecting
<1> QED
    BY <1>1, <1>3, <1>8, <1>9, ServerStays

(***************************************************************************)
(* One receive less to do, one packet less under way.  The last one leaves *)
(* nothing.                                                                *)
(***************************************************************************)
LEMMA ReceiveKeepsTraffic ==
    ASSUME SessionInv, LockInv, ServerRests, cPc = "collect",
           ClientReceives(FALSE), NextReceive,
           UNCHANGED <<eos, cBatch, cQuality, limit>>,
           \/ UNCHANGED have
           \/ Flight /\ have' = have \cup {Head(s2c).nr}
    PROVE  TrafficInv'
<1>1. QueueTypeOK /\ ClientTypeOK /\ BatchInv /\ TrafficInv /\ PromptInv
    BY DEF SessionInv, TypeOK, NetTypeOK, LockInv
<1>2. /\ ~eos /\ s2c \in Seq(Reply) /\ s2c # <<>> /\ s2c' = Tail(s2c)
      /\ UNCHANGED <<c2s, budget, todo>>
      /\ Len(s2c) \in Nat \ {0} /\ Len(s2c') = Len(s2c) - 1
    BY <1>1, TailOfOne, OneTaken, ServerStays DEF TrafficInv, QueueTypeOK
<1>3. Flight \/ EndSent
    BY <1>1 DEF TrafficInv, BatchAsked
<1>4. iter \in Nat /\ limit \in Nat /\ iter < limit
    BY <1>1 DEF ClientTypeOK, BatchInv
<1>5. c2s' = <<>>
    BY <1>2, <1>3 DEF Flight, EndSent, Idle
<1>6. Receives = limit - iter
    BY DEF Receives
<1>7. CASE iter + 1 = limit
    <2>1. cPc' = "check"
        BY <1>7 DEF NextReceive
    <2>2. s2c' = <<>> /\ todo = {}
        <3>1. CASE Flight
            <4>1. IsFiniteSet(todo)
                BY <1>1, <3>1, FewUnmarked, FS_Subset DEF Flight
            <4>2. Cardinality(todo) \in Nat
                BY <4>1, FS_CardinalityType
            <4>3. Len(s2c) + Cardinality(todo) <= 1
                BY <1>4, <1>6, <1>7, <3>1 DEF Flight
            <4>4. Len(s2c) <= 1 /\ Cardinality(todo) = 0
                BY <1>2, <4>2, <4>3
            <4> QED
                BY <1>2, <4>1, <4>4, TailOfOne, FS_EmptySet
        <3>2. CASE EndSent
            BY <1>2, <3>2, TailOfOne DEF EndSent, Idle
        <3> QED
            BY <1>3, <3>1, <3>2
    <2>3. Quiet'
        BY <1>2, <1>5, <2>2 DEF Quiet, Idle
    <2> QED
        BY <1>2, <2>1, <2>3 DEF TrafficInv
<1>8. CASE iter + 1 # limit
    <2>1. cPc' = "collect" /\ iter' = iter + 1
        BY <1>8 DEF NextReceive
    <2>2. Receives' = limit - (iter + 1) /\ Receives' \in Nat
        BY <1>4, <1>8, <2>1 DEF Receives
    <2>3. CASE Flight
        <3>1. /\ Head(s2c).nr \in Unmarked \ todo
              /\ Flying(s2c', todo, Unmarked \ {Head(s2c).nr})
              /\ Flying(s2c', todo, Unmarked)
            BY <1>2, <2>3, TailFlies DEF Flight
        <3>2. \/ Unmarked' = Unmarked
              \/ Unmarked' = Unmarked \ {Head(s2c).nr}
            <4>1. CASE UNCHANGED have
                BY <4>1 DEF Unmarked, PerBatchC
            <4>2. CASE have' = have \cup {Head(s2c).nr}
                BY <4>2 DEF Unmarked, PerBatchC
            <4> QED
                BY <4>1, <4>2
        <3>3. Flying(s2c', todo, Unmarked') /\ todo \subseteq Unmarked'
            BY <2>3, <3>1, <3>2 DEF Flight
        <3>4. IsFiniteSet(todo)
            BY <1>1, <2>3, FewUnmarked, FS_Subset DEF Flight
        <3>5. Cardinality(todo) \in Nat
            BY <3>4, FS_CardinalityType
        <3>6. Len(s2c') + Cardinality(todo) <= Receives'
            BY <1>2, <1>4, <1>6, <2>2, <2>3, <3>5 DEF Flight
        <3>7. Flight'
            BY <1>2, <1>5, <3>3, <3>6 DEF Flight
        <3> QED
            BY <1>2, <2>1, <3>7 DEF TrafficInv
    <2>4. CASE EndSent
        <3>1. Idle' /\ s2c' = <<>>
            BY <1>2, <2>4, TailOfOne DEF EndSent, Idle
        <3>2. Flight'
            BY <2>2, <3>1, NothingFlies
        <3> QED
            BY <1>2, <2>1, <3>2 DEF TrafficInv
    <2> QED
        BY <1>3, <2>3, <2>4
<1> QED
    BY <1>7, <1>8

LEMMA CollectKeepsLock ==
    ASSUME SessionInv, LockInv, ServerRests,
           \/ CollectTimeout(ServerSilent) \/ CollectFaulty \/ CollectIgnored
           \/ Accept \/ AcceptCrash
    PROVE  PromptInv' /\ TrafficInv' /\ PlaceInv'
<1>1. /\ QueueTypeOK /\ ClientTypeOK /\ TrafficInv /\ PromptInv /\ PlaceInv
      /\ \A k \in Withheld : budget[k] = 0
    BY DEF SessionInv, TypeOK, NetTypeOK, LockInv, PromptInv
<1>2. /\ cPc = "collect" /\ cPc' \in {"collect", "check", "crashed"}
      /\ UNCHANGED <<eos, cBatch, cQuality, limit, heard>>
    BY DEF CollectTimeout, CollectFaulty, CollectIgnored, Accept, AcceptCrash,
           NextReceive, qualityVars, batchVars
<1>3. UNCHANGED budget
    BY <1>1, TimeoutIsSilence
    DEF CollectTimeout, CollectFaulty, CollectIgnored, Accept, AcceptCrash,
        ClientReceives
<1>4. PromptInv'
    BY <1>1, <1>3, ServerStays
<1>5. PlaceInv'
    BY <1>1, <1>2, PlaceKept DEF Between, Within, BatchPending, Collecting
<1>6. CASE CollectTimeout(ServerSilent)
    <2>1. /\ cPc' = "check" /\ c2s' = <<>> /\ s2c' = <<>> /\ todo = {}
        BY <1>1, <1>6, TimeoutIsSilence DEF CollectTimeout
    <2>2. ~eos'
        BY <1>1, <1>2 DEF TrafficInv
    <2>3. Quiet'
        BY <2>1, ServerStays DEF Quiet, Idle
    <2> QED
        BY <1>4, <1>5, <2>1, <2>2, <2>3 DEF TrafficInv
<1>7. CASE CollectFaulty \/ CollectIgnored
    <2>1. ClientReceives(FALSE) /\ NextReceive /\ UNCHANGED have
        BY <1>7 DEF CollectFaulty, CollectIgnored
    <2> QED
        BY <1>2, <1>4, <1>5, <2>1, ReceiveKeepsTraffic
<1>8. ASSUME Accept \/ AcceptCrash PROVE Flight
    <2>1. Head(s2c).flag = "NONE"
        BY <1>8 DEF Accept, AcceptCrash, Acceptable
    <2> QED
        BY <1>1, <1>2, <2>1 DEF TrafficInv, BatchAsked, EndSent
<1>9. CASE Accept
    <2>1. /\ ClientReceives(FALSE) /\ NextReceive
          /\ have' = have \cup {Head(s2c).nr}
        BY <1>9 DEF Accept
    <2> QED
        BY <1>2, <1>4, <1>5, <1>8, <1>9, <2>1, ReceiveKeepsTraffic
<1>10. CASE AcceptCrash
    <2>1. cPc' = "crashed" /\ c2s' = c2s
        BY <1>10 DEF AcceptCrash, ClientReceives
    <2>2. c2s' = <<>>
        BY <1>8, <1>10, <2>1 DEF Flight
    <2> QED
        BY <1>4, <1>5, <2>1, <2>2 DEF TrafficInv
<1> QED
    BY <1>6, <1>7, <1>9, <1>10

(***************************************************************************)
(* A complete batch moves the client to where the server already is, or    *)
(* will be once it is done.                                                *)
(***************************************************************************)
LEMMA TakeKeepsLock ==
    ASSUME SessionInv, AgreementInv, LockInv, ServerRests, TakeBatch
    PROVE  PromptInv' /\ TrafficInv' /\ PlaceInv'
<1>1. /\ ServerTypeOK /\ ClientTypeOK /\ BatchInv
      /\ TrafficInv /\ PromptInv /\ PlaceInv
      /\ \A k \in Withheld : budget[k] = 0
    BY DEF SessionInv, TypeOK, NetTypeOK, LockInv, PromptInv
<1>2. /\ cPc = "check" /\ cPc' \in {"request", "adjust"}
      /\ cBatch' = cBatch + 1 /\ UNCHANGED <<eos, c2s, s2c, budget>>
      /\ heard' = heard \o [k \in 1..PerBatchC |-> raw[k - 1]]
    BY DEF TakeBatch, netVars
<1>3. /\ PerBatchC \in Nat \ {0} /\ cBatch \in Nat /\ sBatch \in Nat
      /\ musicPtr \in Int /\ Len(heard) \in Nat
    BY <1>1, BatchBounds, LenProperties DEF ServerTypeOK, ClientTypeOK
<1>4. Len(heard') = Len(heard) + PerBatchC
    <2>1. raw \in [0..(PerBatchC - 1) -> Slot]
        BY <1>1, <1>2 DEF BatchInv, Collecting
    <2>2. \A k \in 1..PerBatchC : k - 1 \in 0..(PerBatchC - 1)
        BY <1>3
    <2>3. [k \in 1..PerBatchC |-> raw[k - 1]] \in [1..PerBatchC -> Slot]
        BY <2>1, <2>2
    <2>4. /\ [k \in 1..PerBatchC |-> raw[k - 1]] \in Seq(Slot)
          /\ Len([k \in 1..PerBatchC |-> raw[k - 1]]) = PerBatchC
        BY <1>3, <2>3, IsASeq, LenProperties
    <2> DEFINE batch == [k \in 1..PerBatchC |-> raw[k - 1]]
    <2>5. heard \in Seq(Slot) /\ heard' = heard \o batch
        BY <1>1, <1>2 DEF ClientTypeOK
    <2>6. batch \in Seq(Slot) /\ Len(batch) = PerBatchC
        BY <2>4
    <2> HIDE DEF batch
    <2>7. Len(heard \o batch) = Len(heard) + Len(batch)
        BY <2>5, <2>6, ConcatProperties, ZenonT(30)
    <2> QED
        BY <2>5, <2>6, <2>7
<1>5. TrafficInv'
    BY <1>1, <1>2, ServerStays DEF TrafficInv, Quiet, Idle
<1>6. ASSUME ~Stranger PROVE BetweenBatches'
    <2>1. PerBatch = PerBatchC
        BY <1>1, <1>2, <1>6, Agreed DEF Settled, PerBatch, PerBatchC
    <2>2. WithinABatch
        BY <1>1, <1>2, <1>6 DEF PlaceInv, Within, Collecting, BatchPending
    <2> QED
        BY <1>2, <1>3, <1>4, <2>1, <2>2, ServerStays
        DEF WithinABatch, BetweenBatches
<1>7. PlaceInv'
    BY <1>2, <1>6, ServerStays DEF PlaceInv, Within, Collecting
<1> QED
    BY <1>1, <1>2, <1>5, <1>7, ServerStays

(***************************************************************************)
(* No packet comes twice.                                                  *)
(***************************************************************************)
LEMMA CountKept ==
    ASSUME SessionInv, MarksInv, LockInv, ClientNext(ServerSilent)
    PROVE  CountMatchesReceived'
<1>1. QueueTypeOK /\ ClientTypeOK /\ TrafficInv /\ CountMatchesReceived
    BY DEF SessionInv, TypeOK, NetTypeOK, LockInv
<1>2. CASE UNCHANGED <<have, count>>
    BY <1>1, <1>2 DEF CountMatchesReceived
<1>3. CASE have' = {} /\ count' = 0
    BY <1>3, FS_EmptySet DEF CountMatchesReceived
<1>4. CASE Accept
    <2>1. /\ cPc = "collect" /\ s2c # <<>> /\ Head(s2c).flag = "NONE"
          /\ have' = have \cup {Head(s2c).nr} /\ count' = count + 1
        BY <1>4 DEF Accept, Acceptable, ClientReceives
    <2>2. Flying(s2c, todo, Unmarked)
        BY <1>1, <2>1 DEF TrafficInv, BatchAsked, EndSent, Flight
    <2>3. Head(s2c).nr \in Unmarked
        BY <1>1, <2>1, <2>2, TailFlies DEF QueueTypeOK
    <2>4. Cardinality(have \cup {Head(s2c).nr}) = Cardinality(have) + 1
        BY <2>3, FS_AddElement DEF Unmarked, MarksInv
    <2> QED
        BY <1>1, <2>1, <2>4 DEF CountMatchesReceived
<1>5. \/ UNCHANGED <<have, count>>
      \/ have' = {} /\ count' = 0
      \/ Accept
    BY DEF ClientNext, ConnectStep, BatchStep, QualityStep, Connect, Connected,
       ConnectFaulty, ConnectFails, RequestBatch, StreamEnds, StreamGoesOn,
       CollectTimeout, CollectFaulty, CollectIgnored, AcceptCrash,
       RejectMissing, TakeBatch, Measure, AdjustQuality, QualityPointless,
       QualityWanted, SendQuality, QualityAgreed, QualityRetry, Play, Drain,
       FreeBatch, batchVars
<1> QED
    BY <1>2, <1>3, <1>4, <1>5

LEMMA ClientKeepsLock ==
    ASSUME SessionInv, MarksInv, AgreementInv, LockInv, ClientStep
    PROVE  LockInv'
<1>1. ServerRests /\ ClientNext(ServerSilent)
    BY DEF ClientStep, ServerRests
<1>2. PromptInv' /\ TrafficInv' /\ PlaceInv'
    BY <1>1, ConnectKeepsLock, RequestKeepsLock, EndKeepsClientLock,
       PeekKeepsLock, CollectKeepsLock, TakeKeepsLock, QualityKeepsLock,
       PlayKeepsLock
    DEF ClientNext, BatchStep
<1>3. CountMatchesReceived'
    BY <1>1, CountKept
<1> QED
    BY <1>2, <1>3 DEF LockInv

-----------------------------------------------------------------------------
LEMMA LockInit ==
    ASSUME RequestsArrive, Init
    PROVE  LockInv
<1>1. Len(<<>>) = 0 /\ Cardinality({}) = 0
    BY EmptySeq, FS_EmptySet
<1>2. PromptInv
    BY DEF Init, NetInit, ServerInit, RequestsArrive, PromptInv, Sending
<1>3. TrafficInv
    BY DEF Init, NetInit, ServerInit, ClientInit, TrafficInv, Quiet, Idle
<1>4. PlaceInv
    BY <1>1 DEF Init, ServerInit, ClientInit, PlaceInv, BetweenBatches, Within,
       Collecting
<1>5. CountMatchesReceived
    BY <1>1 DEF Init, ClientInit, CountMatchesReceived
<1> QED
    BY <1>2, <1>3, <1>4, <1>5 DEF LockInv

LEMMA LockStep ==
    ASSUME SessionInv, MarksInv, AgreementInv, LockInv, [Next]_vars
    PROVE  LockInv'
<1>1. CASE ServerStep
    BY <1>1, ServerKeepsLock
<1>2. CASE ClientStep
    BY <1>2, ClientKeepsLock
<1>3. CASE NetworkStep
    BY <1>3 DEF NetworkStep, Delay, Deliver, Spend, LockInv, PromptInv, Withheld
<1>4. CASE TimerStep
    BY <1>4 DEF TimerStep, Expire, Spend, LockInv, PromptInv, Withheld
<1>5. CASE Terminated \/ UNCHANGED vars
    <2>1. UNCHANGED vars
        BY <1>5 DEF Terminated
    <2>2. ClientRests /\ ServerRests /\ UNCHANGED netVars
        BY <2>1 DEF vars, ClientRests, ServerRests
    <2>3. PromptInv' /\ PlaceInv'
        BY <2>2, ClientStays, ServerStays
        DEF netVars, LockInv, PromptInv, PlaceInv, Between, Within, Collecting,
            BatchPending, BetweenBatches, WithinABatch
    <2>4. TrafficInv'
        BY <2>2, LessTrafficKept, ServerStays DEF netVars, LockInv
    <2>5. CountMatchesReceived'
        BY <2>2, ClientStays DEF LockInv, CountMatchesReceived
    <2> QED
        BY <2>3, <2>4, <2>5 DEF LockInv
<1> QED
    BY <1>1, <1>2, <1>3, <1>4, <1>5 DEF Next

LEMMA LockHolds ==
    ASSUME RequestsArrive
    PROVE  Spec => []LockInv
<1>1. Init => MarksInv
    BY FS_EmptySet DEF Init, ClientInit, MarksInv
<1>2. Init => LockInv
    BY LockInit
<1>3. SessionInv /\ SessionInv' /\ MarksInv /\ AgreementInv /\ LockInv /\ [Next]_vars
         => MarksInv' /\ AgreementInv' /\ LockInv'
    BY MarksStep, AgreementStep, LockStep
<1> QED
    BY <1>1, <1>2, <1>3, AgreementInit, SessionInvariant, PTL DEF Spec

(***************************************************************************)
(* No batch is requested while anything of an earlier exchange is on its   *)
(* way: the data packets, which carry no batch number, are of the batch    *)
(* that is collected.                                                      *)
(***************************************************************************)
THEOREM QuietWhenAsked ==
    ASSUME RequestsArrive
    PROVE  Spec => []QuietAtRequest
<1>1. LockInv => QuietAtRequest
    BY DEF LockInv, TrafficInv, Quiet, Idle, QuietAtRequest
<1> QED
    BY <1>1, LockHolds, PTL

(***************************************************************************)
(* size_nrs is the number of packets that are there, so                    *)
(* raw_batch_integrity_ok is not fooled: no packet of a batch arrives      *)
(* twice, whatever was lost, corrupted and asked for again.                *)
(***************************************************************************)
THEOREM CountIsRight ==
    ASSUME RequestsArrive
    PROVE  Spec => []CountMatchesReceived
<1>1. LockInv => CountMatchesReceived
    BY DEF LockInv
<1> QED
    BY <1>1, LockHolds, PTL

(***************************************************************************)
(* Between batches music_ptr is where the client's music ends, through     *)
(* repairs and changes of quality.                                         *)
(***************************************************************************)
THEOREM PlacesMatch ==
    ASSUME RequestsArrive
    PROVE  Spec => []InStep
<1>1. LockInv => InStep
    BY DEF LockInv, PlaceInv, Between, BetweenBatches, Stranger, InStep
<1> QED
    BY <1>1, LockHolds, PTL

(***************************************************************************)
(* A REJ is answered with packets of the batch the client is collecting.   *)
(***************************************************************************)
THEOREM TheRightBatchIsResent ==
    ASSUME RequestsArrive
    PROVE  Spec => []RejectedBatchIsResent
<1>1. ASSUME SessionInv, LockInv, sPc = "resend", todo # {}
      PROVE  musicPtr = Len(heard)
    <2>1. TrafficInv /\ PlaceInv /\ ~Stranger
        BY <1>1 DEF LockInv, PromptInv, Sending
    <2>2. cPc = "crashed" \/ (cPc \in {"peek", "collect"} /\ Flight)
        <3>1. cPc \in ClientPcs
            BY <1>1 DEF SessionInv, TypeOK, ClientTypeOK
        <3>2. ~Idle
            BY <1>1 DEF Idle
        <3> QED
            BY <1>1, <2>1, <3>1, <3>2
            DEF TrafficInv, Quiet, Asked, BatchAsked, EndSent, ClientPcs
    <2>3. CASE cPc \in {"peek", "collect"} /\ Flight
        <3>1. Within
            BY <2>3 DEF Flight, Within, Collecting, BatchPending
        <3> QED
            BY <1>1, <2>1, <3>1 DEF PlaceInv, WithinABatch
    <2> QED
        BY <1>1, <2>1, <2>2, <2>3 DEF PlaceInv
<1>2. SessionInv /\ LockInv => RejectedBatchIsResent
    BY <1>1 DEF RejectedBatchIsResent
<1> QED
    BY <1>2, LockHolds, SessionInvariant, PTL
=============================================================================
