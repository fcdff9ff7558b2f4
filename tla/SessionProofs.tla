--------------------------- MODULE SessionProofs ---------------------------
(***************************************************************************)
(* Session, for every size of the file, of the batches, of the buffers and *)
(* for every budget of disturbances: the types are right, the playback     *)
(* buffer is never overrun, the stream ends only when the server let the   *)
(* client go, a slot never takes back the client it has let go, and both   *)
(* sides go by the same quality.                                           *)
(***************************************************************************)
EXTENDS Session, EndpointProofs

LEMMA InvInit == Init => SessionInv
<1> SUFFICES ASSUME Init PROVE SessionInv
    OBVIOUS
<1>1. /\ c2s \in Seq(Request) /\ s2c \in Seq(Reply) /\ heard \in Seq(Slot)
      /\ Len(s2c) = 0
    BY EmptySeq DEF Init, NetInit, ClientInit
<1>2. NetTypeOK
    BY <1>1, BudgetAssumption DEF Init, NetInit, NetTypeOK, QueueTypeOK
<1>3. ServerTypeOK
    <2>1. seen \in BOOLEAN /\ inUse \in BOOLEAN /\ counted \in BOOLEAN
        BY Zenon DEF Init, ServerInit
    <2> QED
        BY <2>1, ProtocolAssumption
        DEF Init, ServerInit, ServerTypeOK, ServerPcs, Stages, Tasks
<1>4. ClientTypeOK
    <2>1. filling \in BOOLEAN /\ eos \in BOOLEAN
        BY Zenon DEF Init, ClientInit
    <2> QED
        BY <1>1, <2>1, ClientAssumption, ProtocolAssumption
        DEF Init, ClientInit, ClientTypeOK, ClientPcs
<1>5. SlotInv
    BY <1>1 DEF Init, ServerInit, SlotInv, EOSOnTheWay
<1>6. BatchInv /\ RoomInv
    BY ClientAssumption, PacketsBounds
    DEF Init, ClientInit, BatchInv, RoomInv, Collecting
<1>7. EOSIsTheEnd
    BY DEF Init, ClientInit, EOSIsTheEnd
<1> QED
    BY <1>2, <1>3, <1>4, <1>5, <1>6, <1>7 DEF SessionInv, TypeOK

-----------------------------------------------------------------------------
(***************************************************************************)
(* A step of the server leaves the client alone, and what it does to its   *)
(* slot never takes EOSIsTheEnd back.                                      *)
(***************************************************************************)
LEMMA SlotStepKeeps ==
    ASSUME SessionInv, ServerNext \/ Expire,
           UNCHANGED <<clientVars, delayed, overtaken>>
    PROVE  SessionInv'
<1>1. ServerInv
    BY DEF SessionInv, TypeOK, NetTypeOK, ServerInv
<1>2. ServerInv'
    BY <1>1, ServerNextKeeps, ExpireKeeps
<1>3. UNCHANGED <<cPc, filling, eos, cBatch, cQuality, measure, okCount,
                  trouble, raw, have, count, iter, limit, used, heard,
                  delayed, overtaken>>
    BY DEF clientVars, qualityVars, batchVars
<1>4. PerBatchC' = PerBatchC /\ NoRaw' = NoRaw
    BY <1>3 DEF PerBatchC, NoRaw
<1>5. TypeOK'
    BY <1>2, <1>3, <1>4
    DEF SessionInv, TypeOK, NetTypeOK, ClientTypeOK, ServerInv
<1>6. BatchInv' /\ RoomInv'
    BY <1>3, <1>4
    DEF SessionInv, BatchInv, RoomInv, Collecting, RoomForABatch
<1>7. EOSIsTheEnd'
    BY <1>3, StrangerStaysOut DEF SessionInv, EOSIsTheEnd
<1> QED
    BY <1>2, <1>5, <1>6, <1>7 DEF SessionInv, ServerInv

(***************************************************************************)
(* A step of the client leaves the slot alone; the EOS it acts on was sent *)
(* to a client that had been let go.                                       *)
(***************************************************************************)
LEMMA ClientStepKeeps ==
    ASSUME SessionInv, ClientStep
    PROVE  SessionInv'
<1>1. ClientInv
    BY DEF SessionInv, TypeOK, NetTypeOK, ClientInv
<1>2. ClientNext(ServerSilent)
    BY DEF ClientStep
<1>3. ClientInv' /\ NoReplyAdded
    BY <1>1, <1>2, ClientNextKeeps
<1>4. UNCHANGED <<sPc, seen, inUse, stage, sBatch, sQuality, musicPtr,
                  bytesSent, task, todo, counted, delayed, overtaken>>
    BY DEF ClientStep, serverVars, slotVars
<1>5. TypeOK'
    BY <1>3, <1>4
    DEF SessionInv, TypeOK, NetTypeOK, ServerTypeOK, ClientInv
<1>6. SlotInv'
    BY <1>3, <1>4 DEF SessionInv, SlotInv, EOSOnTheWay, NoReplyAdded
<1>7. EOSIsTheEnd'
    <2>1. UNCHANGED eos \/ EOSOnTheWay
        BY <1>1, <1>2, EOSIsSeen DEF EOSOnTheWay
    <2> QED
        BY <2>1, <1>4 DEF SessionInv, SlotInv, EOSIsTheEnd
<1> QED
    BY <1>3, <1>5, <1>6, <1>7 DEF SessionInv, ClientInv

(***************************************************************************)
(* The network only moves requests about.                                  *)
(***************************************************************************)
LEMMA NetworkStepKeeps ==
    ASSUME SessionInv, NetworkStep
    PROVE  SessionInv'
<1>1. NetTypeOK
    BY DEF SessionInv, TypeOK
<1>2. NetTypeOK' /\ UNCHANGED s2c
    <2>1. CASE Delay
        BY <1>1, <2>1, HeadTailProperties, SpendType
        DEF Delay, NetTypeOK, QueueTypeOK, Disturbances
    <2>2. CASE Deliver
        BY <1>1, <2>2, AppendProperties DEF Deliver, NetTypeOK, QueueTypeOK
    <2> QED
        BY <2>1, <2>2 DEF NetworkStep
<1>3. /\ UNCHANGED <<sPc, seen, inUse, stage, sBatch, sQuality, musicPtr,
                     bytesSent, task, todo, counted>>
      /\ UNCHANGED <<cPc, filling, eos, cBatch, cQuality, measure, okCount,
                     trouble, raw, have, count, iter, limit, used, heard>>
    BY DEF NetworkStep, serverVars, slotVars, clientVars, qualityVars,
           batchVars
<1>4. PerBatchC' = PerBatchC /\ NoRaw' = NoRaw
    BY <1>3 DEF PerBatchC, NoRaw
<1>5. ServerTypeOK' /\ ClientTypeOK'
    BY <1>3, <1>4 DEF SessionInv, TypeOK, ServerTypeOK, ClientTypeOK
<1>6. SlotInv' /\ EOSIsTheEnd'
    BY <1>2, <1>3 DEF SessionInv, SlotInv, EOSOnTheWay, EOSIsTheEnd
<1>7. BatchInv' /\ RoomInv'
    BY <1>3, <1>4
    DEF SessionInv, BatchInv, RoomInv, Collecting, RoomForABatch
<1> QED
    BY <1>2, <1>5, <1>6, <1>7 DEF SessionInv, TypeOK

LEMMA StutterKeeps ==
    ASSUME SessionInv, UNCHANGED vars
    PROVE  SessionInv'
<1>1. UNCHANGED <<c2s, s2c, budget, delayed, overtaken>>
    BY DEF vars, netVars
<1>2. /\ UNCHANGED <<sPc, seen, inUse, stage, sBatch, sQuality, musicPtr,
                     bytesSent, task, todo, counted>>
      /\ UNCHANGED <<cPc, filling, eos, cBatch, cQuality, measure, okCount,
                     trouble, raw, have, count, iter, limit, used, heard>>
    BY DEF vars, serverVars, slotVars, clientVars, qualityVars, batchVars
<1>3. PerBatchC' = PerBatchC /\ NoRaw' = NoRaw
    BY <1>2 DEF PerBatchC, NoRaw
<1>4. TypeOK'
    BY <1>1, <1>2, <1>3
    DEF SessionInv, TypeOK, NetTypeOK, QueueTypeOK, ServerTypeOK,
        ClientTypeOK
<1>5. SlotInv' /\ EOSIsTheEnd'
    BY <1>1, <1>2 DEF SessionInv, SlotInv, EOSOnTheWay, EOSIsTheEnd
<1>6. BatchInv' /\ RoomInv'
    BY <1>2, <1>3
    DEF SessionInv, BatchInv, RoomInv, Collecting, RoomForABatch
<1> QED
    BY <1>4, <1>5, <1>6 DEF SessionInv

LEMMA NextKeeps == SessionInv /\ [Next]_vars => SessionInv'
<1> SUFFICES ASSUME SessionInv, [Next]_vars PROVE SessionInv'
    OBVIOUS
<1>1. CASE ServerStep
    BY <1>1, SlotStepKeeps DEF ServerStep
<1>2. CASE ClientStep
    BY <1>2, ClientStepKeeps
<1>3. CASE NetworkStep
    BY <1>3, NetworkStepKeeps
<1>4. CASE TimerStep
    BY <1>4, SlotStepKeeps DEF TimerStep
<1>5. CASE Terminated \/ UNCHANGED vars
    BY <1>5, StutterKeeps DEF Terminated
<1> QED
    BY <1>1, <1>2, <1>3, <1>4, <1>5 DEF Next

-----------------------------------------------------------------------------
(***************************************************************************)
(* The inductive invariant holds of every behaviour of the two programs.   *)
(***************************************************************************)
THEOREM SessionInvariant == Spec => []SessionInv
<1> QED
    BY InvInit, NextKeeps, PTL DEF Spec

(***************************************************************************)
(* Every variable of both programs keeps its type: no count of missing     *)
(* packets, of receives or of buffered packets goes below zero, and a      *)
(* batch in progress has exactly the slots its quality calls for.          *)
(***************************************************************************)
THEOREM TypeCorrect == Spec => []TypeOK
<1>1. SessionInv => TypeOK
    BY DEF SessionInv
<1> QED
    BY <1>1, SessionInvariant, PTL

(***************************************************************************)
(* receive_batch never adds more packets to the playback buffer than it    *)
(* has room for, so buffer_add's override never comes into play.           *)
(***************************************************************************)
THEOREM PlayerSafe == Spec => []PlayerNeverOverrun
<1>1. SessionInv => PlayerNeverOverrun
    BY DEF SessionInv, RoomInv, PlayerNeverOverrun
<1> QED
    BY <1>1, SessionInvariant, PTL

(***************************************************************************)
(* A client that takes the stream for ended has been let go by the server, *)
(* whatever was lost, corrupted, delayed or answered twice.                *)
(***************************************************************************)
THEOREM EndIsTheEnd == Spec => []EOSIsTheEnd
<1>1. SessionInv => EOSIsTheEnd
    BY DEF SessionInv
<1> QED
    BY <1>1, SessionInvariant, PTL

-----------------------------------------------------------------------------
LEMMA MarksStep == SessionInv /\ MarksInv /\ [Next]_vars => MarksInv'
<1> SUFFICES ASSUME SessionInv, MarksInv, [Next]_vars PROVE MarksInv'
    OBVIOUS
<1>1. CASE ClientStep
    BY <1>1, MarksKept DEF ClientStep, SessionInv, TypeOK, ClientTypeOK
<1>2. CASE ServerStep \/ NetworkStep \/ TimerStep \/ Terminated \/ UNCHANGED vars
    <2>1. UNCHANGED <<have, count>>
        BY <1>2 DEF ServerStep, NetworkStep, TimerStep, Terminated, vars,
           clientVars, batchVars
    <2> QED
        BY <2>1 DEF MarksInv
<1> QED
    BY <1>1, <1>2 DEF Next

(***************************************************************************)
(* A REJ asks for as many packets as the batch is short of and never for   *)
(* none, however often a packet came twice, for every size of batch.       *)
(***************************************************************************)
THEOREM RestIsAskedFor == Spec => []RejectAsksForTheRest
<1>1. Init => MarksInv
    BY FS_EmptySet DEF Init, ClientInit, MarksInv
<1>2. SessionInv /\ MarksInv => RejectAsksForTheRest
    <2> SUFFICES ASSUME SessionInv, MarksInv, cPc = "check", count # PerBatchC
                 PROVE  /\ count < PerBatchC
                        /\ Cardinality(Missing) = PerBatchC - count
        BY DEF RejectAsksForTheRest
    <2>1. ClientTypeOK /\ count <= PerBatchC
        BY DEF SessionInv, TypeOK, BatchInv
    <2>2. count \in Nat /\ PerBatchC \in Nat
        BY <2>1, BatchBounds DEF ClientTypeOK
    <2> QED
        BY <2>1, <2>2, RestIsListed
<1> QED
    BY <1>1, <1>2, MarksStep, SessionInvariant, PTL DEF Spec

-----------------------------------------------------------------------------
(***************************************************************************)
(* Both sides go by the same quality whenever a batch is requested or      *)
(* collected, for every budget of disturbances, as long as requests arrive *)
(* in the order they were sent.                                            *)
(***************************************************************************)

(***************************************************************************)
(* What the argument needs to know of a queue: which flags are in it, and  *)
(* whether the early ones come before the late ones.                       *)
(***************************************************************************)
Has(q, flags) == \E i \in 1..Len(q) : q[i].flag \in flags

InOrder(q, early, late) ==
    \A i, j \in 1..Len(q) :
        i < j /\ q[i].flag \in late => q[j].flag \notin early

Sending == sPc \in {"batch", "resend"}

(***************************************************************************)
(* While a batch is requested and collected, what is left of an exchange   *)
(* about the quality (its repetitions) comes before any music.             *)
(***************************************************************************)
QualityFirst ==
    /\ InOrder(s2c, {"ACK"}, {"NONE"})
    /\ InOrder(c2s, {"ACK", "QTY"}, {"RR", "REJ"})
    /\ Has(s2c, {"NONE"}) \/ Sending => ~Has(c2s, {"ACK", "QTY"})

(***************************************************************************)
(* While the quality is changed, what is left of a batch comes before any  *)
(* answer to the change.                                                   *)
(***************************************************************************)
MusicFirst ==
    /\ InOrder(s2c, {"NONE"}, {"ACK"})
    /\ InOrder(c2s, {"RR", "REJ"}, {"ACK", "QTY"})
    /\ Has(s2c, {"ACK"}) => ~Has(c2s, {"RR", "REJ"}) /\ ~Sending

NoQuality == ~Has(s2c, {"ACK"}) /\ ~Has(c2s, {"ACK", "QTY"})

AsksForOurs ==
    \A i \in 1..Len(c2s) :
        c2s[i].flag \in {"ACK", "QTY"} => c2s[i].arg = cQuality

ConnectOrder ==
    /\ ~Has(c2s, {"QTY", "RR", "REJ"}) /\ ~Has(s2c, {"NONE"}) /\ ~Sending
    /\ inUse => stage = "INITIAL" /\ sQuality = cQuality
    /\ Has(s2c, {"ACK"}) => seen

(***************************************************************************)
(* One packet that counts, and the exchange is over for good.              *)
(***************************************************************************)
SettledOrder ==
    /\ seen /\ sQuality = cQuality
    /\ QualityFirst
    /\ Has(c2s, {"ACK"}) => stage = "INITIAL"
    /\ count > 0 \/ cPc = "adjust" => NoQuality

ChangeOrder ==
    /\ seen /\ ~Has(c2s, {"ACK"})
    /\ MusicFirst
    /\ Has(s2c, {"ACK"}) => sQuality = cQuality

Settled == {"request", "peek", "collect", "check", "adjust"}

OrderInv ==
    /\ AsksForOurs
    /\ cPc \in {"connect", "connack"} => ConnectOrder
    /\ cPc \in Settled => SettledOrder
    /\ cPc \in {"qpeek", "qsend", "qack"} => ChangeOrder

(***************************************************************************)
(* Nothing is promised of a client that was let go, or once a request has  *)
(* been overtaken.                                                         *)
(***************************************************************************)
AgreementInv ==
    /\ delayed # {} => overtaken
    /\ ~overtaken /\ ~Stranger => OrderInv

-----------------------------------------------------------------------------
(***************************************************************************)
(* Queues.                                                                 *)
(***************************************************************************)
LEMMA HasAppend ==
    ASSUME NEW M, NEW q \in Seq(M), NEW m \in M, NEW flags
    PROVE  Has(Append(q, m), flags) <=> Has(q, flags) \/ m.flag \in flags
<1>1. /\ Len(Append(q, m)) = Len(q) + 1
      /\ \A i \in 1..Len(q) : Append(q, m)[i] = q[i]
      /\ Append(q, m)[Len(q) + 1] = m
    BY AppendProperties
<1>2. Len(q) \in Nat
    BY LenProperties
<1> QED
    BY <1>1, <1>2 DEF Has

LEMMA HasTail ==
    ASSUME NEW M, NEW q \in Seq(M), q # <<>>, NEW flags
    PROVE  /\ Has(Tail(q), flags) => Has(q, flags)
           /\ Head(q).flag \in flags => Has(q, flags)
<1>1. /\ Len(Tail(q)) = Len(q) - 1
      /\ \A i \in 1..Len(Tail(q)) : Tail(q)[i] = q[i + 1]
      /\ Head(q) = q[1]
    BY HeadTailProperties
<1>2. Len(q) \in Nat \ {0}
    BY EmptySeq
<1> QED
    BY <1>1, <1>2 DEF Has

LEMMA OrderAppend ==
    ASSUME NEW M, NEW q \in Seq(M), NEW m \in M, NEW early, NEW late,
           InOrder(q, early, late), m.flag \in early => ~Has(q, late)
    PROVE  InOrder(Append(q, m), early, late)
<1>1. /\ Len(Append(q, m)) = Len(q) + 1
      /\ \A i \in 1..Len(q) : Append(q, m)[i] = q[i]
      /\ Append(q, m)[Len(q) + 1] = m
    BY AppendProperties
<1>2. Len(q) \in Nat
    BY LenProperties
<1> SUFFICES ASSUME NEW i \in 1..(Len(q) + 1), NEW j \in 1..(Len(q) + 1),
                    i < j, Append(q, m)[i].flag \in late
             PROVE  Append(q, m)[j].flag \notin early
    BY <1>1 DEF InOrder
<1>3. i \in 1..Len(q) /\ q[i].flag \in late
    BY <1>1, <1>2
<1>4. CASE j \in 1..Len(q)
    BY <1>1, <1>3, <1>4 DEF InOrder
<1>5. CASE j = Len(q) + 1
    BY <1>1, <1>3, <1>5 DEF Has
<1> QED
    BY <1>2, <1>4, <1>5

LEMMA OrderTail ==
    ASSUME NEW M, NEW q \in Seq(M), q # <<>>, NEW early, NEW late,
           InOrder(q, early, late)
    PROVE  /\ InOrder(Tail(q), early, late)
           /\ Head(q).flag \in late => ~Has(Tail(q), early)
<1>1. /\ Len(Tail(q)) = Len(q) - 1
      /\ \A i \in 1..Len(Tail(q)) : Tail(q)[i] = q[i + 1]
      /\ Head(q) = q[1]
    BY HeadTailProperties
<1>2. Len(q) \in Nat \ {0}
    BY EmptySeq
<1>3. InOrder(Tail(q), early, late)
    BY <1>1, <1>2 DEF InOrder
<1>4. \A j \in 1..Len(Tail(q)) :
        Head(q).flag \in late => Tail(q)[j].flag \notin early
    BY <1>1, <1>2 DEF InOrder
<1> QED
    BY <1>3, <1>4 DEF Has

LEMMA OrderOfOneKind ==
    ASSUME NEW q, NEW early, NEW late, ~Has(q, early) \/ ~Has(q, late)
    PROVE  InOrder(q, early, late)
BY DEF Has, InOrder

LEMMA Kinds ==
    ASSUME NEW q
    PROVE  /\ Has(q, {"ACK"}) => Has(q, {"ACK", "QTY"})
           /\ Has(q, {"RR", "REJ"}) => Has(q, {"QTY", "RR", "REJ"})
           /\ Has(q, {"ACK", "QTY"}) =>
                 Has(q, {"ACK"}) \/ Has(q, {"QTY", "RR", "REJ"})
BY DEF Has

-----------------------------------------------------------------------------
(***************************************************************************)
(* A queue from which something may have been taken.                       *)
(***************************************************************************)
FewerRequests ==
    /\ Has(c2s', {"ACK"}) => Has(c2s, {"ACK"})
    /\ Has(c2s', {"ACK", "QTY"}) => Has(c2s, {"ACK", "QTY"})
    /\ Has(c2s', {"RR", "REJ"}) => Has(c2s, {"RR", "REJ"})
    /\ Has(c2s', {"QTY", "RR", "REJ"}) => Has(c2s, {"QTY", "RR", "REJ"})
    /\ InOrder(c2s, {"ACK", "QTY"}, {"RR", "REJ"})
          => InOrder(c2s', {"ACK", "QTY"}, {"RR", "REJ"})
    /\ InOrder(c2s, {"RR", "REJ"}, {"ACK", "QTY"})
          => InOrder(c2s', {"RR", "REJ"}, {"ACK", "QTY"})
    /\ AsksForOurs /\ UNCHANGED cQuality => AsksForOurs'

FewerReplies ==
    /\ Has(s2c', {"ACK"}) => Has(s2c, {"ACK"})
    /\ Has(s2c', {"NONE"}) => Has(s2c, {"NONE"})
    /\ InOrder(s2c, {"ACK"}, {"NONE"}) => InOrder(s2c', {"ACK"}, {"NONE"})
    /\ InOrder(s2c, {"NONE"}, {"ACK"}) => InOrder(s2c', {"NONE"}, {"ACK"})

LEMMA SameRequests == UNCHANGED c2s => FewerRequests
BY DEF FewerRequests, AsksForOurs

LEMMA SameReplies == UNCHANGED s2c => FewerReplies
BY DEF FewerReplies

LEMMA NoRequests ==
    ASSUME c2s' = <<>>
    PROVE  FewerRequests
<1>1. Len(<<>>) = 0
    BY EmptySeq
<1>2. \A flags : ~Has(<<>>, flags)
    BY <1>1 DEF Has
<1>3. /\ InOrder(<<>>, {"ACK", "QTY"}, {"RR", "REJ"})
      /\ InOrder(<<>>, {"RR", "REJ"}, {"ACK", "QTY"})
    BY <1>1 DEF InOrder
<1>4. AsksForOurs'
    BY <1>1 DEF AsksForOurs
<1> QED
    BY <1>2, <1>3, <1>4 DEF FewerRequests

LEMMA RequestTaken ==
    ASSUME QueueTypeOK, c2s # <<>>, c2s' = Tail(c2s)
    PROVE  /\ FewerRequests
           /\ AsksForOurs /\ Head(c2s).flag \in {"ACK", "QTY"}
                 => Head(c2s).arg = cQuality
           /\ Head(c2s).flag = "ACK" => Has(c2s, {"ACK"})
           /\ Head(c2s).flag \in {"ACK", "QTY"} => Has(c2s, {"ACK", "QTY"})
           /\ Head(c2s).flag \in {"RR", "REJ"} => Has(c2s, {"RR", "REJ"})
           /\ Head(c2s).flag \in {"QTY", "RR", "REJ"}
                 => Has(c2s, {"QTY", "RR", "REJ"})
           /\ InOrder(c2s, {"ACK", "QTY"}, {"RR", "REJ"}) =>
                 (Head(c2s).flag \in {"RR", "REJ"} => ~Has(c2s', {"ACK", "QTY"}))
           /\ InOrder(c2s, {"RR", "REJ"}, {"ACK", "QTY"}) =>
                 (Head(c2s).flag \in {"ACK", "QTY"} => ~Has(c2s', {"RR", "REJ"}))
<1>1. c2s \in Seq(Request)
    BY DEF QueueTypeOK
<1>2. /\ Len(Tail(c2s)) = Len(c2s) - 1
      /\ \A i \in 1..Len(Tail(c2s)) : Tail(c2s)[i] = c2s[i + 1]
      /\ Head(c2s) = c2s[1]
    BY <1>1, HeadTailProperties
<1>3. Len(c2s) \in Nat \ {0}
    BY <1>1, EmptySeq
<1>4. AsksForOurs /\ UNCHANGED cQuality => AsksForOurs'
    BY <1>2, <1>3 DEF AsksForOurs
<1>5. AsksForOurs /\ Head(c2s).flag \in {"ACK", "QTY"}
        => Head(c2s).arg = cQuality
    BY <1>2, <1>3 DEF AsksForOurs
<1>6. FewerRequests
    BY <1>1, <1>4, HasTail, OrderTail DEF FewerRequests
<1>7. /\ Head(c2s).flag = "ACK" => Has(c2s, {"ACK"})
      /\ Head(c2s).flag \in {"ACK", "QTY"} => Has(c2s, {"ACK", "QTY"})
      /\ Head(c2s).flag \in {"RR", "REJ"} => Has(c2s, {"RR", "REJ"})
      /\ Head(c2s).flag \in {"QTY", "RR", "REJ"}
            => Has(c2s, {"QTY", "RR", "REJ"})
    BY <1>1, HasTail
<1>8. /\ InOrder(c2s, {"ACK", "QTY"}, {"RR", "REJ"}) =>
            (Head(c2s).flag \in {"RR", "REJ"} => ~Has(c2s', {"ACK", "QTY"}))
      /\ InOrder(c2s, {"RR", "REJ"}, {"ACK", "QTY"}) =>
            (Head(c2s).flag \in {"ACK", "QTY"} => ~Has(c2s', {"RR", "REJ"}))
    BY <1>1, OrderTail
<1> QED
    BY <1>5, <1>6, <1>7, <1>8

LEMMA ReplyTaken ==
    ASSUME QueueTypeOK, NEW peek \in BOOLEAN, ClientReceives(peek)
    PROVE  /\ FewerReplies /\ UNCHANGED c2s
           /\ Head(s2c).flag = "ACK" => Has(s2c, {"ACK"})
           /\ Head(s2c).flag = "NONE" => Has(s2c, {"NONE"})
           /\ ~peek /\ InOrder(s2c, {"ACK"}, {"NONE"}) =>
                 (Head(s2c).flag = "NONE" => ~Has(s2c', {"ACK"}))
           /\ ~peek /\ InOrder(s2c, {"NONE"}, {"ACK"}) =>
                 (Head(s2c).flag = "ACK" => ~Has(s2c', {"NONE"}))
<1>1. s2c \in Seq(Reply) /\ s2c # <<>> /\ UNCHANGED c2s
    BY DEF QueueTypeOK, ClientReceives
<1>2. s2c' = s2c \/ s2c' = Tail(s2c)
    BY DEF ClientReceives, AfterReceive
<1>3. ~peek => s2c' = Tail(s2c)
    BY DEF ClientReceives, AfterReceive
<1>4. FewerReplies
    <2>1. CASE s2c' = s2c
        BY <2>1 DEF FewerReplies
    <2>2. CASE s2c' = Tail(s2c)
        BY <1>1, <2>2, HasTail, OrderTail DEF FewerReplies
    <2> QED
        BY <1>2, <2>1, <2>2
<1>5. /\ Head(s2c).flag = "ACK" => Has(s2c, {"ACK"})
      /\ Head(s2c).flag = "NONE" => Has(s2c, {"NONE"})
    BY <1>1, HasTail
<1>6. /\ ~peek /\ InOrder(s2c, {"ACK"}, {"NONE"}) =>
            (Head(s2c).flag = "NONE" => ~Has(s2c', {"ACK"}))
      /\ ~peek /\ InOrder(s2c, {"NONE"}, {"ACK"}) =>
            (Head(s2c).flag = "ACK" => ~Has(s2c', {"NONE"}))
    BY <1>1, <1>3, OrderTail
<1> QED
    BY <1>1, <1>4, <1>5, <1>6

(***************************************************************************)
(* Sending.                                                                *)
(***************************************************************************)
LEMMA ReplySent ==
    ASSUME QueueTypeOK, NEW m \in Reply, ToClient(m) \/ Leaves(m)
    PROVE  s2c' = s2c \/ \E r \in Reply : s2c' = Append(s2c, r) /\ r.flag = m.flag
<1>1. CASE ToClient(m)
    BY <1>1, SpoiledReply DEF ToClient
<1>2. CASE s2c' = s2c
    BY <1>2
<1>3. CASE s2c' = Append(s2c, [m EXCEPT !.fit = "head"])
    BY <1>3, SpoiledReply DEF Fits
<1> QED
    BY <1>1, <1>2, <1>3 DEF Leaves

LEMMA RequestSent ==
    ASSUME QueueTypeOK, NEW m \in Request, ToServer(m)
    PROVE  \/ c2s' = c2s
           \/ \E r \in Request : /\ c2s' = Append(c2s, r)
                                 /\ r.flag = m.flag /\ r.arg = m.arg
<1>1. CASE c2s' = Append(c2s, m) \/ c2s' = c2s
    BY <1>1
<1>2. CASE \E f \in Fits : c2s' = Append(c2s, [m EXCEPT !.fit = f])
    <2>1. PICK f \in Fits : c2s' = Append(c2s, [m EXCEPT !.fit = f])
        BY <1>2
    <2>2. /\ [m EXCEPT !.fit = f] \in Request
          /\ [m EXCEPT !.fit = f].flag = m.flag
          /\ [m EXCEPT !.fit = f].arg = m.arg
        BY SpoiledRequest DEF Request, QualityRequest, BatchRequest
    <2> QED
        BY <2>1, <2>2
<1> QED
    BY <1>1, <1>2 DEF ToServer

LEMMA MusicQueued ==
    ASSUME QueueTypeOK, NEW m \in Reply, m.flag = "NONE", Leaves(m)
    PROVE  /\ Has(s2c', {"ACK"}) => Has(s2c, {"ACK"})
           /\ InOrder(s2c, {"ACK"}, {"NONE"}) => InOrder(s2c', {"ACK"}, {"NONE"})
           /\ ~Has(s2c, {"ACK"}) => InOrder(s2c', {"NONE"}, {"ACK"})
<1>1. s2c \in Seq(Reply)
    BY DEF QueueTypeOK
<1>2. CASE s2c' = s2c
    BY <1>2, OrderOfOneKind
<1>3. ASSUME NEW r \in Reply, s2c' = Append(s2c, r), r.flag = "NONE"
      PROVE  /\ Has(s2c', {"ACK"}) => Has(s2c, {"ACK"})
             /\ InOrder(s2c, {"ACK"}, {"NONE"})
                   => InOrder(s2c', {"ACK"}, {"NONE"})
             /\ ~Has(s2c, {"ACK"}) => InOrder(s2c', {"NONE"}, {"ACK"})
    <2>1. Has(s2c', {"ACK"}) => Has(s2c, {"ACK"})
        BY <1>1, <1>3, HasAppend
    <2>2. InOrder(s2c, {"ACK"}, {"NONE"}) => InOrder(s2c', {"ACK"}, {"NONE"})
        BY <1>1, <1>3, OrderAppend
    <2> QED
        BY <2>1, <2>2, OrderOfOneKind
<1> QED
    BY <1>2, <1>3, ReplySent

LEMMA AnswerQueued ==
    ASSUME QueueTypeOK, NEW m \in Reply, m.flag = "ACK", ToClient(m)
    PROVE  /\ Has(s2c', {"NONE"}) => Has(s2c, {"NONE"})
           /\ InOrder(s2c, {"NONE"}, {"ACK"}) => InOrder(s2c', {"NONE"}, {"ACK"})
           /\ ~Has(s2c, {"NONE"}) => InOrder(s2c', {"ACK"}, {"NONE"})
<1>1. s2c \in Seq(Reply)
    BY DEF QueueTypeOK
<1>2. CASE s2c' = s2c
    BY <1>2, OrderOfOneKind
<1>3. ASSUME NEW r \in Reply, s2c' = Append(s2c, r), r.flag = "ACK"
      PROVE  /\ Has(s2c', {"NONE"}) => Has(s2c, {"NONE"})
             /\ InOrder(s2c, {"NONE"}, {"ACK"})
                   => InOrder(s2c', {"NONE"}, {"ACK"})
             /\ ~Has(s2c, {"NONE"}) => InOrder(s2c', {"ACK"}, {"NONE"})
    <2>1. Has(s2c', {"NONE"}) => Has(s2c, {"NONE"})
        BY <1>1, <1>3, HasAppend
    <2>2. InOrder(s2c, {"NONE"}, {"ACK"}) => InOrder(s2c', {"NONE"}, {"ACK"})
        BY <1>1, <1>3, OrderAppend
    <2> QED
        BY <2>1, <2>2, OrderOfOneKind
<1> QED
    BY <1>2, <1>3, ReplySent

LEMMA BatchQueued ==
    ASSUME QueueTypeOK, NEW m \in Request, m.flag \in {"RR", "REJ"},
           ToServer(m), UNCHANGED cQuality
    PROVE  /\ Has(c2s', {"ACK"}) => Has(c2s, {"ACK"})
           /\ Has(c2s', {"ACK", "QTY"}) => Has(c2s, {"ACK", "QTY"})
           /\ InOrder(c2s, {"ACK", "QTY"}, {"RR", "REJ"})
                 => InOrder(c2s', {"ACK", "QTY"}, {"RR", "REJ"})
           /\ AsksForOurs => AsksForOurs'
<1>1. c2s \in Seq(Request)
    BY DEF QueueTypeOK
<1>2. CASE c2s' = c2s
    BY <1>2 DEF AsksForOurs
<1>3. ASSUME NEW r \in Request, c2s' = Append(c2s, r), r.flag \in {"RR", "REJ"}
      PROVE  /\ Has(c2s', {"ACK"}) => Has(c2s, {"ACK"})
             /\ Has(c2s', {"ACK", "QTY"}) => Has(c2s, {"ACK", "QTY"})
             /\ InOrder(c2s, {"ACK", "QTY"}, {"RR", "REJ"})
                   => InOrder(c2s', {"ACK", "QTY"}, {"RR", "REJ"})
             /\ AsksForOurs => AsksForOurs'
    <2>1. /\ Has(c2s', {"ACK"}) => Has(c2s, {"ACK"})
          /\ Has(c2s', {"ACK", "QTY"}) => Has(c2s, {"ACK", "QTY"})
        BY <1>1, <1>3, HasAppend
    <2>2. InOrder(c2s, {"ACK", "QTY"}, {"RR", "REJ"})
            => InOrder(c2s', {"ACK", "QTY"}, {"RR", "REJ"})
        BY <1>1, <1>3, OrderAppend
    <2>3. /\ Len(c2s') = Len(c2s) + 1
          /\ \A i \in 1..Len(c2s) : c2s'[i] = c2s[i]
          /\ c2s'[Len(c2s) + 1] = r
          /\ Len(c2s) \in Nat
        BY <1>1, <1>3, AppendProperties, LenProperties
    <2>4. AsksForOurs => AsksForOurs'
        BY <1>3, <2>3 DEF AsksForOurs
    <2> QED
        BY <2>1, <2>2, <2>4
<1> QED
    BY <1>2, <1>3, RequestSent

LEMMA QualityQueued ==
    ASSUME QueueTypeOK, NEW m \in Request, m.flag \in {"ACK", "QTY"},
           m.arg = cQuality, ToServer(m), UNCHANGED cQuality
    PROVE  /\ m.flag = "ACK" => (Has(c2s', {"QTY", "RR", "REJ"})
                                   => Has(c2s, {"QTY", "RR", "REJ"}))
           /\ m.flag = "QTY" => (Has(c2s', {"ACK"}) => Has(c2s, {"ACK"}))
           /\ Has(c2s', {"RR", "REJ"}) => Has(c2s, {"RR", "REJ"})
           /\ InOrder(c2s, {"RR", "REJ"}, {"ACK", "QTY"})
                 => InOrder(c2s', {"RR", "REJ"}, {"ACK", "QTY"})
           /\ AsksForOurs => AsksForOurs'
<1>1. c2s \in Seq(Request)
    BY DEF QueueTypeOK
<1>2. CASE c2s' = c2s
    BY <1>2 DEF AsksForOurs
<1>3. ASSUME NEW r \in Request, c2s' = Append(c2s, r),
             r.flag = m.flag, r.arg = m.arg
      PROVE  /\ m.flag = "ACK" => (Has(c2s', {"QTY", "RR", "REJ"})
                                     => Has(c2s, {"QTY", "RR", "REJ"}))
             /\ m.flag = "QTY" => (Has(c2s', {"ACK"}) => Has(c2s, {"ACK"}))
             /\ Has(c2s', {"RR", "REJ"}) => Has(c2s, {"RR", "REJ"})
             /\ InOrder(c2s, {"RR", "REJ"}, {"ACK", "QTY"})
                   => InOrder(c2s', {"RR", "REJ"}, {"ACK", "QTY"})
             /\ AsksForOurs => AsksForOurs'
    <2>1. /\ m.flag = "ACK" => (Has(c2s', {"QTY", "RR", "REJ"})
                                  => Has(c2s, {"QTY", "RR", "REJ"}))
          /\ m.flag = "QTY" => (Has(c2s', {"ACK"}) => Has(c2s, {"ACK"}))
          /\ Has(c2s', {"RR", "REJ"}) => Has(c2s, {"RR", "REJ"})
        BY <1>1, <1>3, HasAppend
    <2>2. InOrder(c2s, {"RR", "REJ"}, {"ACK", "QTY"})
            => InOrder(c2s', {"RR", "REJ"}, {"ACK", "QTY"})
        BY <1>1, <1>3, OrderAppend
    <2>3. /\ Len(c2s') = Len(c2s) + 1
          /\ \A i \in 1..Len(c2s) : c2s'[i] = c2s[i]
          /\ c2s'[Len(c2s) + 1] = r
          /\ Len(c2s) \in Nat
        BY <1>1, <1>3, AppendProperties, LenProperties
    <2>4. AsksForOurs => AsksForOurs'
        BY <1>3, <2>3 DEF AsksForOurs
    <2> QED
        BY <2>1, <2>2, <2>4
<1> QED
    BY <1>2, <1>3, RequestSent

-----------------------------------------------------------------------------
(***************************************************************************)
(* What a step of the server is to the argument, as long as the client is  *)
(* not let go: requests are taken or dropped; a quality is taken over and  *)
(* acknowledged; a batch or a resend begins, goes on, ends; or a late ACK  *)
(* makes the server repeat its last task.                                  *)
(***************************************************************************)
Takes ==
    /\ FewerRequests
    /\ UNCHANGED <<s2c, seen, inUse, stage, sQuality>>
    /\ Sending' => Sending

TakesHead == c2s # <<>> /\ c2s' = Tail(c2s)

Acknowledges ==
    /\ TakesHead /\ ~Sending /\ ~Sending'
    /\ \E m \in Reply : m.flag = "ACK" /\ ToClient(m)
    /\ \/ Head(c2s).flag = "ACK" /\ stage' = "INITIAL"
       \/ Head(c2s).flag = "QTY" /\ stage' = stage
    /\ seen' /\ sQuality' = Head(c2s).arg

Begins ==
    /\ TakesHead /\ Head(c2s).flag \in {"RR", "REJ"}
    /\ seen' /\ UNCHANGED <<s2c, sQuality>>

GoesOn ==
    /\ Sending /\ UNCHANGED <<c2s, seen, inUse, stage, sQuality>>
    /\ \E m \in Reply : m.flag = "NONE" /\ Leaves(m)

Finishes ==
    /\ Sending /\ ~Sending'
    /\ UNCHANGED <<c2s, s2c, seen, sQuality>>

Repeats == TakesHead /\ Head(c2s).flag = "ACK" /\ inUse /\ stage # "INITIAL"

LEMMA CrashTakes ==
    ASSUME Crash, FewerRequests
    PROVE  Takes
BY DEF Crash, Takes, slotVars, Sending

LEMMA ServerMoves ==
    ASSUME SessionInv, ~Stranger, (~Stranger)', ServerNext
    PROVE  Takes \/ Acknowledges \/ Begins \/ GoesOn \/ Finishes \/ Repeats
<1>1. QueueTypeOK /\ ServerTypeOK /\ (inUse => seen)
    BY DEF SessionInv, TypeOK, NetTypeOK, SlotInv
<1>2. inUse \/ ~seen
    BY DEF Stranger
<1>3. ServerReceives => TakesHead /\ sPc = "receive"
    BY DEF ServerReceives, AfterReceive, TakesHead
<1>4. TakesHead => FewerRequests
    BY <1>1, RequestTaken DEF TakesHead
<1>5. CASE ReceiveFaulty
    BY <1>4, <1>5
    DEF ReceiveFaulty, AfterReceive, TakesHead, Takes, slotVars, Sending
<1>6. CASE Swallow
    BY <1>4, <1>6, CrashTakes
    DEF Swallow, TakesHead, Takes, slotVars, Sending
<1>7. CASE RejectStranger
    BY <1>7 DEF RejectStranger
<1>8. CASE HandleACK
    <2>1. FlagOnly("ACK") \in Reply /\ FlagOnly("ACK").flag = "ACK"
        BY DEF FlagOnly, Reply, Codecs, Fits
    <2> QED
        BY <1>3, <1>8, <2>1
        DEF HandleACK, Acknowledges, AnswerFlag, Register, Sending
<1>9. CASE HandleQTY
    <2>1. FlagOnly("ACK") \in Reply /\ FlagOnly("ACK").flag = "ACK"
        BY DEF FlagOnly, Reply, Codecs, Fits
    <2> QED
        BY <1>1, <1>3, <1>9, <2>1
        DEF HandleQTY, Acknowledges, AnswerFlag, Stage, Sending
<1>10. CASE HandleRR
    BY <1>3, <1>10 DEF HandleRR, Begins, Register, StartBatch
<1>11. CASE EndStream
    <2>1. inUse
        BY <1>11 DEF EndStream, Stage
    <2> QED
        BY <1>1, <1>11, <2>1 DEF EndStream, Stranger
<1>12. CASE HandleREJ
    BY <1>1, <1>3, <1>12 DEF HandleREJ, StartResend, Begins, Stage
<1>13. CASE HandleFirstREJ
    <2>1. CASE Crash
        BY <1>3, <1>4, <1>13, <2>1, CrashTakes DEF HandleFirstREJ
    <2>2. CASE ResendAnything /\ stage' = "INTERMEDIATE" /\ Register
        BY <1>3, <1>13, <2>2
        DEF HandleFirstREJ, ResendAnything, StartResend, Register, Begins
    <2> QED
        BY <1>13, <2>1, <2>2 DEF HandleFirstREJ
<1>14. CASE RepeatLastTask
    BY <1>3, <1>14 DEF RepeatLastTask, Repeats, Stage
<1>15. CASE SendPacket
    <2>1. PICK n \in NextToSend :
              /\ sPc \in {"batch", "resend"}
              /\ Leaves(MusicPacket(n))
              /\ UNCHANGED <<sPc, seen, inUse, stage, sQuality, c2s>>
        BY <1>15 DEF SendPacket
    <2>2. n \in Nat
        BY <1>1 DEF NextToSend, ServerTypeOK
    <2>3. MusicPacket(n) \in Reply /\ MusicPacket(n).flag = "NONE"
        BY <1>1, <2>2, MusicPacketType
    <2> QED
        BY <2>1, <2>3 DEF GoesOn, Sending
<1>16. CASE SendCrash
    BY <1>16, CrashTakes, SameRequests DEF SendCrash
<1>17. CASE FinishBatch
    BY <1>17 DEF FinishBatch, Finishes, Sending, netVars
<1>18. CASE FinishResend
    <2>1. CASE Crash
        BY <1>18, <2>1, CrashTakes, SameRequests DEF FinishResend
    <2>2. CASE ~Crash
        BY <1>18, <2>2 DEF FinishResend, Finishes, Sending
    <2> QED
        BY <2>1, <2>2
<1>19. CASE NobodyListens
    BY <1>19, NoRequests
    DEF NobodyListens, Takes, serverVars, slotVars, Sending
<1> QED
    BY <1>5, <1>6, <1>7, <1>8, <1>9, <1>10, <1>11, <1>12, <1>13, <1>14,
       <1>15, <1>16, <1>17, <1>18, <1>19
    DEF ServerNext, ReceiveStep, SendStep

(***************************************************************************)
(* The server keeps the order in each phase of the client.                 *)
(***************************************************************************)
LEMMA OursKept ==
    ASSUME QueueTypeOK, AsksForOurs, UNCHANGED cQuality,
           Takes \/ Acknowledges \/ Begins \/ GoesOn \/ Finishes \/ Repeats
    PROVE  AsksForOurs'
<1>1. FewerRequests
    BY RequestTaken, SameRequests
    DEF Takes, Acknowledges, Begins, GoesOn, Finishes, Repeats, TakesHead
<1> QED
    BY <1>1 DEF FewerRequests

LEMMA ConnectOrderKept ==
    ASSUME QueueTypeOK, AsksForOurs, ConnectOrder, UNCHANGED cQuality,
           Takes \/ Acknowledges \/ Begins \/ GoesOn \/ Finishes \/ Repeats
    PROVE  ConnectOrder'
<1>1. ~Begins
    BY RequestTaken DEF Begins, TakesHead, ConnectOrder
<1>2. ~GoesOn /\ ~Finishes
    BY DEF GoesOn, Finishes, ConnectOrder
<1>3. ~Repeats
    BY DEF Repeats, ConnectOrder
<1>4. CASE Takes
    BY <1>4 DEF Takes, FewerRequests, ConnectOrder
<1>5. CASE Acknowledges
    <2>1. FewerRequests
        BY <1>5, RequestTaken DEF Acknowledges, TakesHead
    <2>2. Head(c2s).flag = "ACK" /\ stage' = "INITIAL"
        BY <1>5, RequestTaken DEF Acknowledges, TakesHead, ConnectOrder
    <2>3. sQuality' = cQuality
        BY <1>5, <2>2, RequestTaken DEF Acknowledges, TakesHead
    <2>4. Has(s2c', {"NONE"}) => Has(s2c, {"NONE"})
        BY <1>5, AnswerQueued DEF Acknowledges
    <2> QED
        BY <1>5, <2>1, <2>2, <2>3, <2>4
        DEF Acknowledges, FewerRequests, ConnectOrder
<1> QED
    BY <1>1, <1>2, <1>3, <1>4, <1>5

LEMMA SettledOrderKept ==
    ASSUME QueueTypeOK, AsksForOurs, SettledOrder, inUse,
           UNCHANGED <<cQuality, cPc, count>>,
           Takes \/ Acknowledges \/ Begins \/ GoesOn \/ Finishes \/ Repeats
    PROVE  SettledOrder'
<1> USE DEF SettledOrder, QualityFirst, NoQuality
<1>1. ~Repeats
    BY RequestTaken DEF Repeats, TakesHead
<1>2. CASE Takes
    BY <1>2 DEF Takes, FewerRequests
<1>3. CASE Acknowledges
    <2>1. FewerRequests /\ Has(c2s, {"ACK", "QTY"}) /\ sQuality' = cQuality
        BY <1>3, RequestTaken DEF Acknowledges, TakesHead
    <2>2. /\ Has(s2c', {"NONE"}) => Has(s2c, {"NONE"})
          /\ InOrder(s2c', {"ACK"}, {"NONE"})
        BY <1>3, <2>1, AnswerQueued DEF Acknowledges
    <2>3. ~Has(s2c', {"NONE"}) /\ ~Sending'
        BY <1>3, <2>1, <2>2 DEF Acknowledges
    <2>4. Has(c2s', {"ACK"}) => stage' = "INITIAL"
        BY <1>3, <2>1 DEF Acknowledges, FewerRequests
    <2> QED
        BY <1>3, <2>1, <2>2, <2>3, <2>4 DEF Acknowledges, FewerRequests
<1>4. CASE Begins
    <2>1. FewerRequests /\ ~Has(c2s', {"ACK", "QTY"})
        BY <1>4, RequestTaken DEF Begins, TakesHead
    <2>2. ~Has(c2s', {"ACK"})
        BY <2>1, Kinds
    <2> QED
        BY <1>4, <2>1, <2>2 DEF Begins, FewerRequests
<1>5. CASE GoesOn
    <2>1. /\ Has(s2c', {"ACK"}) => Has(s2c, {"ACK"})
          /\ InOrder(s2c', {"ACK"}, {"NONE"})
        BY <1>5, MusicQueued DEF GoesOn
    <2> QED
        BY <1>5, <2>1 DEF GoesOn
<1>6. CASE Finishes
    <2>1. ~Has(c2s, {"ACK", "QTY"}) /\ ~Has(c2s, {"ACK"})
        BY <1>6, Kinds DEF Finishes
    <2> QED
        BY <1>6, <2>1 DEF Finishes
<1> QED
    BY <1>1, <1>2, <1>3, <1>4, <1>5, <1>6

LEMMA ChangeOrderKept ==
    ASSUME QueueTypeOK, AsksForOurs, ChangeOrder, UNCHANGED cQuality,
           Takes \/ Acknowledges \/ Begins \/ GoesOn \/ Finishes \/ Repeats
    PROVE  ChangeOrder'
<1> USE DEF ChangeOrder, MusicFirst
<1>1. ~Repeats
    BY RequestTaken DEF Repeats, TakesHead
<1>2. CASE Takes
    BY <1>2 DEF Takes, FewerRequests
<1>3. CASE Acknowledges
    <2>1. /\ FewerRequests /\ ~Has(c2s', {"RR", "REJ"})
          /\ sQuality' = cQuality
        BY <1>3, RequestTaken DEF Acknowledges, TakesHead
    <2>2. InOrder(s2c', {"NONE"}, {"ACK"})
        BY <1>3, AnswerQueued DEF Acknowledges
    <2> QED
        BY <1>3, <2>1, <2>2 DEF Acknowledges, FewerRequests
<1>4. CASE Begins
    <2>1. FewerRequests /\ ~Has(s2c, {"ACK"})
        BY <1>4, RequestTaken DEF Begins, TakesHead
    <2> QED
        BY <1>4, <2>1 DEF Begins, FewerRequests
<1>5. CASE GoesOn
    <2>1. ~Has(s2c, {"ACK"})
        BY <1>5 DEF GoesOn
    <2>2. ~Has(s2c', {"ACK"}) /\ InOrder(s2c', {"NONE"}, {"ACK"})
        BY <1>5, <2>1, MusicQueued DEF GoesOn
    <2> QED
        BY <1>5, <2>2 DEF GoesOn
<1>6. CASE Finishes
    BY <1>6 DEF Finishes
<1> QED
    BY <1>1, <1>2, <1>3, <1>4, <1>5, <1>6

LEMMA ServerKeepsOrder ==
    ASSUME SessionInv, OrderInv, ~Stranger, (~Stranger)', ServerNext,
           UNCHANGED <<cPc, cQuality, count>>
    PROVE  OrderInv'
<1>1. QueueTypeOK /\ AsksForOurs
    BY DEF SessionInv, TypeOK, NetTypeOK, OrderInv
<1>2. Takes \/ Acknowledges \/ Begins \/ GoesOn \/ Finishes \/ Repeats
    BY ServerMoves
<1>3. AsksForOurs'
    BY <1>1, <1>2, OursKept
<1>4. cPc \in {"connect", "connack"} => ConnectOrder'
    BY <1>1, <1>2, ConnectOrderKept DEF OrderInv
<1>5. cPc \in Settled => SettledOrder'
    <2>1. SettledOrder => inUse
        BY DEF SettledOrder, Stranger
    <2> QED
        BY <1>1, <1>2, <2>1, SettledOrderKept DEF OrderInv
<1>6. cPc \in {"qpeek", "qsend", "qack"} => ChangeOrder'
    BY <1>1, <1>2, ChangeOrderKept DEF OrderInv
<1> QED
    BY <1>3, <1>4, <1>5, <1>6 DEF OrderInv, Settled

-----------------------------------------------------------------------------
(***************************************************************************)
(* The client.  What it receives is taken from the head of its queue, and  *)
(* is no EOS as long as it has not been let go.                            *)
(***************************************************************************)
SlotAlone == UNCHANGED <<sPc, seen, inUse, stage, sQuality>>

LEMMA NothingAdded ==
    ASSUME QueueTypeOK, NEW silent,
           \/ TimesOut(silent)
           \/ SeesNoEOS(silent)
           \/ ClientReceives(FALSE)
    PROVE  FewerReplies /\ UNCHANGED c2s
<1>1. CASE TimesOut(silent)
    BY <1>1, SameReplies DEF TimesOut
<1>2. CASE ClientReceives(TRUE)
    BY <1>2, ReplyTaken
<1>3. CASE ClientReceives(FALSE)
    BY <1>3, ReplyTaken
<1> QED
    BY <1>1, <1>2, <1>3 DEF SeesNoEOS

LEMMA NoEOSYet ==
    ASSUME SessionInv, ~Stranger
    PROVE  ~SeesEOS
<1> SUFFICES ASSUME SeesEOS PROVE FALSE
    OBVIOUS
<1>1. s2c \in Seq(Reply) /\ s2c # <<>> /\ Head(s2c).flag = "EOS"
    BY DEF SeesEOS, ClientReceives, SessionInv, TypeOK, NetTypeOK, QueueTypeOK
<1>2. 1 \in 1..Len(s2c) /\ s2c[1] = Head(s2c)
    BY <1>1, AfterReceiveType
<1> QED
    BY <1>1, <1>2 DEF SessionInv, SlotInv, EOSOnTheWay, Stranger

LEMMA OursAlone ==
    ASSUME AsksForOurs, UNCHANGED <<c2s, cQuality>>
    PROVE  AsksForOurs'
BY DEF AsksForOurs

(***************************************************************************)
(* Steps that only take replies, or none, and stay in their phase.         *)
(***************************************************************************)
LEMMA QuietStep ==
    ASSUME OrderInv, SlotAlone, FewerReplies, UNCHANGED <<c2s, cQuality>>,
           \/ /\ cPc \in {"connect", "connack"}
              /\ cPc' \in {"connect", "connack", "exited"}
           \/ /\ cPc \in Settled /\ UNCHANGED count
              /\ cPc' \in {"request", "peek", "collect", "check", "exited"}
           \/ /\ cPc \in {"qpeek", "qsend", "qack"}
              /\ cPc' \in {"qpeek", "qsend", "qack"}
           \/ cPc' \in {"drain", "done", "exited", "crashed"}
    PROVE  OrderInv'
<1>1. AsksForOurs'
    BY OursAlone DEF OrderInv
<1>2. cPc' \in {"connect", "connack"} => ConnectOrder'
    BY DEF OrderInv, ConnectOrder, Settled, FewerReplies, SlotAlone, Sending
<1>3. cPc' \in Settled => SettledOrder'
    BY DEF OrderInv, SettledOrder, Settled, QualityFirst, NoQuality,
           FewerReplies, SlotAlone, Sending
<1>4. cPc' \in {"qpeek", "qsend", "qack"} => ChangeOrder'
    BY DEF OrderInv, ChangeOrder, Settled, MusicFirst, FewerReplies,
           SlotAlone, Sending
<1> QED
    BY <1>1, <1>2, <1>3, <1>4 DEF OrderInv, Settled

LEMMA ConnectKeepsOrder ==
    ASSUME SessionInv, SessionInv', OrderInv, SlotAlone, ~Stranger,
           NEW silent, ConnectStep(silent)
    PROVE  OrderInv'
<1>1. QueueTypeOK
    BY DEF SessionInv, TypeOK, NetTypeOK
<1>2. CASE Connect
    <2> DEFINE m == RequestOf("ACK", cQuality, {})
    <2>1. m \in Request /\ m.flag = "ACK" /\ m.arg = cQuality /\ ToServer(m)
        BY <1>2, RequestTypes
        DEF Connect, Sends, RequestOf, SessionInv, TypeOK, ClientTypeOK
    <2>2. ConnectOrder /\ AsksForOurs
        BY <1>2 DEF Connect, OrderInv
    <2>3. /\ Has(c2s', {"QTY", "RR", "REJ"}) => Has(c2s, {"QTY", "RR", "REJ"})
          /\ AsksForOurs'
        BY <1>1, <1>2, <2>1, <2>2, QualityQueued DEF Connect, qualityVars
    <2>4. ConnectOrder'
        BY <1>2, <2>2, <2>3
        DEF Connect, Sends, ConnectOrder, SlotAlone, Sending, qualityVars
    <2> QED
        BY <1>2, <2>3, <2>4 DEF Connect, OrderInv, Settled
<1>3. CASE Connected
    <2>1. /\ FewerReplies /\ UNCHANGED <<c2s, cQuality, count>>
          /\ Has(s2c, {"ACK"})
        BY <1>1, <1>3, ReplyTaken DEF Connected, qualityVars, batchVars
    <2>2. ConnectOrder /\ AsksForOurs /\ seen /\ inUse
        BY <1>3, <2>1 DEF Connected, OrderInv, ConnectOrder, Stranger
    <2>3. AsksForOurs'
        BY <2>1, <2>2, OursAlone
    <2>4. ~Has(s2c', {"NONE"}) /\ ~Has(c2s', {"RR", "REJ"})
        BY <2>1, <2>2, Kinds DEF ConnectOrder, FewerReplies
    <2>5. QualityFirst'
        <3>1. InOrder(s2c', {"ACK"}, {"NONE"})
            BY <2>4, OrderOfOneKind
        <3>2. InOrder(c2s', {"ACK", "QTY"}, {"RR", "REJ"})
            BY <2>4, OrderOfOneKind
        <3> QED
            BY <2>2, <2>4, <3>1, <3>2
            DEF QualityFirst, ConnectOrder, SlotAlone, Sending
    <2>6. count' = 0 /\ cPc' \in {"request", "exited"}
        BY <1>3, <2>1 DEF Connected, Plays, SessionInv, BatchInv, Collecting
    <2>7. SettledOrder'
        BY <2>1, <2>2, <2>5, <2>6 DEF SettledOrder, ConnectOrder, SlotAlone
    <2> QED
        BY <2>3, <2>6, <2>7 DEF OrderInv, Settled
<1>4. CASE ConnectFaulty
    <2>1. FewerReplies /\ UNCHANGED <<c2s, cQuality>>
        BY <1>1, <1>4, NothingAdded DEF ConnectFaulty, qualityVars
    <2> QED
        BY <1>4, <2>1, QuietStep DEF ConnectFaulty
<1>5. CASE ConnectFails(silent)
    <2>1. FewerReplies /\ UNCHANGED <<c2s, cQuality>>
        BY <1>1, <1>5, NothingAdded DEF ConnectFails, qualityVars
    <2> QED
        BY <1>5, <2>1, QuietStep DEF ConnectFails
<1> QED
    BY <1>2, <1>3, <1>4, <1>5 DEF ConnectStep

(***************************************************************************)
(* Sending a request for music.                                            *)
(***************************************************************************)
LEMMA AskKeepsOrder ==
    ASSUME QueueTypeOK, OrderInv, SlotAlone, cPc \in Settled,
           cPc' = "peek", UNCHANGED <<s2c, cQuality, count>>,
           NEW m \in Request, m.flag \in {"RR", "REJ"}, ToServer(m)
    PROVE  OrderInv'
<1>1. SettledOrder /\ AsksForOurs
    BY DEF OrderInv
<1>2. /\ Has(c2s', {"ACK"}) => Has(c2s, {"ACK"})
      /\ Has(c2s', {"ACK", "QTY"}) => Has(c2s, {"ACK", "QTY"})
      /\ InOrder(c2s, {"ACK", "QTY"}, {"RR", "REJ"})
            => InOrder(c2s', {"ACK", "QTY"}, {"RR", "REJ"})
      /\ AsksForOurs'
    BY <1>1, BatchQueued
<1>3. SettledOrder'
    BY <1>1, <1>2
    DEF SettledOrder, QualityFirst, NoQuality, SlotAlone, Sending
<1> QED
    BY <1>2, <1>3 DEF OrderInv, Settled

LEMMA BatchKeepsOrder ==
    ASSUME SessionInv, OrderInv, SlotAlone, ~Stranger,
           NEW silent, BatchStep(silent)
    PROVE  OrderInv'
<1>1. QueueTypeOK /\ ClientTypeOK
    BY DEF SessionInv, TypeOK, NetTypeOK
<1>2. CASE RequestBatch
    <2> DEFINE m == RequestOf("RR", cBatch, {})
    <2>1. m \in Request /\ m.flag = "RR" /\ ToServer(m)
        BY <1>1, <1>2, RequestTypes
        DEF RequestBatch, Sends, RequestOf, ClientTypeOK
    <2> QED
        BY <1>1, <1>2, <2>1, AskKeepsOrder
        DEF RequestBatch, Sends, Settled, qualityVars
<1>3. CASE StreamEnds
    BY <1>3, NoEOSYet DEF StreamEnds
<1>4. CASE StreamGoesOn(silent)
    <2>1. FewerReplies /\ UNCHANGED <<c2s, cQuality, count>>
        BY <1>1, <1>4, NothingAdded DEF StreamGoesOn, qualityVars
    <2> QED
        BY <1>4, <2>1, QuietStep DEF StreamGoesOn, Settled
<1>5. CASE CollectTimeout(silent)
    <2>1. FewerReplies /\ UNCHANGED <<c2s, cQuality, count>>
        BY <1>1, <1>5, NothingAdded DEF CollectTimeout, batchVars
    <2> QED
        BY <1>5, <2>1, QuietStep DEF CollectTimeout, Settled
<1>6. CASE CollectFaulty
    <2>1. FewerReplies /\ UNCHANGED <<c2s, cQuality, count>>
        BY <1>1, <1>6, NothingAdded DEF CollectFaulty
    <2> QED
        BY <1>6, <2>1, QuietStep DEF CollectFaulty, NextReceive, Settled
<1>7. CASE CollectIgnored
    <2>1. FewerReplies /\ UNCHANGED <<c2s, cQuality, count>>
        BY <1>1, <1>7, NothingAdded DEF CollectIgnored, qualityVars
    <2> QED
        BY <1>7, <2>1, QuietStep DEF CollectIgnored, NextReceive, Settled
<1>8. CASE Accept
    <2>1. SettledOrder /\ AsksForOurs
        BY <1>8 DEF Accept, OrderInv, Settled
    <2>2. /\ FewerReplies /\ UNCHANGED <<c2s, cQuality>>
          /\ Has(s2c, {"NONE"}) /\ ~Has(s2c', {"ACK"})
        BY <1>1, <1>8, <2>1, ReplyTaken
        DEF Accept, Acceptable, qualityVars, SettledOrder, QualityFirst
    <2>3. NoQuality'
        BY <2>1, <2>2 DEF NoQuality, SettledOrder, QualityFirst
    <2>4. SettledOrder'
        BY <2>1, <2>2, <2>3
        DEF SettledOrder, QualityFirst, FewerReplies, SlotAlone, Sending
    <2>5. AsksForOurs'
        BY <2>1, <2>2, OursAlone
    <2> QED
        BY <1>8, <2>4, <2>5 DEF Accept, NextReceive, OrderInv, Settled
<1>9. CASE AcceptCrash
    <2>1. FewerReplies /\ UNCHANGED <<c2s, cQuality>>
        BY <1>1, <1>9, NothingAdded DEF AcceptCrash, qualityVars
    <2> QED
        BY <1>9, <2>1, QuietStep DEF AcceptCrash
<1>10. CASE RejectMissing
    <2> DEFINE m == RequestOf("REJ", cBatch, Missing)
    <2>1. Missing \in SUBSET Nat
        BY DEF Missing, Unmarked
    <2>2. m \in Request /\ m.flag = "REJ" /\ ToServer(m)
        BY <1>1, <1>10, <2>1, RequestTypes
        DEF RejectMissing, Sends, RequestOf, ClientTypeOK
    <2> QED
        BY <1>1, <1>10, <2>2, AskKeepsOrder
        DEF RejectMissing, Sends, Settled, qualityVars, batchVars
<1>11. CASE TakeBatch
    <2>1. SettledOrder /\ AsksForOurs
        BY <1>11 DEF TakeBatch, OrderInv, Settled
    <2>2. count > 0
        BY <1>1, <1>11, BatchBounds DEF TakeBatch
    <2>3. UNCHANGED <<c2s, s2c, cQuality>> /\ NoQuality
        BY <1>11, <2>1, <2>2 DEF TakeBatch, netVars, SettledOrder
    <2>4. SettledOrder'
        BY <2>1, <2>3
        DEF SettledOrder, QualityFirst, NoQuality, SlotAlone, Sending
    <2>5. AsksForOurs'
        BY <2>1, <2>3, OursAlone
    <2> QED
        BY <1>11, <2>4, <2>5 DEF TakeBatch, OrderInv, Settled
<1> QED
    BY <1>2, <1>3, <1>4, <1>5, <1>6, <1>7, <1>8, <1>9, <1>10, <1>11
    DEF BatchStep

(***************************************************************************)
(* The quality only changes after a batch, when nothing is left of the     *)
(* last exchange about it.                                                 *)
(***************************************************************************)
LEMMA QualityKeepsOrder ==
    ASSUME SessionInv, SessionInv', OrderInv, SlotAlone, ~Stranger,
           NEW silent, QualityStep(silent)
    PROVE  OrderInv'
<1>1. QueueTypeOK /\ ClientTypeOK
    BY DEF SessionInv, TypeOK, NetTypeOK
<1>2. AfterAdjust \in {"drain", "request"}
    BY DEF AfterAdjust
<1>3. \A i \in 1..Len(c2s) : NoQuality => c2s[i].flag \notin {"ACK", "QTY"}
    BY DEF NoQuality, Has
<1>4. CASE Measure
    <2>1. /\ FewerReplies /\ UNCHANGED <<c2s, cQuality, count>>
          /\ cPc = "adjust" /\ cPc' \in {"drain", "request"}
        BY <1>2, <1>4, SameReplies DEF Measure, netVars, batchVars
    <2> QED
        BY <2>1, QuietStep DEF Settled
<1>5. CASE AdjustQuality
    <2>1. /\ UNCHANGED <<c2s, s2c, count>>
          /\ cPc = "adjust" /\ cPc' \in {"drain", "request", "qpeek"}
          /\ cPc' # "qpeek" => cQuality' = cQuality
        BY <1>2, <1>5 DEF AdjustQuality, netVars, batchVars
    <2>2. SettledOrder /\ NoQuality
        BY <2>1 DEF OrderInv, Settled, SettledOrder
    <2>3. AsksForOurs'
        BY <1>3, <2>1, <2>2 DEF AsksForOurs
    <2>4. cPc' \in Settled => SettledOrder'
        BY <2>1, <2>2
        DEF SettledOrder, QualityFirst, NoQuality, SlotAlone, Sending, Settled
    <2>5. ChangeOrder'
        <3>1. /\ InOrder(s2c, {"NONE"}, {"ACK"})
              /\ InOrder(c2s, {"RR", "REJ"}, {"ACK", "QTY"})
            BY <2>2, OrderOfOneKind DEF NoQuality
        <3>2. ~Has(c2s, {"ACK"})
            BY <2>2, Kinds DEF NoQuality
        <3> QED
            BY <2>1, <2>2, <3>1, <3>2
            DEF ChangeOrder, MusicFirst, NoQuality, SettledOrder, SlotAlone,
                Sending
    <2> QED
        BY <2>1, <2>3, <2>4, <2>5 DEF OrderInv, Settled
<1>6. CASE QualityPointless
    BY <1>6, NoEOSYet DEF QualityPointless
<1>7. CASE QualityWanted(silent)
    <2>1. FewerReplies /\ UNCHANGED <<c2s, cQuality>>
        BY <1>1, <1>7, NothingAdded DEF QualityWanted, qualityVars
    <2> QED
        BY <1>7, <2>1, QuietStep DEF QualityWanted
<1>8. CASE SendQuality
    <2> DEFINE m == RequestOf("QTY", cQuality, {})
    <2>1. m \in Request /\ m.flag = "QTY" /\ m.arg = cQuality /\ ToServer(m)
        BY <1>1, <1>8, RequestTypes
        DEF SendQuality, Sends, RequestOf, ClientTypeOK
    <2>2. ChangeOrder /\ AsksForOurs
        BY <1>8 DEF SendQuality, OrderInv
    <2>3. /\ Has(c2s', {"ACK"}) => Has(c2s, {"ACK"})
          /\ Has(c2s', {"RR", "REJ"}) => Has(c2s, {"RR", "REJ"})
          /\ InOrder(c2s, {"RR", "REJ"}, {"ACK", "QTY"})
                => InOrder(c2s', {"RR", "REJ"}, {"ACK", "QTY"})
          /\ AsksForOurs'
        BY <1>1, <1>8, <2>1, <2>2, QualityQueued DEF SendQuality, qualityVars
    <2>4. ChangeOrder'
        BY <1>8, <2>2, <2>3
        DEF SendQuality, Sends, ChangeOrder, MusicFirst, SlotAlone, Sending,
            qualityVars
    <2> QED
        BY <1>8, <2>3, <2>4 DEF SendQuality, OrderInv, Settled
<1>9. CASE QualityAgreed
    <2>1. ChangeOrder /\ AsksForOurs
        BY <1>9 DEF QualityAgreed, OrderInv
    <2>2. /\ FewerReplies /\ UNCHANGED <<c2s, cQuality, count>>
          /\ Has(s2c, {"ACK"}) /\ ~Has(s2c', {"NONE"})
        BY <1>1, <1>9, <2>1, ReplyTaken
        DEF QualityAgreed, qualityVars, batchVars, ChangeOrder, MusicFirst
    <2>3. /\ ~Has(c2s', {"RR", "REJ"}) /\ ~Sending'
          /\ sQuality' = cQuality' /\ seen' /\ ~Has(c2s', {"ACK"})
        BY <2>1, <2>2 DEF ChangeOrder, MusicFirst, SlotAlone, Sending
    <2>4. QualityFirst'
        <3>1. InOrder(s2c', {"ACK"}, {"NONE"})
            BY <2>2, OrderOfOneKind
        <3>2. InOrder(c2s', {"ACK", "QTY"}, {"RR", "REJ"})
            BY <2>3, OrderOfOneKind
        <3> QED
            BY <2>2, <2>3, <3>1, <3>2 DEF QualityFirst
    <2>5. count' = 0 /\ cPc' \in {"drain", "request"}
        BY <1>2, <1>9, <2>2
        DEF QualityAgreed, SessionInv, BatchInv, Collecting
    <2>6. SettledOrder'
        BY <2>3, <2>4, <2>5 DEF SettledOrder
    <2>7. AsksForOurs'
        BY <2>1, <2>2, OursAlone
    <2> QED
        BY <2>5, <2>6, <2>7 DEF OrderInv, Settled
<1>10. CASE QualityRetry(silent)
    <2>1. FewerReplies /\ UNCHANGED <<c2s, cQuality>>
        BY <1>1, <1>10, NothingAdded DEF QualityRetry, qualityVars
    <2> QED
        BY <1>10, <2>1, QuietStep DEF QualityRetry
<1> QED
    BY <1>4, <1>5, <1>6, <1>7, <1>8, <1>9, <1>10 DEF QualityStep

LEMMA PlayKeepsOrder ==
    ASSUME OrderInv, SlotAlone, Play \/ Drain
    PROVE  OrderInv'
<1>1. FewerReplies /\ UNCHANGED <<c2s, cQuality, count>>
    BY SameReplies DEF Play, Drain, netVars, qualityVars, batchVars
<1>2. \/ cPc = "request" /\ cPc' \in {"request", "exited"}
      \/ cPc' \in {"drain", "done", "exited"}
    BY DEF Play, Drain, Plays
<1> QED
    BY <1>1, <1>2, QuietStep DEF Settled

LEMMA ClientKeepsOrder ==
    ASSUME SessionInv, SessionInv', OrderInv, ~Stranger, ClientStep
    PROVE  OrderInv'
<1>1. SlotAlone /\ ClientNext(ServerSilent)
    BY DEF ClientStep, SlotAlone, serverVars, slotVars
<1> QED
    BY <1>1, ConnectKeepsOrder, BatchKeepsOrder, QualityKeepsOrder,
       PlayKeepsOrder
    DEF ClientNext

-----------------------------------------------------------------------------
LEMMA AgreementInit == Init => AgreementInv
<1> SUFFICES ASSUME Init PROVE AgreementInv
    OBVIOUS
<1>1. Len(<<>>) = 0
    BY EmptySeq
<1>2. \A flags : ~Has(<<>>, flags)
    BY <1>1 DEF Has
<1>3. ConnectOrder /\ AsksForOurs
    BY <1>1, <1>2
    DEF Init, NetInit, ServerInit, ConnectOrder, AsksForOurs, Sending
<1> QED
    BY <1>3
    DEF Init, NetInit, ClientInit, AgreementInv, OrderInv, Settled

LEMMA AgreementStep ==
    SessionInv /\ SessionInv' /\ AgreementInv /\ [Next]_vars => AgreementInv'
<1> SUFFICES ASSUME SessionInv, SessionInv', AgreementInv, [Next]_vars
             PROVE  AgreementInv'
    OBVIOUS
<1>1. Stranger => Stranger'
    <2>1. CASE ServerStep \/ TimerStep
        BY <2>1, StrangerStaysOut DEF ServerStep, TimerStep, Stranger
    <2>2. CASE ClientStep \/ NetworkStep \/ Terminated \/ UNCHANGED vars
        BY <2>2
        DEF ClientStep, NetworkStep, Terminated, vars, serverVars, slotVars,
            Stranger
    <2> QED
        BY <2>1, <2>2 DEF Next
<1>2. CASE NetworkStep
    BY <1>2 DEF NetworkStep, Delay, Deliver, AgreementInv
<1>3. CASE ServerStep
    BY <1>1, <1>3, ServerKeepsOrder
    DEF ServerStep, clientVars, qualityVars, batchVars, AgreementInv
<1>4. CASE ClientStep
    BY <1>1, <1>4, ClientKeepsOrder DEF ClientStep, AgreementInv
<1>5. CASE TimerStep
    <2>1. Stranger'
        BY <1>5 DEF TimerStep, Expire, Stranger, SessionInv, SlotInv
    <2> QED
        BY <1>5, <2>1 DEF TimerStep, AgreementInv
<1>6. CASE Terminated \/ UNCHANGED vars
    BY <1>6
    DEF Terminated, vars, netVars, serverVars, slotVars, clientVars,
        qualityVars, batchVars, AgreementInv, Stranger, OrderInv, Settled,
        AsksForOurs, ConnectOrder, SettledOrder, ChangeOrder, QualityFirst,
        MusicFirst, NoQuality, Sending
<1> QED
    BY <1>2, <1>3, <1>4, <1>5, <1>6 DEF Next

(***************************************************************************)
(* As long as no request has been overtaken by a later one, the two sides  *)
(* go by the same quality whenever a batch is requested or collected,      *)
(* whatever was lost, corrupted, late or answered twice, and however often *)
(* the quality has changed.                                                *)
(***************************************************************************)
THEOREM SameQuality == Spec => []QualityAgreement
<1>1. AgreementInv => QualityAgreement
    BY DEF AgreementInv, QualityAgreement, OrderInv, SettledOrder, Settled,
           Collecting, Stranger
<1> QED
    BY <1>1, AgreementInit, AgreementStep, SessionInvariant, PTL DEF Spec
=============================================================================
