---------------------------- MODULE StreamServer ----------------------------
(***************************************************************************)
(* The server's side of one client: the slot the client occupies           *)
(* (client_info.c), the main loop that receives a datagram, derives a task *)
(* from it (receive.c) and sends (send.c), and the timer that drops a      *)
(* silent client (server.c).                                               *)
(***************************************************************************)
EXTENDS Network

CONSTANTS
    Reorder,      \* whether send_batch shuffles (SIMULATE in simulation.h)
    SizeWidth,    \* sizes are stored modulo SizeWidth (uint16_t: 65536)
    Longest       \* the longest datagram sendto takes (65507 bytes)

ASSUME ServerAssumption ==
    /\ Reorder \in BOOLEAN
    /\ SizeWidth \in Nat /\ SizeWidth > Chunk
    /\ Longest \in Nat /\ 8 + Chunk <= Longest /\ Longest < SizeWidth

VARIABLES
    sPc,        \* where the main loop is
    seen,       \* the slot holds the client's address
    inUse,      \* in_use
    stage,      \* stage
    sBatch,     \* batch_nr
    sQuality,   \* quality->current; packets_per_batch follows it
    musicPtr,   \* music_ptr, in chunks from the first sample
    bytesSent,  \* bytes_sent
    task,       \* type of the stack variable task, which no iteration resets
    todo,       \* numbers of the packets the running task still has to send
    counted     \* whether those packets add to bytes_sent (not a resend)

slotVars == <<seen, inUse, stage, sBatch, sQuality, musicPtr, bytesSent>>
serverVars == <<sPc, slotVars, task, todo, counted>>

Stages == {"INITIAL", "INTERMEDIATE", "FINAL"}
Tasks == {"junk", "BATCH", "FAULTY", "EOS", "ACK"}
ServerPcs == {"receive", "swallow", "batch", "resend", "down"}

ServerTypeOK ==
    /\ sPc \in ServerPcs
    /\ seen \in BOOLEAN /\ inUse \in BOOLEAN
    /\ stage \in Stages
    /\ sBatch \in Nat
    /\ sQuality \in 0..TopQuality
    /\ musicPtr \in Int
    /\ bytesSent \in Nat
    /\ task \in Tasks
    /\ todo \in SUBSET Nat
    /\ counted \in BOOLEAN

(***************************************************************************)
(* What holds of the slot besides the types: a client in it has been seen, *)
(* and EOS is only on its way to a client that has left it.                *)
(***************************************************************************)
EOSOnTheWay == \E i \in 1..Len(s2c) : s2c[i].flag = "EOS"

SlotInv ==
    /\ inUse => seen
    /\ EOSOnTheWay => seen /\ ~inUse

ServerInit ==
    /\ sPc = "receive"
    /\ seen = FALSE /\ inUse = FALSE
    /\ stage = "INITIAL"
    /\ sBatch = 0
    /\ sQuality = 0
    /\ musicPtr = 0
    /\ bytesSent = 0
    /\ task = "junk"
    /\ todo = {}
    /\ counted = FALSE

PerBatch == PacketsOf(sQuality)

(***************************************************************************)
(* Nothing is on its way to the server and nothing will come from it       *)
(* unless the client sends first.                                          *)
(***************************************************************************)
ServerSilent ==
    /\ c2s = <<>> /\ s2c = <<>>
    /\ sPc \in {"receive", "swallow", "down"}

-----------------------------------------------------------------------------
(***************************************************************************)
(* Undefined behaviour the build can turn into the end of the process.     *)
(***************************************************************************)
Crash ==
    /\ sPc' = "down"
    /\ todo' = {}
    /\ UNCHANGED <<slotVars, task, counted, s2c, budget>>

(***************************************************************************)
(* receive_and_check on a datagram that fails a checksum: it is consumed,  *)
(* and com_consume_packet then blocks for one more.                        *)
(***************************************************************************)
ReceiveFaulty ==
    /\ sPc = "receive" /\ c2s # <<>> /\ ~Intact(c2s)
    /\ c2s' = AfterReceive(c2s, FALSE)
    /\ sPc' = "swallow"
    /\ UNCHANGED <<slotVars, task, todo, counted, s2c, budget>>

(***************************************************************************)
(* ... whatever it is.  The request is ignored, but task_free still runs:  *)
(* on a task an earlier REJ left behind it frees the same memory twice.    *)
(***************************************************************************)
Swallow ==
    /\ sPc = "swallow" /\ c2s # <<>>
    /\ c2s' = Tail(c2s)
    /\ \/ /\ sPc' = "receive"
          /\ UNCHANGED <<slotVars, task, todo, counted, s2c, budget>>
       \/ task \in {"FAULTY", "junk"} /\ Crash

(***************************************************************************)
(* A datagram that passes both checksums.                                  *)
(***************************************************************************)
ServerReceives ==
    /\ sPc = "receive" /\ c2s # <<>> /\ Intact(c2s)
    /\ c2s' = AfterReceive(c2s, FALSE)

(***************************************************************************)
(* search_client finds the slot, or an unused one that client_info_init    *)
(* fills.  This is the server's only client, so its slot is the first.     *)
(* Once it is unused the second loop meets it before all others and stops  *)
(* there (NO_MATCH): the client's old address is still in it.  (When other *)
(* clients have come and gone, an unused slot before it takes the client   *)
(* in again: module ClientTable.)                                          *)
(***************************************************************************)
Stranger == seen /\ ~inUse

Stage == IF inUse THEN stage ELSE "INITIAL"

Register == seen' = TRUE /\ inUse' = TRUE

(***************************************************************************)
(* send_flags: one datagram, ends the iteration.                           *)
(***************************************************************************)
AnswerFlag(flag) ==
    /\ ToClient(FlagOnly(flag))
    /\ task' = flag
    /\ UNCHANGED <<sPc, todo, counted>>

(***************************************************************************)
(* Mutant of RejectStranger: a client without a slot gets no answer.       *)
(***************************************************************************)
IgnoreStranger ==
    /\ ServerReceives
    /\ Stranger
    /\ UNCHANGED <<serverVars, s2c, budget>>

(***************************************************************************)
(* REJECT: a client whose slot is gone is told that the stream ended.      *)
(***************************************************************************)
RejectStranger ==
    /\ ServerReceives
    /\ Stranger
    /\ AnswerFlag("EOS")
    /\ UNCHANGED slotVars

(***************************************************************************)
(* process_initial, ACK.                                                   *)
(***************************************************************************)
HandleACK ==
    LET m == Head(c2s) IN
    /\ ServerReceives
    /\ ~Stranger /\ Stage = "INITIAL" /\ m.flag = "ACK"
    /\ Register
    /\ stage' = "INITIAL"
    /\ sQuality' = m.arg
    /\ AnswerFlag("ACK")
    /\ UNCHANGED <<sBatch, musicPtr, bytesSent>>

(***************************************************************************)
(* Mutant of HandleQTY: packets_per_batch is not brought up to date.       *)
(***************************************************************************)
AnswerQTYOnly ==
    LET m == Head(c2s) IN
    /\ ServerReceives
    /\ ~Stranger /\ Stage # "INITIAL" /\ m.flag = "QTY"
    /\ AnswerFlag("ACK")
    /\ UNCHANGED slotVars

(***************************************************************************)
(* process_intermediate and process_final, QTY.                            *)
(***************************************************************************)
HandleQTY ==
    LET m == Head(c2s) IN
    /\ ServerReceives
    /\ ~Stranger /\ Stage # "INITIAL" /\ m.flag = "QTY"
    /\ sQuality' = m.arg
    /\ AnswerFlag("ACK")
    /\ UNCHANGED <<seen, inUse, stage, sBatch, musicPtr, bytesSent>>

(***************************************************************************)
(* RR.  The number of the batch the client asks for is not read.  In the   *)
(* FINAL stage it ends the stream once the whole payload has been sent.    *)
(***************************************************************************)
StartBatch ==
    /\ sPc' = "batch"
    /\ task' = "BATCH"
    /\ todo' = 0..(PerBatch - 1)
    /\ counted' = TRUE
    /\ UNCHANGED <<s2c, budget>>

HandleRR ==
    /\ ServerReceives
    /\ ~Stranger /\ Head(c2s).flag = "RR"
    /\ Stage = "FINAL" => bytesSent < Payload
    /\ Register
    /\ stage' = IF Stage = "INITIAL" THEN "INTERMEDIATE" ELSE stage
    /\ StartBatch
    /\ UNCHANGED <<sBatch, sQuality, musicPtr, bytesSent>>

(***************************************************************************)
(* Mutant of EndStream: process_final ends the stream without a look at    *)
(* bytes_sent.                                                             *)
(***************************************************************************)
EndStreamAtOnce ==
    /\ ServerReceives
    /\ ~Stranger /\ Head(c2s).flag = "RR"
    /\ Stage = "FINAL"
    /\ inUse' = FALSE
    /\ AnswerFlag("EOS")
    /\ UNCHANGED <<seen, stage, sBatch, sQuality, musicPtr, bytesSent>>

EndStream ==
    /\ ServerReceives
    /\ ~Stranger /\ Head(c2s).flag = "RR"
    /\ Stage = "FINAL" /\ bytesSent >= Payload
    /\ inUse' = FALSE
    /\ AnswerFlag("EOS")
    /\ UNCHANGED <<seen, stage, sBatch, sQuality, musicPtr, bytesSent>>

(***************************************************************************)
(* Mutant of StartResend: set_music_to_batch without the step back.        *)
(***************************************************************************)
ResendFromPointer(b, list) ==
    /\ sPc' = "resend"
    /\ todo' = list
    /\ counted' = (b - 1 = sBatch)
    /\ sBatch' = IF b - 1 = sBatch THEN b ELSE sBatch
    /\ UNCHANGED <<sQuality, musicPtr, bytesSent, s2c, budget>>

(***************************************************************************)
(* set_music_to_batch.  A REJ for the batch after the next one is taken    *)
(* for a RR that was lost: music_ptr moves on first.  Any other REJ is     *)
(* served from the batch before music_ptr.  (batch_nr - 1 is a uint32_t:   *)
(* for batch 0 it equals no batch number the server has.)                  *)
(***************************************************************************)
StartResend(b, list) ==
    /\ sPc' = "resend"
    /\ todo' = list
    /\ counted' = (b - 1 = sBatch)
    /\ sBatch' = IF b - 1 = sBatch THEN b ELSE sBatch
    /\ musicPtr' = IF b - 1 = sBatch THEN musicPtr ELSE musicPtr - PerBatch
    /\ UNCHANGED <<sQuality, bytesSent, s2c, budget>>

HandleREJ ==
    LET m == Head(c2s) IN
    /\ ServerReceives
    /\ ~Stranger /\ Stage # "INITIAL" /\ m.flag = "REJ"
    /\ task' = "FAULTY"
    /\ StartResend(m.arg, m.list)
    /\ UNCHANGED <<seen, inUse, stage>>

(***************************************************************************)
(* send_faulty through a dangling pointer: it crashes, or reads some batch *)
(* number and some packet numbers (bound: each once, and none above        *)
(* PerBatch, which the client would throw away).                           *)
(***************************************************************************)
ResendAnything ==
    \E b \in {sBatch, sBatch + 1}, list \in SUBSET (0..PerBatch) :
        task' = "junk" /\ StartResend(b, list)

(***************************************************************************)
(* process_initial, REJ: SEND_FAULTY is set, its argument is not.          *)
(***************************************************************************)
HandleFirstREJ ==
    /\ ServerReceives
    /\ ~Stranger /\ Stage = "INITIAL" /\ Head(c2s).flag = "REJ"
    /\ \/ Crash
       \/ ResendAnything /\ stage' = "INTERMEDIATE" /\ Register

(***************************************************************************)
(* A flag the stage does not handle leaves task as the last iteration left *)
(* it, and that task is carried out again.  (Here it is not SEND_EOS: the  *)
(* only client that can have been sent one has no slot.)                   *)
(***************************************************************************)
RepeatLastTask ==
    /\ ServerReceives
    /\ ~Stranger /\ Stage # "INITIAL" /\ Head(c2s).flag = "ACK"
    /\ \/ task = "ACK" /\ AnswerFlag("ACK") /\ UNCHANGED slotVars
       \/ task = "BATCH" /\ StartBatch /\ UNCHANGED slotVars
       \/ task \in {"FAULTY", "junk"} /\ Crash
       \/ /\ task \in {"FAULTY", "junk"}
          /\ ResendAnything /\ UNCHANGED <<seen, inUse, stage>>

-----------------------------------------------------------------------------
(***************************************************************************)
(* prepare_intermediate and prepare_final.  In the FINAL stage a packet    *)
(* has the bytes that remain by the count of bytes sent so far, whatever   *)
(* its number.                                                             *)
(***************************************************************************)
Remaining == Payload - bytesSent

Cut == stage = "FINAL" /\ Remaining < Chunk

(***************************************************************************)
(* Mutant of SizeToSend: prepare_final sends what prepare_intermediate     *)
(* would.                                                                  *)
(***************************************************************************)
AlwaysFull == Chunk

SizeToSend == IF Cut THEN Remaining % SizeWidth ELSE Chunk

MusicPacket(n) ==
    [flag |-> "NONE", nr |-> n, pos |-> musicPtr + n, size |-> SizeToSend,
     codec |-> Codec(sQuality), fit |-> "ok"]

(***************************************************************************)
(* send_batch sends the packets of a batch in order, or shuffled;          *)
(* send_faulty those of the REJ in its order.                              *)
(***************************************************************************)
NextToSend ==
    IF sPc = "batch" /\ Reorder
    THEN todo ELSE {n \in todo : \A k \in todo : n <= k}

(***************************************************************************)
(* sendto refuses a datagram that is too long (EMSGSIZE).  The size of the *)
(* longest ones wraps in convert_send: the copy runs over the heap, and a  *)
(* server that survives it sends less than a header.                       *)
(***************************************************************************)
Wraps(m) == DatagramSize(m) >= SizeWidth

Leaves(m) ==
    \/ DatagramSize(m) <= Longest /\ ToClient(m)
    \/ DatagramSize(m) > Longest /\ ~Wraps(m) /\ UNCHANGED <<s2c, budget>>
    \/ Wraps(m) /\ s2c' = Append(s2c, [m EXCEPT !.fit = "head"])
                /\ UNCHANGED budget

SendPacket ==
    \E n \in NextToSend :
        /\ sPc \in {"batch", "resend"}
        /\ Leaves(MusicPacket(n))
        /\ todo' = todo \ {n}
        /\ bytesSent' = IF ~counted THEN bytesSent
                        ELSE bytesSent + (IF Cut THEN Remaining ELSE Chunk)
        /\ UNCHANGED <<sPc, seen, inUse, stage, sBatch, sQuality, musicPtr,
                       task, counted, c2s>>

(***************************************************************************)
(* The packet is read from outside the samples, perhaps from outside the   *)
(* mapped file, or its size has wrapped.                                   *)
(***************************************************************************)
ReadsOutside(n) ==
    /\ SizeToSend > 0
    /\ \/ musicPtr + n < 0
       \/ (musicPtr + n) * Chunk + SizeToSend > Payload

SendCrash ==
    /\ sPc \in {"batch", "resend"}
    /\ \E n \in NextToSend : ReadsOutside(n) \/ Wraps(MusicPacket(n))
    /\ Crash
    /\ UNCHANGED c2s

(***************************************************************************)
(* Mutant of FinishBatch: send_batch does not move music_ptr on.           *)
(***************************************************************************)
FinishBatchInPlace ==
    /\ sPc = "batch" /\ todo = {}
    /\ sBatch' = sBatch + 1
    /\ stage' = IF bytesSent + PerBatch * Chunk >= Payload THEN "FINAL"
                ELSE stage
    /\ sPc' = "receive"
    /\ UNCHANGED <<seen, inUse, sQuality, musicPtr, bytesSent, task, todo,
                   counted, netVars>>

(***************************************************************************)
(* Mutant of FinishBatch: the test for the FINAL stage forgets the batch   *)
(* that is to come.                                                        *)
(***************************************************************************)
FinishBatchUnforeseen ==
    /\ sPc = "batch" /\ todo = {}
    /\ musicPtr' = musicPtr + PerBatch
    /\ sBatch' = sBatch + 1
    /\ stage' = IF bytesSent >= Payload THEN "FINAL" ELSE stage
    /\ sPc' = "receive"
    /\ UNCHANGED <<seen, inUse, sQuality, bytesSent, task, todo, counted,
                   netVars>>

FinishBatch ==
    /\ sPc = "batch" /\ todo = {}
    /\ musicPtr' = musicPtr + PerBatch
    /\ sBatch' = sBatch + 1
    /\ stage' = IF bytesSent + PerBatch * Chunk >= Payload THEN "FINAL"
                ELSE stage
    /\ sPc' = "receive"
    /\ UNCHANGED <<seen, inUse, sQuality, bytesSent, task, todo, counted,
                   netVars>>

(***************************************************************************)
(* restore_music_to_batch, and task_free, which may meet a dangling        *)
(* pointer.                                                                *)
(***************************************************************************)
FinishResend ==
    /\ sPc = "resend" /\ todo = {}
    /\ UNCHANGED c2s
    /\ \/ /\ musicPtr' = musicPtr + PerBatch
          /\ sPc' = "receive"
          /\ UNCHANGED <<seen, inUse, stage, sBatch, sQuality, bytesSent,
                         task, todo, counted, s2c, budget>>
       \/ task = "junk" /\ Crash

-----------------------------------------------------------------------------
(***************************************************************************)
(* thread_run_timeout_timers drops a client it has not heard of for three  *)
(* seconds.  Its races with the main loop are not modelled here.           *)
(***************************************************************************)
Expire ==
    /\ Spend("expire")
    /\ sPc \in {"receive", "swallow"}
    /\ inUse
    /\ inUse' = FALSE
    /\ UNCHANGED <<sPc, seen, stage, sBatch, sQuality, musicPtr, bytesSent,
                   task, todo, counted, c2s, s2c>>

(***************************************************************************)
(* A datagram for a process that is gone is dropped.                       *)
(***************************************************************************)
NobodyListens ==
    /\ sPc = "down" /\ c2s # <<>>
    /\ c2s' = <<>>
    /\ UNCHANGED <<serverVars, s2c, budget>>

ReceiveStep ==
    \/ ReceiveFaulty \/ Swallow
    \/ RejectStranger \/ HandleACK \/ HandleQTY
    \/ HandleRR \/ EndStream
    \/ HandleREJ \/ HandleFirstREJ \/ RepeatLastTask

SendStep == SendPacket \/ SendCrash \/ FinishBatch \/ FinishResend

ServerNext == ReceiveStep \/ SendStep \/ NobodyListens
=============================================================================
