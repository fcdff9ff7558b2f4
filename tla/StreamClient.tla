---------------------------- MODULE StreamClient ----------------------------
(***************************************************************************)
(* The client: it connects, fills its buffer, and then requests, collects  *)
(* and repairs one batch after the other while it plays (client/main.c,    *)
(* client.c, receive.c), adjusting the quality between batches             *)
(* (quality.c).  It has one thread, so "cPc" is all of its control state.  *)
(***************************************************************************)
EXTENDS Network

CONSTANTS
    InitialQuality,   \* the quality asked for on the command line
    Capacity,         \* packets the playback buffer holds
    MeasurePeriod,    \* batches between two looks at the quality (5)
    TroubleCap        \* bound: lost + faulty is counted up to this number

(***************************************************************************)
(* main.c refuses a buffer below two batches of the best quality.          *)
(***************************************************************************)
ASSUME ClientAssumption ==
    /\ InitialQuality \in Qualities
    /\ Capacity \in Nat /\ Capacity >= 2 * Packets[TopQuality]
    /\ MeasurePeriod \in Nat \ {0}
    /\ TroubleCap \in Nat

VARIABLES
    cPc,        \* where the program is
    filling,    \* still in client_fill_initial_buffer
    eos,        \* EOS_received
    cBatch,     \* batch_nr
    cQuality,   \* quality->current
    measure,    \* quality->last_measure
    okCount,    \* quality->ok
    trouble,    \* quality->lost + quality->faulty, the two are only added
    raw,        \* data_ptr of the batch being collected: a slot per packet
    have,       \* recv_nrs: the numbers marked as received
    count,      \* size_nrs
    iter,       \* receives done by this call of raw_batch_receive
    limit,      \* receives this call of raw_batch_receive will do
    used,       \* packets in the playback buffer
    heard       \* history: every packet handed to the playback buffer

qualityVars == <<cQuality, measure, okCount, trouble>>
batchVars == <<raw, have, count, iter, limit>>
clientVars == <<cPc, filling, eos, cBatch, qualityVars, batchVars, used, heard>>

ClientPcs == {"connect", "connack", "request", "peek", "collect", "check",
              "adjust", "qpeek", "qsend", "qack", "drain", "done", "exited", "crashed"}

(***************************************************************************)
(* What a packet's place in a buffer holds: size bytes of the chunk pos of *)
(* the file.  Size 0 is what memset left, size -1 bytes of no chunk.       *)
(***************************************************************************)
Slot == [pos : Int, size : -1..Chunk]
Silence == [pos |-> 0, size |-> 0]
Garbled == [pos |-> 0, size |-> -1]

PerBatchC == PacketsOf(cQuality)
NoRaw == [n \in {} |-> Silence]

ClientTypeOK ==
    /\ cPc \in ClientPcs
    /\ filling \in BOOLEAN /\ eos \in BOOLEAN
    /\ cBatch \in Nat
    /\ cQuality \in Qualities
    /\ measure \in 0..(MeasurePeriod - 1)
    /\ okCount \in Nat
    /\ trouble \in 0..TroubleCap
    /\ \/ raw = NoRaw
       \/ raw \in [0..(PerBatchC - 1) -> Slot]
    /\ have \in SUBSET (0..Packets[TopQuality])
    /\ count \in Nat /\ iter \in Nat /\ limit \in Nat
    /\ used \in Nat
    /\ heard \in Seq(Slot)

(***************************************************************************)
(* What holds of the client besides the types.  A batch in progress never  *)
(* has more receives ahead than packets missing, and keeps the room it     *)
(* needs in the playback buffer; between batches nothing is left of one,   *)
(* and the quality only changes when the buffer has been filled.           *)
(***************************************************************************)
Collecting == cPc \in {"peek", "collect", "check"}

RoomForABatch == used + PerBatchC <= Capacity

BatchInv ==
    /\ Collecting => raw \in [0..(PerBatchC - 1) -> Slot]
    /\ cPc = "peek" => count < PerBatchC
    /\ cPc = "collect" => iter < limit /\ count + (limit - iter) <= PerBatchC
    /\ cPc = "check" => count <= PerBatchC
    /\ ~Collecting /\ cPc # "crashed" => raw = NoRaw /\ count = 0

RoomInv ==
    /\ used <= Capacity
    /\ Collecting => RoomForABatch
    /\ cPc = "request" /\ filling => RoomForABatch
    /\ cPc \in {"connect", "connack"} => filling /\ used = 0
    /\ cPc \in {"adjust", "qpeek", "qsend", "qack"} => ~filling

ClientInit ==
    /\ cPc = "connect"
    /\ filling = TRUE /\ eos = FALSE
    /\ cBatch = 0
    /\ cQuality = InitialQuality
    /\ measure = 0 /\ okCount = 0 /\ trouble = 0
    /\ raw = NoRaw /\ have = {} /\ count = 0 /\ iter = 0 /\ limit = 0
    /\ used = 0
    /\ heard = <<>>

-----------------------------------------------------------------------------
(***************************************************************************)
(* com_receive on the client's socket, which has a receive timeout of 16   *)
(* ms.  A timeout is no surprise when nothing can come any more, and costs *)
(* budget when an answer is late.                                          *)
(***************************************************************************)
TimesOut(silent) ==
    /\ UNCHANGED <<c2s, s2c>>
    /\ \/ silent /\ UNCHANGED budget
       \/ ~silent /\ Spend("late")

ClientReceives(peek) ==
    /\ s2c # <<>>
    /\ s2c' = AfterReceive(s2c, peek)
    /\ UNCHANGED <<c2s, budget>>

Sends(flag, arg, list) ==
    /\ ToServer(RequestOf(flag, arg, list))
    /\ UNCHANGED s2c

(***************************************************************************)
(* Mutant of SeesEOS: any flag is taken for EOS.                           *)
(***************************************************************************)
SeesAFlag == ClientReceives(TRUE) /\ Intact(s2c) /\ Head(s2c).flag # "NONE"

(***************************************************************************)
(* receive_EOS(client, false): EOS is seen only as the first datagram of   *)
(* the queue, and stays there.                                             *)
(***************************************************************************)
SeesEOS == ClientReceives(TRUE) /\ Intact(s2c) /\ Head(s2c).flag = "EOS"

SeesNoEOS(silent) ==
    \/ ClientReceives(TRUE) /\ ~(Intact(s2c) /\ Head(s2c).flag = "EOS")
    \/ TimesOut(silent)

-----------------------------------------------------------------------------
(***************************************************************************)
(* client_init.                                                            *)
(***************************************************************************)
Connect ==
    /\ cPc = "connect"
    /\ Sends("ACK", cQuality, {})
    /\ cPc' = "connack"
    /\ UNCHANGED <<filling, eos, cBatch, qualityVars, batchVars, used, heard>>

(***************************************************************************)
(* The audio device may refuse to be opened (player_init) or to be written *)
(* to (player_play): the program exits.                                    *)
(***************************************************************************)
Plays(pc) == cPc' \in {pc, "exited"}

Connected ==
    /\ cPc = "connack"
    /\ ClientReceives(FALSE) /\ Intact(s2c) /\ Head(s2c).flag = "ACK"
    /\ Plays("request")
    /\ UNCHANGED <<filling, eos, cBatch, qualityVars, batchVars, used, heard>>

ConnectFaulty ==
    /\ cPc = "connack"
    /\ ClientReceives(FALSE) /\ ~Intact(s2c)
    /\ cPc' = "connect"
    /\ UNCHANGED <<filling, eos, cBatch, qualityVars, batchVars, used, heard>>

(***************************************************************************)
(* No answer, or another one than ACK: the user may retry or give up.      *)
(***************************************************************************)
ConnectFails(silent) ==
    /\ cPc = "connack"
    /\ \/ TimesOut(silent)
       \/ ClientReceives(FALSE) /\ Intact(s2c) /\ Head(s2c).flag # "ACK"
    /\ cPc' \in {"connect", "exited"}
    /\ UNCHANGED <<filling, eos, cBatch, qualityVars, batchVars, used, heard>>

-----------------------------------------------------------------------------
(***************************************************************************)
(* run: play until a batch fits, then request it.  While the buffer is     *)
(* filled for the first time nothing is played.                            *)
(***************************************************************************)
Room == Capacity - used

Play ==
    /\ cPc = "request" /\ ~filling /\ Room < PerBatchC
    /\ used' = used - 1
    /\ Plays("request")
    /\ UNCHANGED <<filling, eos, cBatch, qualityVars, batchVars, heard,
                   netVars>>

RequestBatch ==
    /\ cPc = "request" /\ (filling \/ Room >= PerBatchC)
    /\ Sends("RR", cBatch, {})
    /\ raw' = [n \in 0..(PerBatchC - 1) |-> Silence]
    /\ cPc' = "peek"
    /\ UNCHANGED <<filling, eos, cBatch, qualityVars, have, count, iter,
                   limit, used, heard>>

(***************************************************************************)
(* Mutant of FreeBatch: raw_batch_free forgets to clear the packet         *)
(* numbers.                                                                *)
(***************************************************************************)
FreeBatchKeepsMarks ==
    /\ raw' = NoRaw
    /\ have' = have /\ count' = 0 /\ iter' = 0 /\ limit' = 0

FreeBatch ==
    /\ raw' = NoRaw
    /\ have' = {} /\ count' = 0 /\ iter' = 0 /\ limit' = 0

(***************************************************************************)
(* Mutant of StreamEnds: receive_batch returns on EOS without              *)
(* raw_batch_free.                                                         *)
(***************************************************************************)
StreamEndsKeepsBatch ==
    /\ cPc = "peek"
    /\ SeesEOS
    /\ eos' = TRUE
    /\ cPc' = IF filling THEN "drain" ELSE "adjust"
    /\ UNCHANGED <<filling, cBatch, qualityVars, batchVars, used, heard>>

(***************************************************************************)
(* receive_batch returns on EOS: to the main loop, which adjusts the       *)
(* quality once more, or out of client_fill_initial_buffer.                *)
(***************************************************************************)
StreamEnds ==
    /\ cPc = "peek"
    /\ SeesEOS
    /\ eos' = TRUE
    /\ FreeBatch
    /\ cPc' = IF filling THEN "drain" ELSE "adjust"
    /\ UNCHANGED <<filling, cBatch, qualityVars, used, heard>>

(***************************************************************************)
(* Mutant of StreamGoesOn: after a REJ as many receives as for a whole     *)
(* batch.                                                                  *)
(***************************************************************************)
StreamGoesOnForAll(silent) ==
    /\ cPc = "peek"
    /\ SeesNoEOS(silent)
    /\ iter' = 0 /\ limit' = PerBatchC
    /\ cPc' = "collect"
    /\ UNCHANGED <<filling, eos, cBatch, qualityVars, raw, have, count, used,
                   heard>>

StreamGoesOn(silent) ==
    /\ cPc = "peek"
    /\ SeesNoEOS(silent)
    /\ iter' = 0 /\ limit' = PerBatchC - count
    /\ cPc' = "collect"
    /\ UNCHANGED <<filling, eos, cBatch, qualityVars, raw, have, count, used,
                   heard>>

-----------------------------------------------------------------------------
(***************************************************************************)
(* raw_batch_receive: as many receives as packets were missing when it was *)
(* called.                                                                 *)
(***************************************************************************)
CountTrouble(n) == trouble' = LesserOf(trouble + n, TroubleCap)

NextReceive ==
    /\ iter' = iter + 1
    /\ cPc' = IF iter + 1 = limit THEN "check" ELSE "collect"

CollectTimeout(silent) ==
    /\ cPc = "collect"
    /\ TimesOut(silent)
    /\ CountTrouble(limit - iter)
    /\ cPc' = "check"
    /\ UNCHANGED <<filling, eos, cBatch, cQuality, measure, okCount,
                   batchVars, used, heard>>

CollectFaulty ==
    /\ cPc = "collect"
    /\ ClientReceives(FALSE) /\ ~Intact(s2c)
    /\ CountTrouble(1)
    /\ NextReceive
    /\ UNCHANGED <<filling, eos, cBatch, cQuality, measure, okCount, raw,
                   have, count, limit, used, heard>>

Acceptable(m) == m.flag = "NONE" /\ m.nr <= PerBatchC

CollectIgnored ==
    /\ cPc = "collect"
    /\ ClientReceives(FALSE) /\ Intact(s2c) /\ ~Acceptable(Head(s2c))
    /\ NextReceive
    /\ UNCHANGED <<filling, eos, cBatch, qualityVars, raw, have, count,
                   limit, used, heard>>

(***************************************************************************)
(* A packet is decoded by the client's quality, whatever it was encoded    *)
(* with, and memcpy takes what that makes of it, over the slots behind it  *)
(* if it is more than a slot holds.  Number PerBatchC passes the test      *)
(* although it is outside the batch.                                       *)
(***************************************************************************)
DecodedSize(m) == Decoded(Codec(cQuality), PacketSize(m))

Overruns(m, n) == n > m.nr /\ (n - m.nr) * Chunk < DecodedSize(m)

WritesOutside(m) == m.nr = PerBatchC \/ Overruns(m, PerBatchC)

(***************************************************************************)
(* What is left in a slot when the decoded data is copied over it.  (Of a  *)
(* packet that is too long nothing is told apart.)                         *)
(***************************************************************************)
Overlay(old, m) ==
    LET size == DecodedSize(m) IN
    IF size = 0 THEN old
    ELSE IF size > Chunk \/ m.codec # Codec(cQuality) THEN Garbled
    ELSE IF size = Chunk \/ old = Silence THEN [pos |-> m.pos, size |-> size]
    ELSE IF old.pos = m.pos /\ old.size >= size THEN old ELSE Garbled

(***************************************************************************)
(* A packet is marked and counted whether or not it was there already.     *)
(***************************************************************************)
Accept ==
    LET m == Head(s2c) IN
    /\ cPc = "collect"
    /\ ClientReceives(FALSE) /\ Intact(s2c) /\ Acceptable(m)
    /\ raw' = [n \in DOMAIN raw |->
                 IF n = m.nr THEN Overlay(raw[n], m)
                 ELSE IF Overruns(m, n) THEN Garbled ELSE raw[n]]
    /\ have' = have \cup {m.nr}
    /\ count' = count + 1
    /\ NextReceive
    /\ UNCHANGED <<filling, eos, cBatch, qualityVars, limit, used, heard>>

AcceptCrash ==
    /\ cPc = "collect"
    /\ ClientReceives(FALSE) /\ Intact(s2c)
    /\ Acceptable(Head(s2c)) /\ WritesOutside(Head(s2c))
    /\ cPc' = "crashed"
    /\ UNCHANGED <<filling, eos, cBatch, qualityVars, batchVars, used, heard>>

-----------------------------------------------------------------------------
(***************************************************************************)
(* raw_batch_integrity_ok goes by the count.  The REJ lists, in ascending  *)
(* order, the numbers that are not marked, but no more of them than the    *)
(* count says are missing.                                                 *)
(***************************************************************************)
Unmarked == {n \in 0..(PerBatchC - 1) : n \notin have}

(***************************************************************************)
(* Mutant of Missing: the REJ lists the whole batch.                       *)
(***************************************************************************)
WholeBatch == 0..(PerBatchC - 1)

Missing ==
    {n \in Unmarked :
        Cardinality({k \in Unmarked : k < n}) < PerBatchC - count}

RejectMissing ==
    /\ cPc = "check" /\ count # PerBatchC
    /\ Sends("REJ", cBatch, Missing)
    /\ cPc' = "peek"
    /\ UNCHANGED <<filling, eos, cBatch, qualityVars, batchVars, used, heard>>

(***************************************************************************)
(* Mutant of TakeBatch: client_fill_initial_buffer looks for room before   *)
(* it adds the batch, not after.                                           *)
(***************************************************************************)
TakeBatchTestFirst ==
    /\ cPc = "check" /\ count = PerBatchC
    /\ okCount' = okCount + PerBatchC
    /\ heard' = heard \o [k \in 1..PerBatchC |-> raw[k - 1]]
    /\ used' = used + PerBatchC
    /\ cBatch' = cBatch + 1
    /\ FreeBatch
    /\ filling' = (filling /\ Room >= PerBatchC)
    /\ cPc' = IF filling THEN "request" ELSE "adjust"
    /\ UNCHANGED <<eos, cQuality, measure, trouble, netVars>>

TakeBatch ==
    /\ cPc = "check" /\ count = PerBatchC
    /\ okCount' = okCount + PerBatchC
    /\ heard' = heard \o [k \in 1..PerBatchC |-> raw[k - 1]]
    /\ used' = used + PerBatchC
    /\ cBatch' = cBatch + 1
    /\ FreeBatch
    /\ filling' = (filling /\ Room - PerBatchC >= PerBatchC)
    /\ cPc' = IF filling THEN "request" ELSE "adjust"
    /\ UNCHANGED <<eos, cQuality, measure, trouble, netVars>>

-----------------------------------------------------------------------------
(***************************************************************************)
(* quality_adjust, once per batch.                                         *)
(***************************************************************************)
ShouldIncrease == okCount > 16 * trouble
ShouldDecrease == okCount < 8 * trouble

NextQuality ==
    IF cQuality < TopQuality /\ ShouldIncrease THEN cQuality + 1
    ELSE IF cQuality > 1 /\ ShouldDecrease THEN cQuality - 1
    ELSE cQuality

AfterAdjust == IF eos THEN "drain" ELSE "request"

Measure ==
    /\ cPc = "adjust" /\ measure + 1 # MeasurePeriod
    /\ measure' = measure + 1
    /\ cPc' = AfterAdjust
    /\ UNCHANGED <<filling, eos, cBatch, cQuality, okCount, trouble,
                   batchVars, used, heard, netVars>>

AdjustQuality ==
    /\ cPc = "adjust" /\ measure + 1 = MeasurePeriod
    /\ cQuality' = NextQuality
    /\ measure' = 0 /\ okCount' = 0 /\ trouble' = 0
    /\ cPc' = IF NextQuality # cQuality THEN "qpeek" ELSE AfterAdjust
    /\ UNCHANGED <<filling, eos, cBatch, batchVars, used, heard, netVars>>

(***************************************************************************)
(* client_adjust_quality: unless the stream has ended, repeat QTY until an *)
(* ACK comes back.                                                         *)
(***************************************************************************)
QualityPointless ==
    /\ cPc = "qpeek"
    /\ SeesEOS
    /\ cPc' = AfterAdjust
    /\ UNCHANGED <<filling, eos, cBatch, qualityVars, batchVars, used, heard>>

(***************************************************************************)
(* The peek and the QTY that follows it are two calls: the peek may wait.  *)
(***************************************************************************)
QualityWanted(silent) ==
    /\ cPc = "qpeek"
    /\ SeesNoEOS(silent)
    /\ cPc' = "qsend"
    /\ UNCHANGED <<filling, eos, cBatch, qualityVars, batchVars, used, heard>>

SendQuality ==
    /\ cPc = "qsend"
    /\ Sends("QTY", cQuality, {})
    /\ cPc' = "qack"
    /\ UNCHANGED <<filling, eos, cBatch, qualityVars, batchVars, used, heard>>

QualityAgreed ==
    /\ cPc = "qack"
    /\ ClientReceives(FALSE) /\ Intact(s2c) /\ Head(s2c).flag = "ACK"
    /\ cPc' = AfterAdjust
    /\ UNCHANGED <<filling, eos, cBatch, qualityVars, batchVars, used, heard>>

(***************************************************************************)
(* Mutant of QualityRetry: QTY is not repeated.                            *)
(***************************************************************************)
QualityGiveUp(silent) ==
    /\ cPc = "qack"
    /\ \/ ClientReceives(FALSE) /\ ~(Intact(s2c) /\ Head(s2c).flag = "ACK")
       \/ TimesOut(silent)
    /\ cPc' = AfterAdjust
    /\ UNCHANGED <<filling, eos, cBatch, qualityVars, batchVars, used, heard>>

QualityRetry(silent) ==
    /\ cPc = "qack"
    /\ \/ ClientReceives(FALSE) /\ ~(Intact(s2c) /\ Head(s2c).flag = "ACK")
       \/ TimesOut(silent)
    /\ cPc' = "qpeek"
    /\ UNCHANGED <<filling, eos, cBatch, qualityVars, batchVars, used, heard>>

-----------------------------------------------------------------------------
(***************************************************************************)
(* Mutant of Drain: it plays first and looks whether there was anything    *)
(* next.                                                                   *)
(***************************************************************************)
DrainAtLeastOne ==
    /\ cPc = "drain"
    /\ used' = used - 1
    /\ cPc' = IF used > 1 THEN "drain" ELSE "done"
    /\ UNCHANGED <<filling, eos, cBatch, qualityVars, batchVars, heard,
                   netVars>>

(***************************************************************************)
(* run: play what is left.                                                 *)
(***************************************************************************)
Drain ==
    /\ cPc = "drain"
    /\ \/ used > 0 /\ used' = used - 1 /\ Plays("drain")
       \/ used = 0 /\ used' = used /\ cPc' = "done"
    /\ UNCHANGED <<filling, eos, cBatch, qualityVars, batchVars, heard,
                   netVars>>

ConnectStep(silent) ==
    Connect \/ Connected \/ ConnectFaulty \/ ConnectFails(silent)

BatchStep(silent) ==
    \/ RequestBatch \/ StreamEnds \/ StreamGoesOn(silent)
    \/ CollectTimeout(silent) \/ CollectFaulty \/ CollectIgnored
    \/ Accept \/ AcceptCrash
    \/ RejectMissing \/ TakeBatch

QualityStep(silent) ==
    \/ Measure \/ AdjustQuality
    \/ QualityPointless \/ QualityWanted(silent) \/ SendQuality
    \/ QualityAgreed \/ QualityRetry(silent)

ClientNext(silent) ==
    \/ ConnectStep(silent) \/ BatchStep(silent) \/ QualityStep(silent)
    \/ Play \/ Drain
=============================================================================
