------------------------------ MODULE Session ------------------------------
(***************************************************************************)
(* One client streaming from the server: the two programs and the network  *)
(* between them.                                                           *)
(***************************************************************************)
EXTENDS StreamServer, StreamClient

vars == <<netVars, delayed, overtaken, serverVars, clientVars>>

Init == NetInit /\ ServerInit /\ ClientInit

ServerStep == ServerNext /\ UNCHANGED <<clientVars, delayed, overtaken>>

ClientStep ==
    ClientNext(ServerSilent) /\ UNCHANGED <<serverVars, delayed, overtaken>>

NetworkStep == (Delay \/ Deliver) /\ UNCHANGED <<serverVars, clientVars>>

TimerStep == Expire /\ UNCHANGED <<clientVars, delayed, overtaken>>

ClientEnded == cPc \in {"done", "exited", "crashed"}

(***************************************************************************)
(* The client's process is gone, and the server has nothing left to do.    *)
(***************************************************************************)
Terminated == ClientEnded /\ UNCHANGED vars

Next == ServerStep \/ ClientStep \/ NetworkStep \/ TimerStep \/ Terminated

Spec == Init /\ [][Next]_vars

FairSpec == Spec /\ WF_vars(ServerStep) /\ WF_vars(ClientStep)

-----------------------------------------------------------------------------
TypeOK == NetTypeOK /\ ServerTypeOK /\ ClientTypeOK

(***************************************************************************)
(* buffer_add is called with override, and on a full buffer it would count *)
(* more packets than there are: receive_batch never gets that far, in      *)
(* whatever quality, filling or playing, because room for a batch was made *)
(* before it was requested.                                                *)
(***************************************************************************)
PlayerNeverOverrun == used <= Capacity

(***************************************************************************)
(* raw_batch_integrity_ok compares size_nrs with the size of the batch:    *)
(* that is sound as long as size_nrs is the number of packets that are     *)
(* there.                                                                  *)
(***************************************************************************)
CountMatchesReceived == count = Cardinality(have)

(***************************************************************************)
(* A batch number is in no data packet.  What keeps a batch from being     *)
(* taken for another is that nothing is on its way when one is requested.  *)
(***************************************************************************)
QuietAtRequest == cPc = "request" => c2s = <<>> /\ s2c = <<>>

(***************************************************************************)
(* While a batch is requested and collected both sides go by the same      *)
(* quality, hence the same size of batch and the same coding (README,      *)
(* Quality changes), through retries, answers that come late and a slot    *)
(* that expires: only a QTY that its own retry overtakes can undo it.      *)
(***************************************************************************)
QualityAgreement ==
    ~overtaken /\ (cPc = "request" \/ Collecting)
        => (inUse => sQuality = cQuality)

(***************************************************************************)
(* Between batches the two sides are at the same batch, and the server's   *)
(* music_ptr is where the client's music ends.                             *)
(***************************************************************************)
InStep ==
    cPc = "request" /\ inUse /\ sPc = "receive"
        => sBatch = cBatch /\ musicPtr = Len(heard)

(***************************************************************************)
(* What a REJ brings is the batch the client is collecting, packet by      *)
(* packet from where its music ends.                                       *)
(***************************************************************************)
RejectedBatchIsResent ==
    sPc = "resend" /\ todo # {} /\ task = "FAULTY" => musicPtr = Len(heard)

(***************************************************************************)
(* A REJ asks for exactly as many packets as the batch is short of: never  *)
(* for none, which no answer would end.                                    *)
(***************************************************************************)
RejectAsksForTheRest ==
    cPc = "check" /\ count # PerBatchC
        => count < PerBatchC /\ Cardinality(Missing) = PerBatchC - count

(***************************************************************************)
(* The test nr <= size of the batch in raw_batch_receive lets one number   *)
(* too many through, a packet coded for another quality grows when it is   *)
(* decoded, and the size of a packet wraps once bytes_sent has passed the  *)
(* end of the file.  The last is what it takes to write past the end of    *)
(* the batch: no packet of a larger batch or of another quality is ever    *)
(* left to arrive.                                                         *)
(***************************************************************************)
WritesInside ==
    cPc = "collect" /\ s2c # <<>> /\ Intact(s2c) /\ Acceptable(Head(s2c))
        => ~WritesOutside(Head(s2c))

WritesStayInside == bytesSent <= Payload => WritesInside

(***************************************************************************)
(* Nothing is heard that is not in the file: what the last batch has left  *)
(* over is packed with packets of 0 bytes (README, Final communication).   *)
(***************************************************************************)
NothingBeyondTheFile ==
    \A k \in 1..Len(heard) :
        heard[k].size > 0 => heard[k].pos * Chunk + heard[k].size <= Payload

(***************************************************************************)
(* A client that has heard the stream to its end has heard every chunk of  *)
(* the file in its place, and of each as much as one of the codings leaves *)
(* of it: of all but a last, partial chunk that is every byte.             *)
(***************************************************************************)
FileChunks == (Payload + Chunk - 1) \div Chunk

InTheFile(pos) == LesserOf(Chunk, Payload - pos * Chunk)

HeardAsCoded(slot, pos, codec) ==
    LET left == Kept(codec, InTheFile(pos))
    IN  left > 0 => slot.pos = pos /\ slot.size >= left

WholeFileHeard ==
    cPc = "done" => \A k \in 1..FileChunks :
        /\ k <= Len(heard)
        /\ \E codec \in Codecs : HeardAsCoded(heard[k], k - 1, codec)

(***************************************************************************)
(* What can take more from it is a packet that is sent a second time and   *)
(* cut by a bytes_sent that has gone on since, or, under the shuffle       *)
(* of simulation.h, a last batch that leaves out of order, of which        *)
(* prepare_final cuts whatever comes last.  Every other resend makes good  *)
(* what was lost, and every other batch may be shuffled.                   *)
(***************************************************************************)
NoResendIsCut == sPc = "resend" /\ todo # {} => ~Cut

LeavesInOrder == \A k \in todo, n \in (0..(PerBatch - 1)) \ todo : n < k

EndsInOrder == sPc = "batch" /\ stage = "FINAL" => LeavesInOrder

OnlyCutResendsLose == [](NoResendIsCut /\ EndsInOrder) => []WholeFileHeard

(***************************************************************************)
(* What can bring something from beyond the file is a batch that the       *)
(* server does not know to be the last one: the first of a file that is    *)
(* shorter than it, and one that a better quality has made larger than the *)
(* server foresaw.  (A last batch that leaves out of order is the          *)
(* shuffle's doing, as before.)                                            *)
(***************************************************************************)
NoRaiseAsked ==
    c2s # <<>> /\ Head(c2s).flag = "QTY" => Head(c2s).arg <= sQuality

OnlyRaisesGoBeyond ==
    Payload >= Chunk * Packets[InitialQuality]
        /\ [](NoRaiseAsked /\ EndsInOrder)
        => []NothingBeyondTheFile

(***************************************************************************)
(* The same batches are what can end the server's process: what is read    *)
(* for a packet is in the file, and with requests that arrive no task is   *)
(* carried out twice or without its argument.  (The shuffle of a last      *)
(* batch sends a packet from beyond the file before it is cut.)            *)
(***************************************************************************)
OnlyRaisesBringItDown ==
    Payload >= Chunk * Packets[InitialQuality] /\ []NoRaiseAsked
        => [](sPc = "down" => Reorder /\ stage = "FINAL")

(***************************************************************************)
(* The client takes the stream for ended only when the server has let it   *)
(* go: through retries, stray requests and a timer that drops it.          *)
(***************************************************************************)
EOSIsTheEnd == eos => seen /\ ~inUse

(***************************************************************************)
(* The invariant that carries the type invariant, PlayerNeverOverrun and   *)
(* EOSIsTheEnd from step to step.                                          *)
(***************************************************************************)
SessionInv == TypeOK /\ SlotInv /\ BatchInv /\ RoomInv /\ EOSIsTheEnd

(***************************************************************************)
(* The client finishes, or its user gives up (or one of the programs       *)
(* crashes).                                                               *)
(***************************************************************************)
Termination == <>(ClientEnded \/ sPc = "down")

(***************************************************************************)
(* What can keep it from that is a packet that sendto refuses: its size    *)
(* has wrapped, and every REJ brings the same one again.                   *)
(***************************************************************************)
NothingRefused ==
    sPc \in {"batch", "resend"}
        => \A n \in todo : DatagramSize(MusicPacket(n)) <= Longest

OnlyRefusalsHang == []NothingRefused => Termination

-----------------------------------------------------------------------------
(***************************************************************************)
(* Session implements AudioStream.  A REJ for the batch that reaches the   *)
(* end of the file gets packets cut to what bytes_sent leaves of it, down  *)
(* to nothing: nothing is promised of that batch and of the partial chunk. *)
(***************************************************************************)
Phase == CASE cPc = "done" -> "ended"
           [] cPc \in {"exited", "crashed"} -> "gone"
           [] OTHER -> "streaming"

Audio == INSTANCE AudioStream WITH
            Chunks <- FileChunks, Margin <- Packets[TopQuality] + 1,
            Whole <- Chunk, Group <- Packets[TopQuality], phase <- Phase

ImplementsAudioStream == Audio!Spec
=============================================================================
