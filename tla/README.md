# Formal model of the music protocol

TLA+ specifications of the audio-streaming protocol in this repository: a
server that streams a WAV file to clients over UDP in batches of packets, and a
client that requests the batches, repairs them and plays them. TLC checks the
models on small instances; TLAPS proves the invariants that can be proved for
every instance.

All paths below are relative to the repository; `receive.c` and `send.c` exist
on both sides and are qualified where it matters.

## 1. The system

### Components, their state and operations

| Component | Source | State | Operations |
|---|---|---|---|
| Communication | `communication/com.c`, `packet`, `flags` | none of its own; the sockets' queues | `com_send`, `com_receive` (blocking, peeking), `com_consume_packet` |
| Checksums | `communication/checksums/checksum.c` | the two sums of the loop | `generate_16bit_fletcher` |
| Server main loop | `server/server/server.c`, `receive/receive.c`, `send/send.c`, `task/` | the stack variable `task`, never initialised and never reset | receive a datagram, derive a task, send a flag, a batch or a resend, `task_free` |
| Client slot | `server/client_info/`, `receive/client_search.c` | address, `in_use`, `stage`, `batch_nr`, `quality`, `packets_per_batch`, `music_ptr`, `bytes_sent`, `timeout_in_ms` | `search_client`, `client_info_init`, `client_info_free` |
| Server timer thread | `thread_run_timeout_timers` | the slots' timeouts | drops a client silent for three seconds |
| Client | `client/main.c`, `client/client/` | `batch_nr`, `EOS_received`, the batch being collected (`data_ptr`, `recv_nrs`, `size_nrs`) | connect, request, collect, reject, take a batch, drain |
| Quality | `communication/quality`, `constants` | `current`, `ok`, `lost`, `faulty`, `last_measure` | `quality_adjust`, the QTY exchange |
| Playback buffer | `buffer/` | `start`, `end`, `used` | `buffer_add`, `buffer_get` |
| Coding | `compression/` | none | pack 128 bits into 112, drop one frame in eight, and back |
| Simulation | `communication/simulation` | none | drops, flips, shuffles, waits |
| Audio output | `client/musicplayer` | the device | play a packet; a failure ends the program |
| Music file, menu, statistics | `server/music`, `menu`, `stats` | | I/O |

### How they interact

The client is one thread and drives everything: it sends ACK to connect, then
RR for each batch, REJ with a list of packet numbers for what is missing, QTY to
change the quality; it waits at most 16 ms for each datagram. The server is one
loop that answers each datagram before it reads the next, and one thread that
counts timeouts down. They share the slots. Error handling is the client's
alone: the server ignores what it cannot read.

### What is hard

* Data packets carry a number within the batch but no batch number, and the
  number in an RR is never read. That a packet belongs to the batch being
  collected rests on nothing else being on its way.
* Each side advances its own counters: the server `music_ptr` when a batch has
  been *sent*, the client `batch_nr` when one is *complete*. Retries must not
  drive them apart.
* Both sides must use the same quality (batch size and coding), which QTY
  changes in the middle of the stream.
* A timeout may be too early, so that the answer comes after the retry.
* The server may drop the client at any time; the client must learn of it.
* `task` survives iterations; one faulty datagram makes the server throw the
  next one away; a first REJ runs on an uninitialised argument.
* The playback buffer counts wrongly for good once it is overrun.
* The size in a header decides what is allocated and received before anything but
  the header's own 16-bit sum has been tested.
* Packing, resampling and the sums work on groups, on words of fixed width and on
  sizes counted in different units; the last packet of a file is of any length.

### What makes each component correct

| Component | Properties |
|---|---|
| Client and server together | every batch is the one requested and complete; the listener hears the file in order and to its end; both sides agree on quality and position between batches |
| Ending | the client stops only when the server ended the stream, and always stops; the listener has had the whole file and nothing else; the server is still there |
| Client | room for each batch before it is requested; a REJ asks for exactly what is missing |
| Table of clients | a client is refused only when the server is full; the timer drops only silent clients |
| Playback buffer | a FIFO queue of bounded size |
| Communication, checksums | one or two flipped bits are noticed; nothing in a header is acted on that was not sent; the loop computes Fletcher's sums |
| Coding | decoding gives back what was encoded, up to the two low bits or the dropped frames; no copy leaves its buffer |

## 2. Modules

```
Protocol      qualities, batch sizes, datagrams
  Network     two queues, what the network and com_receive do to them
    StreamServer   the server's loop, for one client's slot
    StreamClient   the client's loop
      Session      both, composed; the properties
        MCSession  instances for TLC
AudioStream   what the listener is promised; Session implements it
EndpointProofs <- SessionProofs <- LockstepProofs <- AudioProofs
              one lemma per action, and what each part of the session is proved to do

PlaybackBuffer   the ring and the client's use of it; implements Playback
  MCPlaybackBuffer  an instance for TLC
  BufferProofs      its theorems
Playback      a bounded queue from which everything is played

ClientTable   the table of clients, the main loop and the timer thread
  MCClientTable  instances for TLC
  TableProofs    its theorems

Checksum      generate_16bit_fletcher; implements Fletcher
Coding        packing and resampling
  PacketPath    one packet from the file to the player, byte by byte
    MCPacketPath  packets for TLC
    PacketProofs  its theorems, but for those about flipped bits
      FlipProofs  ... and those: which flips the two sums notice
Fletcher      the two sums modulo 255
```

**Protocol.** `Packets[q]` is `constants_batch_packets_amount`; sizes are bytes,
`Chunk` of them in a full packet. A datagram is a record: `fit` says what the
two checksums will say of it. Music names the chunk of the file it was copied
from (`pos`), how many bytes were taken there, and its coding. `Encoded` and
`Decoded` are how many bytes coding leaves: all of a full packet (`KeptWhole`,
because `Chunk` is a multiple of 128), and of a partial one whole groups
(`Kept`; up to 15 bytes are lost at quality 2, up to 31 at quality 1).
`PacketSize` and `DatagramSize` are what travels. `PROJECT.json` maps every
definition to the lines it models.

**Network.** `ToServer` and `ToClient` are `com_send` over UDP: the datagram
arrives, is lost, or arrives with a header or data that fails its checksum.
`AfterReceive` is what `com_receive` leaves of a queue; peeking consumes a
datagram only when its header is faulty. `Delay` and `Deliver` let a request be
passed by later ones. Every disturbance costs budget (`Budgets`), so that a run
says exactly what may go wrong, and how often. `overtaken` is a history variable:
whether a request has ever arrived after one that was sent later.

**StreamServer.** `sPc` is where the loop of `server_run` is. One action per
kind of request and stage (`HandleACK`, `HandleRR`, `EndStream`, `HandleREJ`,
`HandleQTY`, ...), one per packet sent (`SendPacket`) and one for what follows a
batch or a resend. `Stranger` is what `search_client` says of a slot that still
holds the address of the client that left. It is that of a server that has seen
one client, which is then in the first slot: the second loop stops there. When others
have come and gone, an unused slot before it takes the client in again;
`ClientTable` has that (`Unused`), the session has not. For the same reason the task
that is repeated is never `SEND_EOS` here. A packet too long for a datagram is
refused by `sendto`, and one of 65528 bytes or more wraps the 16-bit size of the
datagram (`Leaves`, `Wraps`).
Undefined behaviour is a choice: the argument of a REJ in the INITIAL stage
(`HandleFirstREJ`), the task of the last iteration (`RepeatLastTask`), the double
free (`Swallow`), a read outside the mapped file or a datagram copied into too small
a buffer (`SendCrash`); each of them may also end the process (`Crash`).

**StreamClient.** `cPc` is where the single thread is. `raw`, `have` and `count`
are the three fields of `raw_batch_t`; `iter` and `limit` are the loop of
`raw_batch_receive`, one receive per step. `Accept` copies a packet into its
place whether or not it was there before, and, when decoding makes more of it than a
slot holds (`DecodedSize`, `Overruns`), over its neighbours. `heard` is a history variable: every packet handed
to the playback buffer. Wherever a packet is played (`Plays`) the player may fail,
and `player_play` then ends the program.

**Session** composes the two and states the properties. **AudioStream** is the
abstract specification: groups of chunks are heard, in order, each the right one
and whole, and the stream ends only when there has been as much to hear as the
file has.

**PlaybackBuffer** is the ring of `buffer.c`, element by element (`BufferAdd`,
`BufferGet`, `BufferFull`, `BufferEmpty`, each from its own function), driven as
the client drives it: fill it without looking (`client_fill_initial_buffer` tests
the room after each batch), play until a batch fits, add the batch packet by
packet with override, drain at the end. The quality, and so the size of the next
batch, may change after every batch but the first ones. `StreamClient` keeps only
the fill level, so that the session stays small; here the rest of the session is
left out and any batch may be the last, and the player may fail at any packet.
**Playback** is the queue it implements.

**ClientTable** has all slots and several clients, and both threads of the server,
which share the slots without a lock. A step of either touches `in_use`,
`timeout_in_ms` or the memory of `quality` and `stat` once: the search goes slot
by slot (`Match`, `Unused`), registration sets `in_use` (`InitSlot`) before memory
(`FillSlot`) and timeout (`Refresh`) and prints the quality (`PrintClient`), the end of a stream frees before it clears
(`EndOfStream`, `Release`), and the timer reads, subtracts, tests, frees and
clears (`Load`, `Store`, `Judge`, `Free`, `Clear`). `Judge` may test the value just
written or read it again: the race leaves both to the compiler. Using memory that
is not there may go well or end the process (`Die`). Stores of one thread are seen
in program order. What is streamed is left to `StreamServer`: here any batch may be
the last. `overlapped` is a history variable that turns true when an iteration of
one thread begins during one of the other.

**PacketPath** follows one packet: `Encode` (what `send_batch` does for the
quality), `SumData` and `Send` (`com_send`), `Flip`, then
`Receive`, `TestHeader` and `TestData` (`com_receive`) and `Decode`. Every sum is
computed by **Checksum**, one byte a step (`AddByte`) with two 16-bit words that
are folded after every 20 bytes. **Coding** has the six conversions as functions
of byte sequences: `PackedWord` and `UnpackedWord` are the seven masks and shifts
and the eight of `compress.c`, written as quotients and remainders;
`DownsampledSize` counts bytes and `Copied` counts frames, as the code does.
`Network`, `Protocol` and `StreamClient` rest on it: there a datagram is intact or not,
a packet's coding is a name, and of the conversions only sizes are left. **Fletcher** is what `Checksum` implements.

## 3. Runs

The instances of the session have three qualities with batches of 1, 2 and 3 packets of
256 bytes, a buffer of 6 packets (the minimum: two of the largest batches) and a file
of 11 to 14 chunks, the last one partial: 2660 bytes in the runs of violations 1 to 4,
3308 in that of violation 5, 3322 in `session_anything`, 3564 in `session_lossy_replies`.

| Run | What may go wrong | What is checked |
|---|---|---|
| `session_lossy_replies` | four replies lost or corrupted; batches shuffled | `InStep`, `QuietAtRequest`, `CountMatchesReceived`, `RejectedBatchIsResent`, `WritesStayInside`, `ImplementsAudioStream`, `OnlyCutResendsLose`, `OnlyRaisesGoBeyond`, `OnlyRaisesBringItDown`, `OnlyRefusalsHang` |
| `session_anything` | any two disturbances, a delayed request included | `TypeOK`, `PlayerNeverOverrun`, `RejectAsksForTheRest`, `QualityAgreement`, `EOSIsTheEnd`, `SessionInv` |
| `session_late_answer` | one reply lost, one early timeout | violates `CountMatchesReceived` |
| `session_request_lost` | one request lost | violates `RejectedBatchIsResent` |
| `session_reply_lost_at_end` | one reply lost | violates `WholeFileHeard` |
| `session_client_dropped` | the slot expires | violates `Termination` |
| `session_quality_raised_at_end` | nothing | violates `NothingBeyondTheFile` |
| `client_table` | silence, lost answers, every interleaving; 2 slots, 3 clients, one pass | `TableInv`, `OneSlotPerClient`, `SlotMemoryOwned`, `NewcomerRefusedOnlyWhenFull`, `AcknowledgedInTurn` |
| `client_table_gone` | the same; 1 slot, 2 clients, three passes | `GoneIsDropped` |
| `client_table_unregistered` | the same | violates `AcknowledgedIsRegistered` |
| `packet_path` | up to two flipped bits; packets of every kind of length in each coding | `TypeOK`, `ChecksumIsFletcher`, `FlipsNoticed`, `HeaderTrusted`, `PlayedAsPromised`, `CopiesStayInside`, `SumsAreFletchers` |
| `playback_buffer` | the player fails; a ring of 6, batches of 1, 2 and 3, two kinds of packets | `RingInv`, `ImplementsPlayback`, `RoomIsMade` |

The two passing runs of the session draw the line the code itself draws. With
requests that arrive and answers that are prompt the protocol does what its README
says, up to one batch and the partial chunk before the end. With everything, the client still never overruns
its buffer, never asks for nothing, and takes the stream for ended only when it is;
and until a request has been overtaken by a later one (`~overtaken`) both sides
agree on the quality whenever a batch is requested or collected.

In `session_lossy_replies` the quality is measured after every batch and may rise just before the end
of the file, so that the server misses the last batch (violation 5). What that costs is
in the premises of four properties. Each premise about the stream is needed: without it
TLC finds the property violated in this run.

* `WritesStayInside` is where the off-by-one of `raw_batch_receive` (`nr > packets`,
  `client/.../receive.c:74`) would bite. The test lets one number too many through,
  and a packet of another quality grows when it is decoded; with prompt answers neither
  is ever on its way. What does write past the end of the batch is a resend after
  `bytes_sent` has passed the end of the file: its size wraps to nearly 64 KiB, and the
  client copies all of it (`WritesInside` alone is violated here). So the
  property holds as long as `bytes_sent <= Payload`. `WritesHold` and
  `WritesHoldUnlessRaised` (§4) prove it and what is behind it.
* `OnlyRefusalsHang`: the client finishes, unless a packet is too long for `sendto`.
  Such a packet is refused on every retry, and `receive_batch` asks for ever: in this
  run a resend that overshoots the file by 20 bytes does it.
* `OnlyCutResendsLose`: the listener has heard the whole file (`WholeFileHeard`): of every
  full chunk every byte, and of a partial last one what one of the codings leaves of it.
  More than that was cut: in a resend (`NoResendIsCut` is the premise), or in
  a last batch that was shuffled, of which `prepare_final` cuts whichever packet comes
  last (`EndsInOrder`; the shuffle is `simulation.h`'s, and all other batches may be
  shuffled). Violation 3 is the first of these.
* `OnlyRaisesGoBeyond`: what is heard from beyond the file was in such a last batch, in
  one that a better quality had made larger than the server foresaw (`NoRaiseAsked`),
  or the file is shorter than one batch.
* `OnlyRaisesBringItDown`: nothing else ends the server's process either, through a
  read from outside the file, a datagram whose size wraps, a repeated task or a REJ
  without its argument.

`client_table` separates what the missing lock costs from what it does not. A client
never gets two slots, however the timer moves under the search. That memory has one
owner, that a newcomer is refused only by a full server and that an acknowledged
client is registered holds as long as the threads take turns (`~overlapped`), which
is what a pass a second and iterations of microseconds give nearly always, and
nothing enforces. A client that has been in a slot before is a different matter: it
is refused although there is room when that slot is the first unused one
(`client_search.c:20`), against README 46-47 ("This is because the server is full"),
and taken in again when another unused one comes first. Nothing is claimed of it.

`playback_buffer` has a small ring that wraps at every second batch. With six
elements each of the three batch sizes leaves `start` everywhere, and the ring is
full with `start = end` at every one of them.

`packet_path` shows what the rest of the project takes for granted: that a faulty
datagram is noticed and that the three codings give the listener the same packet.
Two flipped bits escape only in a full packet, when a byte and the 255th after it
change by the same amount in opposite directions: the sums are modulo 255 and 255
bytes apart the second cannot tell them (`Balanced`). `CopiesStayInside` holds
by what `malloc` rounds up to, not by what `downsample` asked for
(`compress.c:129`). A datagram shorter than its header says would be summed over
bytes that `malloc` left (`Leftover`); `HeaderTrusted` shows that one or two flipped
bits cannot make one. (With more nothing is claimed: the bound is in the property, and
the run flips at most two.)

### What the violations show

1. *An answer that is late* (`receive.c:86`): after the timeout a REJ has the
   batch sent again. Both copies arrive, duplicates are counted, and
   `raw_batch_integrity_ok` accepts a batch with holes.
2. *A lost RR* (`server/.../send.c:94`): README "essentially retrying the RR".
   The REJ carries the number the server already has, `set_music_to_batch`
   expects one more, and the previous batch is sent again.
3. *A lost packet near the end* (`send.c:31`): a resend in the FINAL stage is cut
   to `payload_size - bytes_sent`, although `bytes_sent` counts the packet being
   resent already. Silence is heard in its place.
4. *A client dropped while it changes quality* (`client.c:109`): the EOS that
   answers its QTY is consumed by `receive_ACK`, and it asks for ever.
5. *Quality raised just before the end* (`send.c:87`): the last batch is larger
   than the server foresaw and is filled from beyond the file. If a packet of it
   is lost as well, `payload_size - bytes_sent` is negative when the resend is
   sized and wraps to 16 bits. With `x` bytes too many and plain coding the datagram
   has `65544 - x`: it leaves, and overruns the client's batch, when `x` is more
   than 36; `sendto` refuses it on every retry when `x` is 9 to 36; and it
   wraps once more, under a copy of 64 KiB into a few bytes, when `x` is at most 8.
   The first two happen in `session_lossy_replies` as well, behind the premises of
   `WritesStayInside` and `OnlyRefusalsHang`.
6. *A pass of the timer during registration* (`client_info.c:12`): `in_use` is set
   first and the timeout last. The timer takes the new client for silent and drops
   it; the main loop still sends it the ACK that README:51-52 says acknowledges its
   registration.

### Bounds, and why they are enough

* *Batches of 1, 2, 3 packets.* A batch needs two packets for one to be missing
  while another is there, and three qualities give one with room on both sides.
  The code's sizes differ by much more, which the theorems cover.
* *Five to fourteen batches.* At the initial quality the quality can change up and
  down before the end, the FINAL stage begin one and two batches early, and the last
  chunk be partial. 3308 and 3564 bytes are what a rise just before the end
  needs; the partial chunk of 236 bytes is not whole groups in either coding.
* *`MeasurePeriod` is 2, or 1,* instead of 5 batches, for the same reason. Between two
  measurements there are at most 12 packets (6 of the first fill, and two batches), so
  `ok < 8 * trouble` for every `trouble >= 2`, and `TroubleCap = 4` loses nothing; the
  condition that divides 6.25% from 12.5% is only seen in the proofs, where the cap is
  arbitrary.
* *Two disturbances, four for replies.* The bugs above need at most two. Four replies
  that are lost one after the other are also retries of retries. A budget is spent in
  any order and at any time.
* *`ResendAnything`* takes the list it reads through a dangling pointer from the
  numbers up to the size of a batch, each once. A number above is thrown away by the
  client, and no property counts the datagrams.
* *One delayed request at a time*; replies need no such step because an early
  timeout makes any reply late.
* `SizeWidth` is 2^16 and `Longest` 65507, as they are; nothing is scaled there.
* *Two slots, three clients* are what a full table with a newcomer needs, and a
  search that passes a slot which then changes. `timeout` stops at 0: the code
  looks at its sign only. One pass of silence drops a client in `client_table`
  (the interleavings matter there), three in the other two, as in the code.
  `SYMMETRY` is used in `client_table` only, which checks no liveness.
* *Packets of `packet_path`*: every length from 0 to 70 bytes, four groups of each
  conversion and all remainders, and 200, 228 and 256; qualities 1 to 3 (4 and 5
  are sent plain like 3, and are used for two of the packets that are disturbed);
  every single bit of a group of sixteen bytes; loud data, which makes the sums
  grow fastest. Bits flip anywhere in a datagram of 30 bytes and in one without
  data, and in the three bytes of a full one that meet the exception; at most two.

### Fairness

`FairSpec` asks weak fairness of the server's loop and of the client's loop.
Both are threads that block in `recvfrom` only; the client's socket has a
timeout of 16 ms, which is a step of the client that is always enabled while it
waits for a server that will not send. Nothing is asked of the network, of the
timer or of the user at the "Retry?" prompt. `Termination`, which is also what
`OnlyRefusalsHang` promises, accepts that the user gives up and that a process
crashes.

`PlaybackBuffer` is one thread that computes: nothing in it waits for anyone. The
fairness is of the steps that do not end the program
(`WF_vars(Next /\ mode' # "exited")`): a device need not fail. That a batch is ever received is the session's business, so
`RoomIsMade` only promises that the loop before the request ends.

`ClientTable` asks weak fairness of each thread (`WF_vars(Main)`,
`WF_vars(Timer)`): neither waits for the other, and the timer's sleep ends.
`GoneIsDropped` accepts that the process ends.

Deadlock is checked in every run: `Terminated` and `Stopped` are the only ways to
stop. `PacketPath` is about safety only and states no fairness.

## 4. Proofs

`SessionProofs` proves, for every file, table of batch sizes, buffer size and
set of budgets that satisfy the named assumptions (`ProtocolAssumption`,
`BudgetAssumption`, `ServerAssumption`, `ClientAssumption`):

* `SessionInvariant`: `Spec => []SessionInv`
* `TypeCorrect`: `TypeOK`
* `PlayerSafe`: the playback buffer is never overrun
* `EndIsTheEnd`: EOS is believed only when the server has released the slot
* `RestIsAskedFor`: a REJ asks for as many packets as the batch is short of, never
  for none

The first four rest on one inductive invariant, `SessionInv`. Neither property is
inductive alone:

* `used <= Capacity` is preserved by `TakeBatch` only if room for the batch in
  progress has been kept, for the *present* quality. `RoomInv` therefore says
  that every state from the request to the last check has room, and that the
  quality changes only after the first fill, when the main loop makes room again
  before it requests. In the filling phase the room after one batch is tested
  against the same quality (`client.c:98`).
* `TakeBatch` adds `PerBatchC` packets, so the batch must have the size of the
  present quality: `BatchInv` ties `raw`, `count`, `iter` and `limit` to the
  program counter. It also gives the type of `raw`, which depends on the quality,
  and bounds `limit - iter`, an unsigned subtraction in the code.
* `eos` is set from a datagram that was sent earlier. `SlotInv` says that while
  an EOS is anywhere in the queue the slot is released, which needs that no action of
  the server takes a seen and released slot back (`StrangerStaysOut`).

`RestIsAskedFor` adds `MarksInv`, that no more packets are marked as received than
have been counted (fewer, once one came twice). So at least as many are missing as
the REJ has room for, and `Missing`, the smallest of them, is described by how many
unmarked packets are below each: `LowestCounted` shows by ranks that such a set has
exactly the size it should have.

It also proves `SameQuality`: for every budget of losses, corruptions,
timeouts and delays, `QualityAgreement`. The argument is about the order of things
in the two queues. While a batch is requested and collected, what is left of an
exchange about the quality comes before any music (`QualityFirst`); while the
quality is changed, what is left of a batch comes before any answer to the change
(`MusicFirst`). So a client that counts one packet, or hears one ACK, knows that
what is behind it belongs to the same phase, however often it timed out and asked
again. `AgreementInv` says so for each phase of the client (`ConnectOrder`,
`SettledOrder`, `ChangeOrder`), and the server's steps are reduced to six kinds by
what they do to the queues (`ServerMoves`), so that the phases need not look into
each of its actions.

`EndpointProofs` has the lemmas about queues and, for the server and the client,
one lemma per action or group of actions, stated under the part of the invariant
it needs; `SessionProofs` puts them together along `Next`.

`LockstepProofs` is about the prompt network, for every constant and for any number
of lost and corrupted replies. Its one assumption, `RequestsArrive`, is about the
budgets: they are 0 for requests that are lost, corrupted or delayed, for timeouts
that come too early and for the timer. The violations 1, 2 and 4 show that early
timeouts, lost requests and the timer matter.

* `QuietWhenAsked`, `CountIsRight`, `PlacesMatch`, `TheRightBatchIsResent`:
  `QuietAtRequest`, `CountMatchesReceived`, `InStep`, `RejectedBatchIsResent`

None of the four is inductive. `TrafficInv` says for each
phase of the client what may be under way: nothing, one question or its answer, one
request for music, or a *flight*: packets in the queue and packets the server still
has to send, all of them unmarked, each once, and together no more of them than the
client will do receives. The last is what makes `check` find the queue empty,
whatever was lost: `raw_batch_receive` does as many receives as packets are missing,
and a REJ asks for exactly those (`RestIsListed`, from `RestIsAskedFor`). From the
flight follows that no packet is counted twice. `PlaceInv` says where the two sides
are, and there are only two cases: `music_ptr` and `batch_nr` are those of the
client, or one batch ahead, from the moment the server has sent the batch until the
client has it. `WhoAsks` and `NothingElseAsked` then rule out all but six of the
server's answers.

`AudioProofs` proves the refinement, under the same assumption:

* `ListenerGetsTheFile`: `Spec => ImplementsAudioStream`

On top of `LockInv`, `AudioInv` follows a chunk on its way: what is sent, under way
and collected names the place in the file where it will be heard (`WholeInTransit`,
`WholeInBatch`), and is whole unless its batch or the next chunk reaches the end of
the file. That in turn rests on `BytesInv`: `bytes_sent` never runs ahead of the
music it stands for (`SentUpTo`: resent packets are not counted, and a cut packet
counts at most a chunk), so when `payload_size - bytes_sent` falls below a packet the
end is within one chunk of what has been sent (`CutIsAtTheEnd`), and when the server
ends the stream the client has as many chunks as the file (`EndComesLate`). A
packet whose size wrapped spoils only the places behind it, of which nothing is
promised (`AcceptKeepsWhole`). `ClientIsHeard` maps the steps: `TakeBatch` is `Hear`,
the last `Drain` is `End`, giving up and crashing are `Leave`, all others stutter.
The margin of `Packets[TopQuality] + 1` chunks is exact: a file of three chunks and a half that
begins at quality 3 can lose the first of its four chunks, three before the last
(violation 3 shows the loss behind it).

* `WritesHold`: `Spec => []WritesStayInside`, that is, as long as `bytesSent <= Payload`

A packet written into the batch is one of the flight, so its number is not the one too
many, and `WholeInTransit` gives its coding, so that decoding makes no more of it than
was read (`CodedAlike`). What is left is its size, which is right as long as `payload_size - bytes_sent` is not negative. `FitInv` says that this is settled
by the present value of `bytes_sent`: in the FINAL stage a batch is begun only with bytes
left, so once the count is past the end it stays there, and packets sent before it got
there fit. Behind that boundary is violation 5.

* `WholeFile`, `OnlyRaises`: `Spec => OnlyCutResendsLose`, `Spec => OnlyRaisesGoBeyond`
* `NothingBeyond`: `Spec => [](bytesSent <= Payload => NothingBeyondTheFile)`, for a
  server that does not shuffle (`~Reorder`)
* `WritesHoldUnlessRaised`: `Spec => ([]NoRaiseAsked => []WritesInside)`, for a file
  that has music for a first batch
* `OnlyRaisesCrash`: `Spec => OnlyRaisesBringItDown`

`AudioInv` leaves the last batch out; these are about it. `HeardFrom(S)` says that
all packets under way are of the set `S`, and that every place of the batch and of the music
holds what a packet of `S` for that place leaves in it. It is inductive for every `S`
without packets that are too long, provided that the server sends nothing else
(`HeardStep`), so one induction through the client serves both: `Complete` packets have all
the file has for their place, `Inside` packets nothing from beyond it. What is sent is
of these sets because of `SentInv`: `bytes_sent` is not only bounded by the music it
stands for, as in `BytesInv`, but equal to it (`SentExactly`), in whatever order it left, or it is
the payload's size, once the end has been reached. In a batch that leaves in order no
packet goes out from before that place and the next one from there (`NextOfABatch`),
so what is cut is rightly cut (`SentIsComplete`) and what is not ends inside the file
(`SentIsInside`); a packet that goes out again is behind it.

`ForeseenInv` is why only a better quality takes `bytes_sent` past the end: a batch
that is not known to be the last one, and the next one after it, have their whole size
left in the file, which is also why such a batch may be shuffled (`ForeseenIsInside`).
That is tested when a batch ends with the size it had (`FinishBatch`), for a next batch
that is not larger. The first batch is not tested at all, so its size, which is that of
the quality asked for on the command line (`ClientForesees`), has to be assumed to fit.
That the server survives such a stream (`UpInv`) follows from the same places: what is
read for a packet is inside the file (`ReadsInside`: in a batch that was foreseen, in
a resend, and in a last batch that leaves in order), no size wraps (`SizeFits`), and each
request is carried out once, with the numbers it brought (`NothingElseAsked`).

`Complete` is about bytes: a packet of the set brings, for its place, as much as its
coding keeps of what the file has there (`WrittenOf`); of a full chunk that is all
(`KeptWhole`), and of two packets for one place the longer one keeps more (`KeptGrows`).

`BufferProofs` proves, for every size of ring and set of batch sizes with twice
the largest batch in the ring (`BufferAssumption`, enforced by `client/main.c`):

* `RingInvariant`: `Spec => []RingInv`
* `RingIsAQueue`: `Spec => ImplementsPlayback`

The mapping takes the `used` elements from `start` on, round the end of the
array, for the queue. It is right only if `start + used` is `end`, or `end + max`
when the elements go round, and if `buffer_add` never meets a full ring: it would
then step `start` on, as an overwriting queue should, but count one more as well
and leave `used > max` for good. So `RingInv` also says that what is still to be
added of a batch fits. That is the same promise `PlayerSafe` makes in the session,
where the size of a batch is the one the network delivered. `AddIsPut` and
`GetIsPlay` are the two lemmas on the ring; `QueueStep` puts them together.

`TableProofs` proves, for every number of slots and clients and every timeout
(`TableAssumption`):

* `TableInvariant`: `Spec => []TableInv`
* `NeverTwoSlots`: `OneSlotPerClient`, under every interleaving
* `MemoryInTurn`, `RegisteredInTurn`: `SlotMemoryOwned` and `AcknowledgedInTurn`

A slot is taken on the strength of a search that is over, so `SearchInv` carries
what the search has seen: the slots it has passed were not the sender's, and stay
so, because the timer can only clear `in_use`. `InTurnInv` says what taking turns
gives: one thread rests while the other works, hence the slot a thread works on
stays in use, and a slot in use has its memory but in the steps that take it or
give it up. It also shows that `Die` needs an overlap. `NewcomersRefused`
(`NewcomerRefusedOnlyWhenFull`) needs that every slot was in use at once: the ones
the search has passed were in use then, and with the threads taking turns are still.

`PacketProofs` proves, for every packet of up to 256 bytes and every pattern of
flipped bits (`PacketAssumption`, `LeftoverAssumption`):

* `PacketTypesHold`, `ChecksumHolds`, `PlayedHolds`, `CopiesHold`: `TypeOK`,
  `ChecksumIsFletcher`, `PlayedAsPromised`, `CopiesStayInside`
* `LoopImplementsFletcher`: `Spec => SumsAreFletchers`

The words never wrap because of what they can be `k` bytes into a block: `sum1` at
most its folded maximum and 255 for each byte, `sum2` that much for each byte again
(`ByteKeepsBounds`), which after 20 bytes still fits 16 bits. Folding keeps the
residue modulo 255, as 256 is 1 there, and never gives 0 (`FoldKeepsResidue`).
`PackingRoundTrip` is that unpacking undoes packing but for the two low bits, word
by word; on top of it `CodedHeard` puts the steps of a quality together, and
`CarriedInv` says what `data` and `wire` are at every step of the packet's way.

`FlipProofs` proves, for the same packets, whatever two of their bits flip:

* `HeaderHolds`: `Spec => []HeaderTrusted`
* `FlipsHold`: `Spec => []FlipsNoticed`

The sums of a packet are computed byte by byte, so what they are is a statement about
a sequence of any length. A *trace* of a section of a datagram is a pair of functions,
the two sums modulo 255 after each of its bytes (`SumsTo`). How far the sums of two sections
drift apart is proved by induction up to the length (`InductionUpTo`, from the least
number for which it would fail). When one byte changes by `d`, `sum1` drifts by `d` and
`sum2` by `d` times the number of bytes from there to the end (`Drift`). A bit changes its
byte by at most 128 and never by 0, so one flip is seen by `sum1`; of two flips it is
not seen only if their amounts cancel, and `sum2` misses those only if the two places are
255 bytes apart. The six bytes that the header's sum covers are too few for that, and
256 bytes of music only in one way: that is `Balanced`. The sums themselves travel in the datagram and may
flip too: `FlipsAreAPair` and `PassesOnlyIfBalanced` go through where the two bits are.
`WayInv` carries along the packet's way that what was sent is consistent (`Whole`), that
the wire differs from it in the flipped bits only (`Flips`), and that the loop's sums
are those of a trace of the bytes it has passed (`RunInv`).

Only model-checked: the liveness properties `OnlyRefusalsHang`, `RoomIsMade` and
`GoneIsDropped`, which are beyond the prover. What the violations refute is, of
course, not proved either: the theorems say under which budgets it cannot happen.
The library's induction theorems take an operator as parameter, which no installed
prover can instantiate; where an induction was needed the set of numbers that fail is
named, and it has a least element (`WFMin`).

## 5. Not modelled

* Which errors of three and more bits escape the sums. `generate_32bit_fletcher`,
  which nothing calls.
* ENOMEM and failing system calls other than the timeout and EMSGSIZE.
* The WAV parser (`server/music/music.c`): it reads a mapped file once, in order,
  and the rest of the program sees `payload_size` and the data behind it; it trusts
  the file. `samples` is the address of the chunk's header, not of what follows it
  (`music.c:50`), so the stream begins with eight bytes of header and ends eight
  bytes before the music does; the models count from `samples`. ALSA is external: `player_play` succeeds or fails.
* The menus' text, statistics, option parsing: terminal I/O. What the options
  enforce (buffer size, qualities) is in the assumptions on constants.
* Several clients inside `Session`: there the timer acts between iterations of the
  main loop, and `ClientTable` has the rest.
* Stores that become visible out of program order between the server's threads.
* Wrap-around of 32-bit batch numbers and of `size_t`.

## 6. Plan

1. Done: `Protocol`, `Network`, `StreamServer`, `StreamClient`, `Session`,
   `AudioStream` and the proofs of `SessionInv`.
2. Done: `PlaybackBuffer`, `Playback` and the proof of the refinement.
3. Done: `ClientTable` and its proofs. Left: that a client which opens with anything
   but ACK gets an EOS (README, Initial communication): with a second slot free, a
   dropped client that goes on with RR is registered there without a quality.
4. Done: `Fletcher`, `Checksum`, `Coding`, `PacketPath` and their proofs, the one of
   what the sums notice (`FlipProofs`) included.
5. Done: `RestIsAskedFor`, `SameQuality`, `NewcomersRefused`.
6. Done: `LockstepProofs` and `AudioProofs`, the prompt network for every constant.
   The end of the file as well: `WholeFile`, `OnlyRaises`.
   The datagram that is refused for ever after a raise is in `OnlyRefusalsHang`.
   Left: what requests that are lost or corrupted leave of the ending (a server that
   swallows the retry), and a client that is taken in again while its first stream is
   under way, which needs two slots in the session.
