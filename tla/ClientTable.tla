----------------------------- MODULE ClientTable -----------------------------
(***************************************************************************)
(* The server's table of clients, and the two threads that work on it      *)
(* without a lock: the main loop, which looks for the slot of a datagram's *)
(* sender, fills it and serves it (client_search.c, client_info.c,         *)
(* receive.c, send.c), and the thread that counts timeouts down and drops  *)
(* clients (thread_run_timeout_timers).                                    *)
(*                                                                         *)
(* A step reads or writes what the other thread may touch at most once:    *)
(* in_use, timeout_in_ms, or the memory quality and stat point to.  What   *)
(* is streamed is left to StreamServer; here any batch may be the last.    *)
(***************************************************************************)
EXTENDS Integers

CONSTANTS
    MaxClients,   \* max_clients
    Client,       \* addresses clients send from
    Nobody,       \* the address calloc leaves in a slot
    Timeout       \* passes of the timer a client may be silent (3 in the code)

ASSUME TableAssumption ==
    /\ MaxClients \in Nat \ {0}
    /\ Nobody \notin Client
    /\ Timeout \in Nat \ {0}

VARIABLES
    addr, inUse, stage,           \* client_addr, in_use, stage
    memory,     \* what quality and stat point to
    timeout,    \* timeout_in_ms, in passes of the timer
    mPc, who, flag, cur,          \* main loop: where it is, the sender and flag
                                  \* of its datagram, the slot it looks at
    task,       \* type of the task; iterations do not reset it
    tPc, tSlot, reg,              \* timer thread: where it is, its slot, and
                                  \* the timeout it has read
    phase,      \* of each client
    overlapped  \* an iteration of one thread has overlapped one of the other

slotVars == <<addr, inUse, stage, memory, timeout>>
mainVars == <<mPc, who, flag, cur, task>>
timerVars == <<tPc, tSlot, reg>>
vars == <<slotVars, mainVars, timerVars, phase, overlapped>>

Slots == 1..MaxClients
Stages == {"INITIAL", "INTERMEDIATE", "FINAL"}
Flags == {"ACK", "RR", "REJ", "QTY"}
Tasks == {"undefined", "ACK", "EOS", "BATCH", "FAULTY"}
MainPcs == {"receive", "match", "unused", "init", "fill", "start", "print",
            "refresh", "process", "release", "send", "down"}
TimerPcs == {"asleep", "scan", "load", "store", "judge", "free", "clear"}

TypeOK ==
    /\ addr \in [Slots -> Client \cup {Nobody}]
    /\ inUse \in [Slots -> BOOLEAN]
    /\ stage \in [Slots -> Stages]
    /\ memory \in [Slots -> {"none", "live", "freed"}]
    /\ timeout \in [Slots -> 0..Timeout]
    /\ mPc \in MainPcs /\ who \in Client \cup {Nobody} /\ flag \in Flags
    /\ cur \in 0..MaxClients /\ task \in Tasks
    /\ tPc \in TimerPcs /\ tSlot \in 1..(MaxClients + 1) /\ reg \in 0..Timeout
    /\ phase \in [Client -> {"connecting", "streaming", "gone"}]
    /\ overlapped \in BOOLEAN

Init ==
    /\ addr = [s \in Slots |-> Nobody]
    /\ inUse = [s \in Slots |-> FALSE]
    /\ stage = [s \in Slots |-> "INITIAL"]
    /\ memory = [s \in Slots |-> "none"]
    /\ timeout = [s \in Slots |-> 0]
    /\ mPc = "receive" /\ who = Nobody /\ flag = "ACK" /\ cur = 0
    /\ task = "undefined"
    /\ tPc = "asleep" /\ tSlot = 1 /\ reg = 0
    /\ phase = [c \in Client |-> "connecting"]
    /\ overlapped = FALSE

-----------------------------------------------------------------------------
(***************************************************************************)
(* The next step of a thread looks at quality or stat of slot s.           *)
(***************************************************************************)
UsesMemory(s) ==
    \/ /\ s = cur
       /\ \/ mPc = "print" /\ inUse[s]
          \/ /\ mPc = "process"
             /\ \/ stage[s] = "INITIAL" /\ flag = "ACK"
                \/ stage[s] # "INITIAL" /\ flag = "QTY" /\ inUse[s]
                \/ stage[s] = "FINAL" /\ flag = "RR" /\ inUse[s]
          \/ mPc = "send" /\ task \in {"BATCH", "FAULTY", "undefined"}
    \/ s = tSlot /\ tPc = "free"
    \/ s # tSlot /\ tPc = "clear" /\ inUse[s]

MainTo(pc) == mPc' = pc /\ UNCHANGED <<timerVars, overlapped>>

(***************************************************************************)
(* com_receive: a datagram of any client that still sends.  Those that are *)
(* lost on the way are simply not received; an ACK that was sent twice may *)
(* come late.                                                              *)
(***************************************************************************)
MaySend(c) ==
    {f \in Flags : \/ phase[c] = "connecting" /\ f = "ACK"
                   \/ phase[c] = "streaming"}

(***************************************************************************)
(* The next iteration has new locals, but for the task.                    *)
(***************************************************************************)
NextIteration ==
    MainTo("receive") /\ cur' = 0 /\ who' = Nobody /\ flag' = "ACK"

Receive ==
    /\ mPc = "receive"
    /\ \E c \in Client : who' = c /\ flag' \in MaySend(c)
    /\ mPc' = "match" /\ cur' = 1
    /\ overlapped' = (overlapped \/ tPc # "asleep")
    /\ UNCHANGED <<slotVars, task, timerVars, phase>>

(***************************************************************************)
(* Mutant of Matches: the address is not compared.                         *)
(***************************************************************************)
MatchesAnyone(s) == inUse[s]

(***************************************************************************)
(* search_client, slot by slot: first for the slot in use by the sender... *)
(***************************************************************************)
Matches(s) == inUse[s] /\ addr[s] = who

(***************************************************************************)
(* Mutant of Match: one slot too many.                                     *)
(***************************************************************************)
MatchOneMore ==
    /\ mPc = "match" /\ cur \in Slots
    /\ IF Matches(cur) THEN MainTo("refresh") /\ cur' = cur
       ELSE MainTo("match") /\ cur' = cur + 1
    /\ UNCHANGED <<slotVars, who, flag, task, phase>>

(***************************************************************************)
(* Mutant of Match: the first slot not in use ends the search.             *)
(***************************************************************************)
MatchUntilUnused ==
    /\ mPc = "match" /\ cur \in Slots
    /\ IF Matches(cur) THEN MainTo("refresh") /\ cur' = cur
       ELSE IF inUse[cur] /\ cur < MaxClients THEN MainTo("match") /\ cur' = cur + 1
       ELSE MainTo("unused") /\ cur' = 1
    /\ UNCHANGED <<slotVars, who, flag, task, phase>>

Match ==
    /\ mPc = "match" /\ cur \in Slots
    /\ IF Matches(cur) THEN MainTo("refresh") /\ cur' = cur
       ELSE IF cur < MaxClients THEN MainTo("match") /\ cur' = cur + 1
       ELSE MainTo("unused") /\ cur' = 1
    /\ UNCHANGED <<slotVars, who, flag, task, phase>>

(***************************************************************************)
(* Mutant of Unused: the last slot is not looked at.                       *)
(***************************************************************************)
UnusedButLast ==
    /\ mPc = "unused" /\ cur \in Slots
    /\ \/ /\ ~inUse[cur] /\ addr[cur] # who
          /\ MainTo("init") /\ UNCHANGED <<cur, task>>
       \/ /\ inUse[cur] /\ cur < MaxClients - 1
          /\ MainTo("unused") /\ cur' = cur + 1 /\ UNCHANGED task
       \/ /\ IF inUse[cur] THEN cur >= MaxClients - 1 ELSE addr[cur] = who
          /\ MainTo("send") /\ cur' = 0 /\ task' = "EOS"
    /\ UNCHANGED <<slotVars, who, flag, phase>>

(***************************************************************************)
(* Mutant of Unused: the task is not set for a sender without a slot.      *)
(***************************************************************************)
UnusedNoTask ==
    /\ mPc = "unused" /\ cur \in Slots
    /\ \/ /\ ~inUse[cur] /\ addr[cur] # who
          /\ MainTo("init") /\ UNCHANGED cur
       \/ /\ inUse[cur] /\ cur < MaxClients
          /\ MainTo("unused") /\ cur' = cur + 1
       \/ /\ IF inUse[cur] THEN cur = MaxClients ELSE addr[cur] = who
          /\ MainTo("send") /\ cur' = 0
    /\ UNCHANGED <<slotVars, who, flag, task, phase>>

(***************************************************************************)
(* ... then for one not in use, giving up at one the sender was in before. *)
(* The main loop answers EOS to a sender without a slot.                   *)
(***************************************************************************)
Unused ==
    /\ mPc = "unused" /\ cur \in Slots
    /\ \/ /\ ~inUse[cur] /\ addr[cur] # who
          /\ MainTo("init") /\ UNCHANGED <<cur, task>>
       \/ /\ inUse[cur] /\ cur < MaxClients
          /\ MainTo("unused") /\ cur' = cur + 1 /\ UNCHANGED task
       \/ /\ IF inUse[cur] THEN cur = MaxClients ELSE addr[cur] = who
          /\ MainTo("send") /\ cur' = 0 /\ task' = "EOS"
    /\ UNCHANGED <<slotVars, who, flag, phase>>

(***************************************************************************)
(* client_info_init marks the slot used, then fills it; only then is its   *)
(* timeout set (client_info_set_timeout), and print_client_info looks at   *)
(* its quality.  The slot of a sender that is known has its timeout set.   *)
(***************************************************************************)
InitSlot ==
    /\ mPc = "init"
    /\ addr' = [addr EXCEPT ![cur] = who]
    /\ stage' = [stage EXCEPT ![cur] = "INITIAL"]
    /\ inUse' = [inUse EXCEPT ![cur] = TRUE]
    /\ MainTo("fill")
    /\ UNCHANGED <<memory, timeout, who, flag, cur, task, phase>>

FillSlot ==
    /\ mPc = "fill"
    /\ memory' = [memory EXCEPT ![cur] = "live"]
    /\ MainTo("start")
    /\ UNCHANGED <<addr, inUse, stage, timeout, who, flag, cur, task, phase>>

Refresh ==
    /\ \/ mPc = "start" /\ MainTo("print")
       \/ mPc = "refresh" /\ MainTo("process")
    /\ timeout' = [timeout EXCEPT ![cur] = Timeout]
    /\ UNCHANGED <<addr, inUse, stage, memory, who, flag, cur, task, phase>>

PrintClient ==
    /\ mPc = "print" /\ MainTo("process")
    /\ UNCHANGED <<slotVars, who, flag, cur, task, phase>>

(***************************************************************************)
(* process_initial.  A REJ leaves the argument of the task undefined, and  *)
(* QTY is not looked at: the task of an earlier datagram is done again.    *)
(***************************************************************************)
ProcessInitial ==
    /\ mPc = "process" /\ stage[cur] = "INITIAL"
    /\ \/ /\ flag = "ACK"
          /\ task' = "ACK" /\ UNCHANGED stage
       \/ /\ flag \in {"RR", "REJ"}
          /\ task' = IF flag = "RR" THEN "BATCH" ELSE "undefined"
          /\ stage' = [stage EXCEPT ![cur] = "INTERMEDIATE"]
       \/ flag = "QTY" /\ UNCHANGED <<task, stage>>
    /\ MainTo("send")
    /\ UNCHANGED <<addr, inUse, memory, timeout, who, flag, cur, phase>>

(***************************************************************************)
(* What process_intermediate and process_final have in common.  The first  *)
(* test of either reads in_use, which the timer may have cleared.          *)
(***************************************************************************)
ProcessRequest ==
    \/ /\ flag = "REJ" /\ task' = "FAULTY"
    \/ /\ flag = "QTY" /\ task' = "ACK"
    \/ flag = "ACK" /\ UNCHANGED task

ProcessIntermediate ==
    /\ mPc = "process" /\ stage[cur] = "INTERMEDIATE"
    /\ \/ ~inUse[cur] /\ task' = "EOS"
       \/ inUse[cur] /\ flag = "RR" /\ task' = "BATCH"
       \/ inUse[cur] /\ ProcessRequest
    /\ MainTo("send")
    /\ UNCHANGED <<addr, inUse, stage, memory, timeout, who, flag, cur, phase>>

(***************************************************************************)
(* process_final: when all is sent the stream ends.  The memory goes       *)
(* first, in_use is cleared after it.                                      *)
(***************************************************************************)
EndOfStream ==
    /\ ~inUse[cur] \/ flag = "RR"
    /\ task' = "EOS"
    /\ IF inUse[cur] THEN memory' = [memory EXCEPT ![cur] = "freed"]
                     ELSE UNCHANGED memory
    /\ MainTo("release")

ProcessFinal ==
    /\ mPc = "process" /\ stage[cur] = "FINAL"
    /\ \/ EndOfStream
       \/ /\ ~inUse[cur] \/ flag = "RR"
          /\ task' = "BATCH" /\ MainTo("send")
          /\ UNCHANGED memory
       \/ inUse[cur] /\ ProcessRequest /\ MainTo("send") /\ UNCHANGED memory
    /\ UNCHANGED <<addr, inUse, stage, timeout, who, flag, cur, phase>>

(***************************************************************************)
(* Mutant of Release: in_use is left set.                                  *)
(***************************************************************************)
ReleaseForgets ==
    /\ mPc = "release"
    /\ MainTo("send")
    /\ UNCHANGED <<slotVars, who, flag, cur, task, phase>>

Release ==
    /\ mPc = "release"
    /\ inUse' = [inUse EXCEPT ![cur] = FALSE]
    /\ MainTo("send")
    /\ UNCHANGED <<addr, stage, memory, timeout, who, flag, cur, task, phase>>

-----------------------------------------------------------------------------
(***************************************************************************)
(* send_to_client.  A client that hears an ACK or EOS goes on or stops;    *)
(* either may be lost, or consumed where something else is expected.       *)
(***************************************************************************)
SendFlag ==
    /\ mPc = "send" /\ task \in {"ACK", "EOS"}
    /\ \/ UNCHANGED phase
       \/ /\ task = "ACK" /\ phase[who] = "connecting"
          /\ phase' = [phase EXCEPT ![who] = "streaming"]
       \/ /\ task = "EOS" /\ phase' = [phase EXCEPT ![who] = "gone"]
    /\ NextIteration
    /\ UNCHANGED <<slotVars, task>>

(***************************************************************************)
(* send_batch.  The stage turns FINAL when the next batch will be the      *)
(* last; in the INITIAL stage (done again for a later datagram) nothing is *)
(* sent.                                                                   *)
(***************************************************************************)
SendBatch ==
    /\ mPc = "send" /\ task = "BATCH"
    /\ \/ UNCHANGED stage
       \/ /\ stage[cur] = "INTERMEDIATE"
          /\ stage' = [stage EXCEPT ![cur] = "FINAL"]
    /\ NextIteration
    /\ UNCHANGED <<addr, inUse, memory, timeout, task, phase>>

(***************************************************************************)
(* send_faulty.  Its argument is freed after it: done again, or with an    *)
(* undefined argument, it sends anything, or ends the process.             *)
(***************************************************************************)
SendFaulty ==
    /\ mPc = "send" /\ task \in {"FAULTY", "undefined"}
    /\ \/ NextIteration
       \/ task = "undefined" /\ MainTo("down") /\ UNCHANGED <<who, flag, cur>>
    /\ task' = "undefined"
    /\ UNCHANGED <<addr, inUse, stage, memory, timeout, phase>>

Main ==
    \/ Receive \/ Match \/ Unused \/ InitSlot \/ FillSlot \/ Refresh
    \/ PrintClient
    \/ ProcessInitial \/ ProcessIntermediate \/ ProcessFinal \/ Release
    \/ SendFlag \/ SendBatch \/ SendFaulty

-----------------------------------------------------------------------------
(***************************************************************************)
(* The timer thread: once a second through the table.                      *)
(***************************************************************************)
TimerTo(pc) ==
    /\ mPc # "down"
    /\ tPc' = pc
    /\ UNCHANGED <<mainVars, addr, stage, phase>>

Wake ==
    /\ tPc = "asleep"
    /\ TimerTo("scan") /\ tSlot' = 1
    /\ overlapped' = (overlapped \/ mPc # "receive")
    /\ UNCHANGED <<inUse, memory, timeout, reg>>

Scan ==
    /\ tPc = "scan"
    /\ \/ tSlot > MaxClients /\ TimerTo("asleep") /\ tSlot' = 1
       \/ tSlot \in Slots /\ inUse[tSlot] /\ TimerTo("load") /\ UNCHANGED tSlot
       \/ tSlot \in Slots /\ ~inUse[tSlot] /\ TimerTo("scan")
          /\ tSlot' = tSlot + 1
    /\ UNCHANGED <<inUse, memory, timeout, reg, overlapped>>

(***************************************************************************)
(* timeout_in_ms -= 1000 reads and writes.  Only its sign is ever looked   *)
(* at: 0 stands for everything that is not positive.                       *)
(***************************************************************************)
Less(t) == IF t > 0 THEN t - 1 ELSE 0

Load ==
    /\ tPc = "load"
    /\ reg' = timeout[tSlot]
    /\ TimerTo("store")
    /\ UNCHANGED <<tSlot, inUse, memory, timeout, overlapped>>

Store ==
    /\ tPc = "store"
    /\ timeout' = [timeout EXCEPT ![tSlot] = Less(reg)]
    /\ TimerTo("judge")
    /\ UNCHANGED <<tSlot, reg, inUse, memory, overlapped>>

(***************************************************************************)
(* The compiler may test what it has just written, or read it again.       *)
(***************************************************************************)
Judge ==
    /\ tPc = "judge"
    /\ \E t \in {Less(reg), timeout[tSlot]} :
           IF t = 0 THEN TimerTo("free") /\ UNCHANGED tSlot
                     ELSE TimerTo("scan") /\ tSlot' = tSlot + 1
    /\ reg' = 0
    /\ UNCHANGED <<inUse, memory, timeout, overlapped>>

Free ==
    /\ tPc = "free"
    /\ memory' = [memory EXCEPT ![tSlot] = "freed"]
    /\ TimerTo("clear")
    /\ UNCHANGED <<tSlot, reg, inUse, timeout, overlapped>>

(***************************************************************************)
(* print_clients then looks at the quality of every client left.           *)
(***************************************************************************)
Clear ==
    /\ tPc = "clear"
    /\ inUse' = [inUse EXCEPT ![tSlot] = FALSE]
    /\ TimerTo("scan") /\ tSlot' = tSlot + 1
    /\ UNCHANGED <<reg, memory, timeout, overlapped>>

Timer == Wake \/ Scan \/ Load \/ Store \/ Judge \/ Free \/ Clear

-----------------------------------------------------------------------------
(***************************************************************************)
(* A client may stop at any time.  Memory that is not there may end the    *)
(* process when it is used.                                                *)
(***************************************************************************)
Leave ==
    /\ \E c \in Client :
           phase[c] # "gone" /\ phase' = [phase EXCEPT ![c] = "gone"]
    /\ UNCHANGED <<slotVars, mainVars, timerVars, overlapped>>

Die ==
    /\ mPc # "down" /\ MainTo("down")
    /\ \E s \in Slots : UsesMemory(s) /\ memory[s] # "live"
    /\ UNCHANGED <<slotVars, who, flag, cur, task, phase>>

Stopped == mPc = "down" /\ UNCHANGED vars

Next == Main \/ Timer \/ Leave \/ Die \/ Stopped

Spec == Init /\ [][Next]_vars

FairSpec == Spec /\ WF_vars(Main) /\ WF_vars(Timer)

-----------------------------------------------------------------------------
(***************************************************************************)
(* A client has at most one slot, however the two threads interleave: the  *)
(* timer may clear a slot before, behind or under the search of the main   *)
(* loop, but only the main loop takes one.                                 *)
(***************************************************************************)
OneSlotPerClient ==
    \A s, t \in Slots : inUse[s] /\ inUse[t] /\ addr[s] = addr[t] => s = t

(***************************************************************************)
(* As long as the passes of the timer fall between the iterations of the   *)
(* main loop, the memory of a slot is used and freed by one owner.         *)
(***************************************************************************)
SlotMemoryOwned ==
    ~overlapped => \A s \in Slots : UsesMemory(s) => memory[s] = "live"

(***************************************************************************)
(* ... and a client that never had a slot is refused only by a full server *)
(* ("Server has no room for more clients", client.c).                      *)
(***************************************************************************)
Refused == mPc = "send" /\ flag = "ACK" /\ task = "EOS"

NewcomerRefusedOnlyWhenFull ==
    Refused /\ ~overlapped /\ who \notin {addr[s] : s \in Slots}
        => \A s \in Slots : inUse[s]

(***************************************************************************)
(* The invariant behind them.  Always: both threads work inside the table, *)
(* and what the search has passed is not the sender's.                     *)
(***************************************************************************)
SearchInv ==
    /\ mPc \in {"match", "unused", "init", "fill", "start", "print",
               "refresh", "process", "release"} => cur \in Slots
    /\ tPc \in {"load", "store", "judge", "free", "clear"} => tSlot \in Slots
    /\ mPc = "match" => \A s \in 1..(cur - 1) : ~Matches(s)
    /\ mPc \in {"unused", "init"} => \A s \in Slots : ~Matches(s)
    /\ mPc = "init" => ~inUse[cur]

(***************************************************************************)
(* In turn: one thread rests while the other works, so a slot one of them  *)
(* works on stays in use, and a slot in use has its memory but for the     *)
(* steps in which it is taken or given up.                                 *)
(***************************************************************************)
Unsettled(s) == \/ mPc \in {"fill", "release"} /\ s = cur
                \/ tPc = "clear" /\ s = tSlot

InTurnInv ==
    /\ mPc = "receive" \/ tPc = "asleep"
    /\ tPc \in {"load", "store", "judge", "free", "clear"}
          => inUse[tSlot]
    /\ \A s \in Slots : inUse[s] /\ ~Unsettled(s) => memory[s] = "live"
    /\ mPc \in {"fill", "start", "print", "refresh", "process"}
          => inUse[cur] /\ addr[cur] = who
    /\ mPc = "send" /\ task # "EOS"
          => cur \in Slots /\ inUse[cur] /\ addr[cur] = who
    /\ mPc = "release" => task = "EOS" /\ flag = "RR"
    /\ mPc = "unused" => \A s \in 1..(cur - 1) : inUse[s]

TableInv ==
    /\ TypeOK
    /\ OneSlotPerClient
    /\ SearchInv
    /\ ~overlapped => InTurnInv
    /\ NewcomerRefusedOnlyWhenFull

(***************************************************************************)
(* README: the server sends an ACK "to acknowledge the fact that it        *)
(* registered the client".  So a client that is told to go on has a slot,  *)
(* whatever the timer was doing when it asked.                             *)
(***************************************************************************)
Registered(c) == \E s \in Slots : inUse[s] /\ addr[s] = c

AcknowledgedIsRegistered ==
    [][\A c \in Client : phase[c] = "connecting" /\ phase'[c] = "streaming"
           => Registered(c)]_vars

(***************************************************************************)
(* The same, as long as the threads do not overlap: the timeout, which     *)
(* client_info_init leaves as it was, is then set before the timer looks.  *)
(***************************************************************************)
AcknowledgedInTurn ==
    [][\A c \in Client : /\ phase[c] = "connecting" /\ phase'[c] = "streaming"
                         /\ ~overlapped
           => Registered(c)]_vars

(***************************************************************************)
(* A client that has gone is dropped in the end, also when the timer's     *)
(* decrement and the main loop's refresh overwrite each other.             *)
(***************************************************************************)
GoneIsDropped ==
    \A c \in Client :
        Registered(c) /\ phase[c] = "gone" ~> ~Registered(c) \/ mPc = "down"
=============================================================================
