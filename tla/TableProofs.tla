----------------------------- MODULE TableProofs -----------------------------
(***************************************************************************)
(* What holds of the table of clients for every number of slots and        *)
(* clients and every timeout: however the two threads interleave, and as   *)
(* long as they take turns.                                                *)
(***************************************************************************)
EXTENDS ClientTable, TLAPS

LEMMA TableInit == Init => TableInv
<1> SUFFICES ASSUME Init PROVE TableInv
  OBVIOUS
<1>1. /\ addr \in [Slots -> Client \cup {Nobody}]
      /\ inUse \in [Slots -> BOOLEAN]
      /\ stage \in [Slots -> Stages]
      /\ memory \in [Slots -> {"none", "live", "freed"}]
  BY DEF Init, Stages
<1>2. /\ timeout \in [Slots -> 0..Timeout] /\ reg \in 0..Timeout
      /\ cur \in 0..MaxClients /\ tSlot \in 1..(MaxClients + 1)
  BY TableAssumption DEF Init
<1>3. TypeOK
  BY <1>1, <1>2 DEF Init, TypeOK, Flags, Tasks, MainPcs, TimerPcs
<1>4. \A s \in Slots : ~inUse[s]
  BY DEF Init
<1>5. QED
  BY <1>3, <1>4 DEF Init, TableInv, OneSlotPerClient, SearchInv, InTurnInv,
     NewcomerRefusedOnlyWhenFull, Refused

-----------------------------------------------------------------------------
(***************************************************************************)
(* Types.                                                                  *)
(***************************************************************************)
LEMMA MainTypes == TypeOK /\ SearchInv /\ Main => TypeOK'
<1> SUFFICES ASSUME TypeOK, SearchInv, Main PROVE TypeOK'
  OBVIOUS
<1> USE TableAssumption DEF TypeOK, Slots, MainPcs, MainTo, timerVars, slotVars
<1>1. CASE Receive
  BY <1>1 DEF Receive, MaySend, Flags
<1>2. CASE Match
  BY <1>2, SMTT(30) DEF Match
<1>3. CASE Unused
  BY <1>3, SMTT(30) DEF Unused, Tasks
<1>4. CASE InitSlot
  BY <1>4 DEF InitSlot, SearchInv, Stages
<1>5. CASE FillSlot
  BY <1>5 DEF FillSlot, SearchInv
<1>6. CASE Refresh
  <2>1. mPc' \in MainPcs /\ cur \in Slots
    BY <1>6 DEF Refresh, SearchInv
  <2>2. timeout' = [timeout EXCEPT ![cur] = Timeout]
    BY <1>6 DEF Refresh
  <2>3. UNCHANGED <<addr, inUse, stage, memory, who, flag, cur, task, phase,
                    timerVars, overlapped>>
    BY <1>6 DEF Refresh
  <2>4. QED
    BY <2>1, <2>2, <2>3
<1>7. CASE ProcessInitial
  BY <1>7 DEF ProcessInitial, SearchInv, Stages, Tasks
<1>8. CASE ProcessIntermediate
  BY <1>8 DEF ProcessIntermediate, ProcessRequest, Tasks
<1>9. CASE ProcessFinal
  <2>1. /\ UNCHANGED <<addr, inUse, stage, timeout, who, flag, cur, phase>>
        /\ UNCHANGED <<timerVars, overlapped>>
        /\ mPc' \in MainPcs
    BY <1>9 DEF ProcessFinal, EndOfStream
  <2>2. memory' \in [Slots -> {"none", "live", "freed"}]
    BY <1>9 DEF ProcessFinal, EndOfStream
  <2>3. task' \in Tasks
    BY <1>9 DEF ProcessFinal, EndOfStream, ProcessRequest, Tasks
  <2>4. QED
    BY <2>1, <2>2, <2>3
<1>10. CASE Release
  BY <1>10 DEF Release, SearchInv
<1>11. CASE SendFlag
  <2>1. phase' \in [Client -> {"connecting", "streaming", "gone"}]
    BY <1>11 DEF SendFlag
  <2>2. /\ UNCHANGED <<slotVars, task, timerVars, overlapped>>
        /\ mPc' = "receive" /\ cur' = 0 /\ who' = Nobody /\ flag' = "ACK"
    BY <1>11 DEF SendFlag, NextIteration
  <2>3. QED
    BY <2>1, <2>2 DEF Flags
<1>12. CASE SendBatch
  BY <1>12 DEF SendBatch, NextIteration, Flags, Stages
<1>13. CASE SendFaulty
  BY <1>13 DEF SendFaulty, NextIteration, Flags, Tasks
<1>14. CASE PrintClient
  BY <1>14 DEF PrintClient
<1>15. QED
  BY <1>1, <1>2, <1>3, <1>4, <1>5, <1>6, <1>7, <1>8, <1>9, <1>10, <1>11,
     <1>12, <1>13, <1>14 DEF Main

LEMMA TimerTypes == TypeOK /\ SearchInv /\ Timer => TypeOK'
<1> SUFFICES ASSUME TypeOK, SearchInv, Timer PROVE TypeOK'
  OBVIOUS
<1>1. UNCHANGED <<mainVars, addr, stage, phase>>
  BY DEF Timer, Wake, Scan, Load, Store, Judge, Free, Clear, TimerTo
<1>2. tPc' \in TimerPcs /\ tSlot' \in 1..(MaxClients + 1)
  <2>1. tSlot' \in {1, tSlot} \/ (tSlot \in Slots /\ tSlot' = tSlot + 1)
    BY DEF Timer, Wake, Scan, Load, Store, Judge, Free, Clear, SearchInv
  <2>2. tSlot' \in 1..(MaxClients + 1)
    BY <2>1, TableAssumption DEF TypeOK, Slots
  <2>3. tPc' \in TimerPcs
    BY DEF Timer, Wake, Scan, Load, Store, Judge, Free, Clear, TimerTo, TimerPcs
  <2>4. QED
    BY <2>2, <2>3
<1>3. reg' \in 0..Timeout /\ timeout' \in [Slots -> 0..Timeout]
  <2>1. CASE Load
    BY <2>1, TableAssumption DEF Load, TypeOK, SearchInv
  <2>2. CASE Store
    BY <2>2, TableAssumption DEF Store, Less, TypeOK, SearchInv
  <2>3. CASE Judge
    BY <2>3, TableAssumption DEF Judge, TypeOK
  <2>4. CASE Wake \/ Scan \/ Free \/ Clear
    BY <2>4 DEF Wake, Scan, Free, Clear, TypeOK
  <2>5. QED
    BY <2>1, <2>2, <2>3, <2>4 DEF Timer
<1>4. inUse' \in [Slots -> BOOLEAN]
  <2>1. inUse' \in {inUse, [inUse EXCEPT ![tSlot] = FALSE]}
    BY DEF Timer, Wake, Scan, Load, Store, Judge, Free, Clear
  <2>2. QED
    BY <2>1 DEF TypeOK
<1>5. memory' \in [Slots -> {"none", "live", "freed"}]
  <2>1. memory' \in {memory, [memory EXCEPT ![tSlot] = "freed"]}
    BY DEF Timer, Wake, Scan, Load, Store, Judge, Free, Clear
  <2>2. QED
    BY <2>1 DEF TypeOK
<1>6. overlapped' \in BOOLEAN
  BY DEF Timer, Wake, Scan, Load, Store, Judge, Free, Clear, TypeOK
<1>7. QED
  BY <1>1, <1>2, <1>3, <1>4, <1>5, <1>6 DEF TypeOK, mainVars

-----------------------------------------------------------------------------
(***************************************************************************)
(* One slot per client.  The timer only clears in_use, which keeps it; the *)
(* main loop takes a slot when it has found all others not to be the       *)
(* sender's.                                                               *)
(***************************************************************************)
LEMMA TakingOne ==
    ASSUME TypeOK, OneSlotPerClient, SearchInv, InitSlot
    PROVE  OneSlotPerClient'
BY DEF TypeOK, OneSlotPerClient, SearchInv, InitSlot, Matches, Slots

LEMMA ClearingSome ==
    ASSUME OneSlotPerClient, addr' = addr,
           \A s \in Slots : inUse'[s] => inUse[s]
    PROVE  OneSlotPerClient'
BY DEF OneSlotPerClient, Slots

LEMMA MainTakesOne == TypeOK /\ OneSlotPerClient /\ SearchInv /\ Main
                         => OneSlotPerClient'
<1> SUFFICES ASSUME TypeOK, OneSlotPerClient, SearchInv, Main
             PROVE  OneSlotPerClient'
  OBVIOUS
<1>1. CASE InitSlot
  BY <1>1, TakingOne
<1>2. CASE Release
  <2>1. addr' = addr /\ \A s \in Slots : inUse'[s] => inUse[s]
    BY <1>2 DEF Release, TypeOK, SearchInv, Slots
  <2>2. QED
    BY <2>1, ClearingSome
<1>3. CASE ~InitSlot /\ ~Release
  <2>1. addr' = addr /\ inUse' = inUse
    BY <1>3 DEF Main, Receive, Match, Unused, FillSlot, Refresh,
       PrintClient, ProcessInitial,
       ProcessIntermediate, ProcessFinal, SendFlag, SendBatch, SendFaulty,
       slotVars
  <2>2. QED
    BY <2>1, ClearingSome
<1>4. QED
  BY <1>1, <1>2, <1>3

LEMMA TimerOnlyClears ==
    ASSUME TypeOK, Timer
    PROVE  /\ UNCHANGED <<mainVars, addr, stage, phase>>
           /\ \A s \in Slots : inUse'[s] => inUse[s]
<1>1. CASE Clear
  BY <1>1 DEF Clear, TimerTo, TypeOK, Slots
<1>2. CASE ~Clear
  BY <1>2 DEF Timer, Wake, Scan, Load, Store, Judge, Free, TimerTo
<1>3. QED
  BY <1>1, <1>2

(***************************************************************************)
(* The search.                                                             *)
(***************************************************************************)
LEMMA MainSearches == TypeOK /\ SearchInv /\ Main => SearchInv'
<1> SUFFICES ASSUME TypeOK, SearchInv, Main PROVE SearchInv'
  OBVIOUS
<1> USE TableAssumption DEF SearchInv, MainTo, timerVars, Slots
<1>1. CASE Receive
  BY <1>1 DEF Receive
<1>2. CASE Match
  BY <1>2 DEF Match, Matches, slotVars
<1>3. CASE Unused
  BY <1>3 DEF Unused, Matches, slotVars
<1>4. CASE InitSlot \/ FillSlot \/ Refresh \/ PrintClient
  BY <1>4 DEF InitSlot, FillSlot, Refresh, PrintClient, slotVars
<1>5. CASE ProcessInitial \/ ProcessIntermediate
  BY <1>5 DEF ProcessInitial, ProcessIntermediate
<1>6. CASE ProcessFinal
  BY <1>6 DEF ProcessFinal, EndOfStream
<1>7. CASE Release \/ SendFlag \/ SendBatch \/ SendFaulty
  BY <1>7 DEF Release, SendFlag, SendBatch, SendFaulty, NextIteration
<1>8. QED
  BY <1>1, <1>2, <1>3, <1>4, <1>5, <1>6, <1>7 DEF Main

LEMMA TimerKeepsSearch == TypeOK /\ SearchInv /\ Timer => SearchInv'
<1> SUFFICES ASSUME TypeOK, SearchInv, Timer PROVE SearchInv'
  OBVIOUS
<1>1. /\ mPc' = mPc /\ cur' = cur /\ who' = who /\ addr' = addr
      /\ \A s \in Slots : inUse'[s] => inUse[s]
  BY TimerOnlyClears DEF mainVars
<1>2. tPc' \in {"load", "store", "judge", "free", "clear"} => tSlot' \in Slots
  BY DEF Timer, Wake, Scan, Load, Store, Judge, Free, Clear, TimerTo, SearchInv
<1>3. QED
  BY <1>1, <1>2, TableAssumption DEF SearchInv, Matches, Slots, TypeOK

-----------------------------------------------------------------------------
(***************************************************************************)
(* Taking turns.                                                           *)
(***************************************************************************)
LEMMA MainInTurn ==
    ASSUME TypeOK, SearchInv, InTurnInv, Main, ~overlapped'
    PROVE  InTurnInv'
<1> USE TableAssumption DEF InTurnInv, Unsettled, SearchInv, MainTo, timerVars,
        Slots, TypeOK
<1>1. CASE Receive
  BY <1>1 DEF Receive, slotVars
<1>2. CASE Match
  BY <1>2, SMTT(30) DEF Match, Matches, slotVars
<1>3. CASE Unused
  BY <1>3, SMTT(30) DEF Unused, slotVars
<1>4. CASE InitSlot
  BY <1>4 DEF InitSlot
<1>5. CASE FillSlot
  BY <1>5 DEF FillSlot
<1>6. CASE Refresh \/ PrintClient
  BY <1>6 DEF Refresh, PrintClient, slotVars
<1>7. CASE ProcessInitial
  BY <1>7 DEF ProcessInitial
<1>8. CASE ProcessIntermediate
  BY <1>8 DEF ProcessIntermediate, ProcessRequest
<1>9. CASE ProcessFinal
  BY <1>9 DEF ProcessFinal, EndOfStream, ProcessRequest
<1>10. CASE Release
  BY <1>10 DEF Release
<1>11. CASE SendFlag \/ SendBatch \/ SendFaulty
  BY <1>11 DEF SendFlag, SendBatch, SendFaulty, NextIteration, slotVars
<1>12. QED
  BY <1>1, <1>2, <1>3, <1>4, <1>5, <1>6, <1>7, <1>8, <1>9, <1>10, <1>11
  DEF Main

LEMMA TimerInTurn ==
    ASSUME TypeOK, SearchInv, InTurnInv, Timer, ~overlapped'
    PROVE  InTurnInv'
<1> USE TableAssumption DEF InTurnInv, SearchInv, Unsettled, TimerTo, mainVars, Slots, TypeOK
<1>1. CASE Wake
  BY <1>1 DEF Wake
<1>2. CASE Scan
  BY <1>2 DEF Scan
<1>3. CASE Load \/ Store
  BY <1>3 DEF Load, Store
<1>4. CASE Judge
  BY <1>4 DEF Judge
<1>5. CASE Free
  BY <1>5 DEF Free
<1>6. CASE Clear
  BY <1>6 DEF Clear
<1>7. QED
  BY <1>1, <1>2, <1>3, <1>4, <1>5, <1>6 DEF Timer

(***************************************************************************)
(* A newcomer is refused at the end of the second search, or where an ACK  *)
(* finds the stream ended, and then it is no newcomer.                     *)
(***************************************************************************)
LEMMA MainRefuses ==
    ASSUME TypeOK, SearchInv, InTurnInv, Main, ~overlapped'
    PROVE  NewcomerRefusedOnlyWhenFull'
<1> USE TableAssumption DEF NewcomerRefusedOnlyWhenFull, Refused, MainTo, Slots,
        TypeOK
<1>1. CASE Unused
  BY <1>1 DEF Unused, InTurnInv, slotVars
<1>2. CASE ProcessInitial \/ ProcessIntermediate \/ ProcessFinal
  BY <1>2 DEF ProcessInitial, ProcessIntermediate, ProcessFinal, EndOfStream,
     ProcessRequest, InTurnInv, SearchInv
<1>3. CASE Release
  BY <1>3 DEF Release, InTurnInv
<1>4. CASE mPc' # "send"
  BY <1>4
<1>5. QED
  BY <1>1, <1>2, <1>3, <1>4 DEF Main, Receive, Match, InitSlot, FillSlot,
     Refresh, PrintClient, SendFlag, SendBatch, SendFaulty, NextIteration

LEMMA TimerRefuses ==
    ASSUME TypeOK, InTurnInv, Timer, ~overlapped'
    PROVE  NewcomerRefusedOnlyWhenFull'
<1>1. mPc = "send" => Wake
  BY DEF Timer, InTurnInv, Scan, Load, Store, Judge, Free, Clear
<1>2. mPc' = mPc
  BY TimerOnlyClears DEF mainVars
<1>3. QED
  BY <1>1, <1>2 DEF Wake, NewcomerRefusedOnlyWhenFull, Refused, TypeOK

-----------------------------------------------------------------------------
(***************************************************************************)
(* Who uses the memory of a slot in turn finds it there; so Die is only    *)
(* for threads that overlap.                                               *)
(***************************************************************************)
LEMMA OwnedInTurn ==
    ASSUME TypeOK, SearchInv, ~overlapped => InTurnInv
    PROVE  SlotMemoryOwned
BY TableAssumption DEF SlotMemoryOwned, InTurnInv, SearchInv, UsesMemory, Unsettled,
   Slots, TypeOK

LEMMA TableStep == TableInv /\ [Next]_vars => TableInv'
<1> SUFFICES ASSUME TableInv, [Next]_vars PROVE TableInv'
  OBVIOUS
<1>1. /\ TypeOK /\ OneSlotPerClient /\ SearchInv
      /\ (~overlapped => InTurnInv)
      /\ NewcomerRefusedOnlyWhenFull
  BY DEF TableInv
<1>2. CASE Main
  <2>1. ~overlapped' => ~overlapped
    BY <1>2 DEF Main, Receive, Match, Unused, InitSlot, FillSlot, Refresh,

       PrintClient, ProcessInitial, ProcessIntermediate, ProcessFinal,
       EndOfStream, Release,
       SendFlag, SendBatch, SendFaulty, NextIteration, MainTo
  <2>2. TypeOK' /\ OneSlotPerClient' /\ SearchInv'
    BY <1>1, <1>2, MainTypes, MainTakesOne, MainSearches
  <2>3. ~overlapped' => InTurnInv' /\ NewcomerRefusedOnlyWhenFull'
    BY <1>1, <1>2, <2>1, MainInTurn, MainRefuses
  <2>4. QED
    BY <2>2, <2>3 DEF TableInv, NewcomerRefusedOnlyWhenFull
<1>3. CASE Timer
  <2>1. ~overlapped' => ~overlapped
    BY <1>3 DEF Timer, Wake, Scan, Load, Store, Judge, Free, Clear
  <2>2. TypeOK' /\ SearchInv' /\ OneSlotPerClient'
    BY <1>1, <1>3, TimerTypes, TimerKeepsSearch, TimerOnlyClears, ClearingSome
  <2>3. ~overlapped' => InTurnInv' /\ NewcomerRefusedOnlyWhenFull'
    BY <1>1, <1>3, <2>1, TimerInTurn, TimerRefuses
  <2>4. QED
    BY <2>2, <2>3 DEF TableInv, NewcomerRefusedOnlyWhenFull
<1>4. CASE Leave
  <2>1. TypeOK'
    BY <1>1, <1>4 DEF Leave, TypeOK, slotVars, mainVars, timerVars
  <2>2. OneSlotPerClient' /\ SearchInv' /\ NewcomerRefusedOnlyWhenFull'
    BY <1>1, <1>4 DEF Leave, OneSlotPerClient, SearchInv, Matches,
       NewcomerRefusedOnlyWhenFull, Refused, slotVars, mainVars, timerVars
  <2>3. ~overlapped' => InTurnInv'
    BY <1>1, <1>4 DEF Leave, InTurnInv, Unsettled, slotVars, mainVars, timerVars
  <2>4. QED
    BY <2>1, <2>2, <2>3 DEF TableInv
<1>5. CASE Die
  <2>1. TypeOK'
    BY <1>1, <1>5 DEF Die, TypeOK, MainTo, MainPcs, slotVars, timerVars
  <2>2. OneSlotPerClient' /\ SearchInv' /\ NewcomerRefusedOnlyWhenFull'
    BY <1>1, <1>5 DEF Die, OneSlotPerClient, SearchInv, Matches,
       NewcomerRefusedOnlyWhenFull, Refused, MainTo, slotVars, timerVars
  <2>3. overlapped'
    BY <1>1, <1>5, OwnedInTurn DEF Die, SlotMemoryOwned, MainTo
  <2>4. QED
    BY <2>1, <2>2, <2>3 DEF TableInv
<1>6. CASE UNCHANGED vars
  BY <1>1, <1>6 DEF vars, TableInv, TypeOK, OneSlotPerClient, SearchInv, Matches,
     InTurnInv, Unsettled, NewcomerRefusedOnlyWhenFull, Refused, slotVars,
     mainVars, timerVars, Slots
<1>7. QED
  BY <1>2, <1>3, <1>4, <1>5, <1>6 DEF Next, Stopped

(***************************************************************************)
(* The inductive invariant, for every table.                               *)
(***************************************************************************)
THEOREM TableInvariant == Spec => []TableInv
<1>1. Init => TableInv
  BY TableInit
<1>2. TableInv /\ [Next]_vars => TableInv'
  BY TableStep
<1>3. QED
  BY <1>1, <1>2, PTL DEF Spec

(***************************************************************************)
(* A client never has two slots, whatever the timer does meanwhile.        *)
(***************************************************************************)
THEOREM NeverTwoSlots == Spec => []OneSlotPerClient
<1>1. TableInv => OneSlotPerClient
  BY DEF TableInv
<1>2. QED
  BY <1>1, TableInvariant, PTL

(***************************************************************************)
(* When the threads take turns, quality and stat are never used after they *)
(* were freed, and never freed twice.                                      *)
(***************************************************************************)
THEOREM MemoryInTurn == Spec => []SlotMemoryOwned
<1>1. TableInv => SlotMemoryOwned
  BY OwnedInTurn DEF TableInv
<1>2. QED
  BY <1>1, TableInvariant, PTL

(***************************************************************************)
(* When they take turns, a client that never had a slot is refused only by *)
(* a table in which every slot is in use.                                  *)
(***************************************************************************)
THEOREM NewcomersRefused == Spec => []NewcomerRefusedOnlyWhenFull
<1>1. TableInv => NewcomerRefusedOnlyWhenFull
  BY DEF TableInv
<1>2. QED
  BY <1>1, TableInvariant, PTL

(***************************************************************************)
(* When they take turns, a client is told that it is registered only when  *)
(* it is.                                                                  *)
(***************************************************************************)
THEOREM RegisteredInTurn == Spec => AcknowledgedInTurn
<1>1. TableInv /\ [Next]_vars =>
        [\A c \in Client : /\ phase[c] = "connecting" /\ phase'[c] = "streaming"
                           /\ ~overlapped
            => Registered(c)]_vars
  <2> SUFFICES ASSUME TableInv, Next, NEW c \in Client, ~overlapped,
                      phase[c] = "connecting", phase'[c] = "streaming"
               PROVE  Registered(c)
    OBVIOUS
  <2>1. phase' # phase
    OBVIOUS
  <2>2. SendFlag \/ Leave
    BY <2>1 DEF Next, Main, Receive, Match, Unused, InitSlot, FillSlot, Refresh,

       PrintClient, ProcessInitial, ProcessIntermediate, ProcessFinal, Release,
       SendBatch,
       SendFaulty, Timer, Wake, Scan, Load, Store, Judge, Free, Clear, TimerTo,
       Die, Stopped, vars
  <2>3. ~Leave
    BY DEF Leave, TableInv, TypeOK
  <2>4. task = "ACK" /\ who = c /\ mPc = "send"
    BY <2>2, <2>3 DEF SendFlag, TableInv, TypeOK
  <2>5. QED
    BY <2>4 DEF TableInv, InTurnInv, Registered
<1>2. QED
  BY <1>1, TableInvariant, PTL DEF Spec, AcknowledgedInTurn
=============================================================================
