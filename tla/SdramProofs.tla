---------------------------- MODULE SdramProofs ----------------------------
(***************************************************************************)
(* The proofs about the SDRAM path, for every geometry, timing and set of  *)
(* requests that the assumptions admit, resets included.  In three parts:  *)
(* type correctness and the facts about single steps, the safety of the    *)
(* controller, and bridge, controller and chip as the bus master sees      *)
(* them.                                                                   *)
(***************************************************************************)
EXTENDS SdramSystem, TLAPS

-----------------------------------------------------------------------------
(***************************************************************************)
(* Type correctness of the SDRAM path, for every geometry and every timing *)
(* the parameter assumptions admit, and the facts about single steps that  *)
(* the second part reasons from: which registers a step may touch (the     *)
(* frame lemmas), what it puts on the command bus (CommandStep) and what   *)
(* the wait counter is bounded by (CtlStep).                               *)
(***************************************************************************)

\* The states that count clocks in cnt.
Waiting == {"S_INIT_PRE_W", "S_INIT_AR1_W", "S_INIT_AR2_W", "S_INIT_LMR_W", "S_REF_PRE_W",
            "S_REF_AR_W", "S_PRE_OLD_W", "S_ACT_W", "S_RD_PRE_W", "S_WR_REC"}

\* The wait states and the bounds of their counts: CtrlAssumption keeps each within cnt.
LEMMA LimitType == DOMAIN Limit = Waiting /\ \A s \in Waiting : Limit[s] \in 0 .. 7
  BY ChipAssumption, CtrlAssumption DEF Limit, Waiting

\* A wait state leads to a state that does not wait.
LEMMA SuccessorType ==
  /\ DOMAIN Successor = Waiting \ {"S_INIT_LMR_W", "S_ACT_W"}
  /\ \A s \in DOMAIN Successor : Successor[s] \in State \ Waiting
<1>1. DOMAIN Successor = Waiting \ {"S_INIT_LMR_W", "S_ACT_W"}
  BY DEF Successor, Waiting
<1>2. ASSUME NEW s \in DOMAIN Successor
      PROVE  Successor[s] \in {"S_INIT_AR1", "S_INIT_AR2", "S_INIT_LMR", "S_REF_AR", "S_IDLE",
                               "S_ACT", "S_DONE"}
  BY <1>1 DEF Successor, Waiting
<1> QED BY <1>1, <1>2
           DEF Waiting, State, InitState, RefreshState, OpenState, ReadState, WriteState

(***************************************************************************)
(* What the steps that touch the command bus leave on it.                  *)
(***************************************************************************)
LEMMA DriveBus ==
  ASSUME bus \in Bus, NEW c \in CommandName, Drive(c)
  PROVE  bus' \in Bus /\ bus'.cmd = c
  BY DEF Bus, Drive

LEMMA PrechargeBus ==
  ASSUME bus \in Bus, PrechargeAll
  PROVE  bus' \in Bus /\ bus'.cmd = "PRE" /\ bus'.a10
  BY DEF Bus, PrechargeAll, CommandName

LEMMA PreOldBus ==
  ASSUME bus \in Bus, open_ba \in Bank, PreOld
  PROVE  bus' \in Bus /\ bus'.cmd = "PRE" /\ bus'.ba = open_ba /\ ~bus'.a10
  BY DEF Bus, PreOld, CommandName

LEMMA ActBus ==
  ASSUME bus \in Bus, lat \in Access, Act
  PROVE  bus' \in Bus /\ bus'.cmd = "ACT" /\ bus'.ba = lat.addr.ba /\ bus'.row = lat.addr.row
  BY DEF Bus, Act, Access, Address, CommandName

LEMMA ColumnBus ==
  ASSUME bus \in Bus, lat \in Access, NEW c \in CommandName, NEW h \in Half,
         NEW lanes \in SUBSET Pair, Column(c, h, lanes)
  PROVE  bus' \in Bus /\ bus'.cmd = c /\ bus'.ba = lat.addr.ba
  BY DEF Bus, Column, Access, Address

LEMMA CommandNames ==
  {"INHIBIT", "NOP", "ACT", "READ", "WRITE", "PRE", "REF", "LMR"} \subseteq CommandName
  BY DEF CommandName

\* The command each state registers for the chip.
CommandOf(s) ==
  CASE s = "S_INIT_WAIT" -> "INHIBIT"
    [] s \in {"S_INIT_PRE", "S_REF_PRE", "S_PRE_OLD"} -> "PRE"
    [] s \in {"S_INIT_AR1", "S_INIT_AR2", "S_REF_AR"} -> "REF"
    [] s = "S_INIT_LMR" -> "LMR"
    [] s = "S_ACT" -> "ACT"
    [] s \in {"S_RD_CMD0", "S_RD_CMD1"} -> "READ"
    [] s \in {"S_WR_CMD0", "S_WR_CMD1"} -> "WRITE"
    [] OTHER -> "NOP"

\* A step of the FSM puts on the bus the command of the state it leaves.
LEMMA CommandStep ==
  ASSUME NEW sel, NEW request, Fsm(sel, request), bus \in Bus, lat \in Access, open_ba \in Bank
  PROVE  bus' \in Bus /\ bus'.cmd = CommandOf(state)
<1> USE DEF CommandOf, Goto
<1>1. CASE PowerUp
  <2>1. CASE InitWait
    BY <2>1, DriveBus, CommandNames DEF InitWait
  <2>2. CASE InitPre
    BY <2>2, PrechargeBus DEF InitPre, Issue
  <2>3. CASE InitAr1 \/ InitAr2 \/ InitLmr
    BY <2>3, DriveBus, CommandNames DEF InitAr1, InitAr2, InitLmr, Issue
  <2>4. CASE InitOver
    BY <2>4, DriveBus, CommandNames DEF InitOver, InWait
  <2> QED BY <1>1, <2>1, <2>2, <2>3, <2>4 DEF PowerUp
<1>2. CASE Wait \/ WaitOver
  BY <1>2, DriveBus, CommandNames, LimitType DEF Wait, WaitOver, InWait, Waiting
<1>4. CASE Pass
  BY <1>4, DriveBus, CommandNames DEF Pass
<1>5. CASE Idle(sel, request)
  BY <1>5, DriveBus, CommandNames DEF Idle
<1>6. CASE RowChange
  <2>1. CASE RefPre
    BY <2>1, PrechargeBus DEF RefPre, Issue
  <2>2. CASE RefAr
    BY <2>2, DriveBus, CommandNames DEF RefAr, Issue
  <2>3. CASE PreOld
    BY <2>3, PreOldBus DEF PreOld, Issue
  <2>4. CASE Act
    BY <2>4, ActBus DEF Act, Issue
  <2>5. CASE ActOver
    BY <2>5, DriveBus, CommandNames DEF ActOver, InWait
  <2> QED BY <1>6, <2>1, <2>2, <2>3, <2>4, <2>5 DEF RowChange
<1>7. CASE DoAccess
  <2>1. ASSUME NEW s, NEW next, NEW h \in Half, RdCmd(s, next, h), s \in {"S_RD_CMD0", "S_RD_CMD1"}
        PROVE  bus' \in Bus /\ bus'.cmd = CommandOf(state)
    BY <2>1, ColumnBus, CommandNames DEF RdCmd
  <2>2. CASE RdCap0 \/ RdCap1 \/ Done
    BY <2>2, DriveBus, CommandNames DEF RdCap0, RdCap1, Done
  <2>3. ASSUME NEW s, NEW next, NEW h \in Half, WrCmd(s, next, h), s \in {"S_WR_CMD0", "S_WR_CMD1"}
        PROVE  bus' \in Bus /\ bus'.cmd = CommandOf(state)
    BY <2>3, ColumnBus, CommandNames DEF WrCmd
  <2> QED BY <1>7, <2>1, <2>2, <2>3 DEF DoAccess, Half
<1> QED BY <1>1, <1>2, <1>4, <1>5, <1>6, <1>7 DEF Fsm

CtlType ==
  /\ state \in State
  /\ cnt \in 0 .. 7
  /\ state \in DOMAIN Limit => cnt <= Limit[state]
  /\ initialized \in BOOLEAN

\* cnt never passes the limit of the wait state it counts.
LEMMA CtlStep ==
  ASSUME NEW sel, NEW request, Fsm(sel, request), CtlType
  PROVE  CtlType'
<1> USE DEF CtlType, Goto
<1> USE DEF State, InitState, RefreshState, OpenState, ReadState, WriteState
<1>1. CASE PowerUp
  <2>1. CASE InitWait
    BY <2>1, LimitType DEF InitWait, Waiting
  <2>2. CASE InitPre \/ InitAr1 \/ InitAr2 \/ InitLmr
    BY <2>2, LimitType DEF InitPre, InitAr1, InitAr2, InitLmr, Issue, Waiting, initVars
  <2>3. CASE InitOver
    BY <2>3, LimitType DEF InitOver, Waiting
  <2> QED BY <1>1, <2>1, <2>2, <2>3 DEF PowerUp
<1>2. CASE Wait
  BY <1>2, LimitType DEF Wait, InWait
<1>3. CASE WaitOver
  <2>1. Successor[state] \in State \ Waiting
    BY <1>3, SuccessorType DEF WaitOver
  <2>2. cnt' \in {0, cnt} /\ UNCHANGED initialized /\ state' = Successor[state]
    BY <1>3 DEF WaitOver
  <2> QED BY <2>1, <2>2, LimitType
<1>4. CASE Pass
  BY <1>4, LimitType DEF Pass, initVars, Waiting
<1>5. CASE Idle(sel, request)
  BY <1>5, LimitType DEF Idle, Take, AccessState, initVars, Waiting
<1>6. CASE RowChange
  BY <1>6, LimitType
     DEF RowChange, RefPre, RefAr, PreOld, Act, ActOver, Issue, InWait, AccessState, initVars,
         Waiting
<1>7. CASE DoAccess
  BY <1>7, LimitType DEF DoAccess, RdCmd, RdCap0, RdCap1, WrCmd, Done, initVars, Waiting
<1> QED BY <1>1, <1>2, <1>3, <1>4, <1>5, <1>6, <1>7 DEF Fsm

\* Only these three actions change the row the controller believes open.
LEMMA RowFrame ==
  ASSUME NEW sel, NEW request, Fsm(sel, request)
  PROVE  UNCHANGED rowVars \/ RefPre \/ PreOld \/ ActOver
  BY DEF Fsm, PowerUp, InitWait, InitPre, InitAr1, InitAr2, InitLmr, InitOver, Wait, WaitOver,
         Pass, Idle, RowChange, RefAr, Act, DoAccess, RdCmd, RdCap0, RdCap1, WrCmd, Done

\* Only the two capture states load read data.
LEMMA DataFrame ==
  ASSUME NEW sel, NEW request, Fsm(sel, request)
  PROVE  UNCHANGED dataVars \/ RdCap0 \/ RdCap1
  BY DEF Fsm, PowerUp, InitWait, InitPre, InitAr1, InitAr2, InitLmr, InitOver, InWait, Issue,
         Wait, WaitOver, Pass, Idle, RowChange, RefPre, RefAr, PreOld, Act, ActOver, 
         DoAccess, RdCmd, WrCmd, Done

\* The latched access changes only in S_IDLE.
LEMMA AccessFrame ==
  ASSUME NEW sel, NEW request, Fsm(sel, request)
  PROVE  UNCHANGED accessVars \/ Idle(sel, request)
  BY DEF Fsm, PowerUp, InitWait, InitPre, InitAr1, InitAr2, InitLmr, InitOver, InWait, Issue,
         Wait, WaitOver, Pass, RowChange, RefPre, RefAr, PreOld, Act, ActOver, 
         DoAccess, RdCmd, RdCap0, RdCap1, WrCmd, Done
\* init_cnt and initialized change only while powering up.
LEMMA InitFrame ==
  ASSUME NEW sel, NEW request, Fsm(sel, request)
  PROVE  UNCHANGED initVars \/ InitWait \/ InitOver
  BY DEF Fsm, PowerUp, InitPre, InitAr1, InitAr2, InitLmr, initVars, InWait, Issue,
         Wait, WaitOver, Pass, RowChange, RefPre, RefAr, PreOld, Act, ActOver, Idle,
         DoAccess, RdCmd, RdCap0, RdCap1, WrCmd, Done

\* What a state that only passes the time leaves alone.
LEMMA PassFrame ==
  ASSUME Pass
  PROVE  /\ state \in {"S_RD_NOP1", "S_RD_WAIT", "S_RD_GAP", "S_DONE_W"}
         /\ UNCHANGED dqVars /\ Idling
  BY DEF Pass

\* ready is raised for the one clock after S_DONE.
LEMMA ReadyStep ==
  ASSUME NEW sel, NEW request, Fsm(sel, request)
  PROVE  \/ state = "S_DONE" /\ ready' = TRUE
         \/ state # "S_DONE" /\ ready' = FALSE
<1>1. CASE PowerUp
  BY <1>1, LimitType DEF PowerUp, InitWait, InitPre, InitAr1, InitAr2, InitLmr, InitOver, InWait,
                         Issue, Idling, Waiting
<1>2. CASE Wait \/ WaitOver
  BY <1>2, LimitType DEF Wait, WaitOver, InWait, Waiting, Idling
<1>3. CASE Pass \/ Idle(sel, request)
  BY <1>3, PassFrame DEF Idle, Idling
<1>4. CASE RowChange
  BY <1>4, LimitType DEF RowChange, RefPre, RefAr, PreOld, Act, ActOver, InWait, Issue, Idling,
                         Waiting
<1>5. CASE DoAccess
  BY <1>5 DEF DoAccess, RdCmd, RdCap0, RdCap1, WrCmd, Done, Idling
<1> QED BY <1>1, <1>2, <1>3, <1>4, <1>5 DEF Fsm

DqOeNext ==
  /\ state \in {"S_WR_CMD0", "S_WR_CMD1"} => dq_oe' = TRUE
  /\ state \notin {"S_WR_CMD0", "S_WR_CMD1"} => dq_oe' = FALSE \/ dq_oe' = dq_oe
  /\ state = "S_WR_REC" => dq_oe' = FALSE

\* DQ is driven from the write states on, and no longer than the next clock.
LEMMA DqOeStep ==
  ASSUME NEW sel, NEW request, Fsm(sel, request), dq_oe \in BOOLEAN
  PROVE  DqOeNext
<1> USE DEF DqOeNext
<1>1. CASE InitWait
  BY <1>1 DEF InitWait
<1>2. CASE Wait \/ WaitOver \/ InitOver \/ ActOver
  <2>1. state \in Waiting /\ dq_oe' = (dq_oe /\ state # "S_WR_REC")
    BY <1>2, LimitType DEF Wait, WaitOver, InitOver, ActOver, InWait
  <2> QED BY <2>1 DEF Waiting
<1>3. CASE Pass
  BY <1>3, PassFrame DEF dqVars
<1>4. CASE Idle(sel, request)
  BY <1>4 DEF Idle
<1>5. CASE InitPre \/ InitAr1 \/ InitAr2 \/ InitLmr \/ RefPre \/ RefAr \/ PreOld \/ Act
  BY <1>5 DEF InitPre, InitAr1, InitAr2, InitLmr, RefPre, RefAr, PreOld, Act, Issue, dqVars
<1>6. CASE DoAccess
  BY <1>6 DEF DoAccess, RdCmd, RdCap0, RdCap1, WrCmd, Done, dqVars
<1> QED BY <1>1, <1>2, <1>3, <1>4, <1>5, <1>6 DEF Fsm, PowerUp, RowChange

\* Only the write states load DQ.
LEMMA DqFrame ==
  ASSUME NEW sel, NEW request, Fsm(sel, request)
  PROVE  \/ dq_out' = dq_out /\ state \notin {"S_WR_CMD0", "S_WR_CMD1"}
         \/ WrCmd("S_WR_CMD0", "S_WR_CMD1", 0)
         \/ WrCmd("S_WR_CMD1", "S_WR_REC", 1)
  BY LimitType
     DEF Fsm, PowerUp, InitWait, InitPre, InitAr1, InitAr2, InitLmr, InitOver, InWait, Issue,
         Wait, WaitOver, Pass, Idle, RowChange, RefPre, RefAr, PreOld, Act, ActOver,
         DoAccess, RdCmd, RdCap0, RdCap1, Done, dqVars, Waiting


Data == HalfWord \cup {HiZ}

FsmType ==
  /\ CtlType
  /\ init_cnt \in 0 .. INIT_CYCLES
  /\ ready \in BOOLEAN
  /\ data_lo \in Data
  /\ rdata \in Data \X Data
  /\ lat \in Access
  /\ is_write \in BOOLEAN
  /\ row_open \in BOOLEAN
  /\ open_ba \in Bank
  /\ open_row \in Row
  /\ bus \in Bus
  /\ dq_oe \in BOOLEAN
  /\ dq_out \in Data
  /\ bus.cmd = "WRITE" => dq_out \in HalfWord

\* The command distances are natural numbers.
LEMMA SpacingType == Paced = {"PRE", "ACT", "WRITE", "REF", "LMR"} /\ Spacing \in [Paced -> Nat]
  BY ChipAssumption DEF Spacing, Paced

\* Half a word is a half word.
LEMMA HalfOfType ==
  ASSUME NEW w \in Word, NEW h \in Half
  PROVE  HalfOf(w, h) \in HalfWord
  BY DEF HalfOf, LaneOf, Word, HalfWord, Lane, Half, Pair

\* Writing some lanes of a word leaves a word.
LEMMA MergeType ==
  ASSUME NEW w \in Word, NEW h \in Half, NEW d \in HalfWord, NEW lanes \in SUBSET Pair
  PROVE  Merge(w, h, d, lanes) \in Word
<1>1. ASSUME NEW l \in Lane, l - LaneOf(h, 0) \in lanes
      PROVE  d[l - LaneOf(h, 0)] \in Byte
  BY <1>1 DEF HalfWord
<1> QED BY <1>1 DEF Merge, Word


\* The FSM keeps its registers in their types.
LEMMA FsmStepType ==
  ASSUME NEW sel, NEW request \in Access, Fsm(sel, request), FsmType, ChipTypeOK
  PROVE  FsmType'
<1>1. CtlType' /\ bus' \in Bus /\ bus'.cmd = CommandOf(state)
  BY CtlStep, CommandStep DEF FsmType
<1>2. init_cnt' \in 0 .. INIT_CYCLES
  <2>1. init_cnt' = init_cnt \/ (init_cnt < INIT_CYCLES /\ init_cnt' = init_cnt + 1)
    BY InitFrame DEF initVars, InitWait, InitOver, InWait
  <2> QED BY <2>1, CtrlAssumption DEF FsmType
<1>3. ready' \in BOOLEAN /\ dq_oe' \in BOOLEAN
  BY ReadyStep, DqOeStep DEF FsmType, DqOeNext
<1>4. lat' \in Access /\ is_write' \in BOOLEAN
  <2>1. \/ lat' = lat /\ is_write' = is_write
        \/ lat' = request /\ is_write' = (request.wstrb # {})
    BY AccessFrame DEF accessVars, Idle, Take
  <2> QED BY <2>1 DEF FsmType
<1>5. data_lo' \in Data /\ rdata' \in Data \X Data
  <2>1. sdram_dq \in Data
    BY DEF ChipTypeOK, Data, sdram_dq
  <2>2. data_lo' \in {data_lo, sdram_dq} /\ rdata' \in {rdata, <<data_lo, sdram_dq>>}
    BY DataFrame DEF dataVars, RdCap0, RdCap1
  <2> QED BY <2>1, <2>2 DEF FsmType
<1>6. row_open' \in BOOLEAN /\ open_ba' \in Bank /\ open_row' \in Row
  BY RowFrame DEF FsmType, rowVars, RefPre, PreOld, ActOver, Access, Address
<1>7. dq_out' \in Data /\ (bus'.cmd = "WRITE" => dq_out' \in HalfWord)
  <2>1. CASE dq_out' = dq_out /\ state \notin {"S_WR_CMD0", "S_WR_CMD1"}
    BY <2>1, <1>1 DEF FsmType, CommandOf
  <2>2. ASSUME NEW s, NEW next, NEW h \in Half, WrCmd(s, next, h)
        PROVE  dq_out' \in HalfWord
    BY <2>2, HalfOfType DEF WrCmd, FsmType, Access
  <2> QED BY <2>1, <2>2, DqFrame DEF Data, Half
<1> QED BY <1>1, <1>2, <1>3, <1>4, <1>5, <1>6, <1>7 DEF FsmType

\* So does the chip.
LEMMA ChipStepType ==
  ASSUME ChipTypeOK, FsmType, ChipStep(bus, dq_out)
  PROVE  ChipTypeOK'
<1>1. open' \in [Bank -> Row \cup {Closed}]
  BY DEF ChipStep, Opened, ChipTypeOK, FsmType, Bus
<1>2. cells' \in [Address -> Word]
  <2>1. CASE bus.cmd = "WRITE" /\ open[bus.ba] # Closed
    <3>1. At(bus) \in Address
      BY <2>1 DEF At, Address, ChipTypeOK, FsmType, Bus
    <3>2. Merge(cells[At(bus)], bus.half, dq_out, bus.lanes) \in Word
      BY <2>1, <3>1, MergeType DEF ChipTypeOK, FsmType, Bus
    <3> QED BY <2>1, <3>1, <3>2 DEF ChipStep, Stored, ChipTypeOK
  <2>2. CASE ~(bus.cmd = "WRITE" /\ open[bus.ba] # Closed)
    BY <2>2 DEF ChipStep, Stored, ChipTypeOK
  <2> QED BY <2>1, <2>2
<1>3. pipe' \in Data \X Data \X Data
  <2>1. Fetched(bus) \in Data
    <3>1. CASE bus.cmd = "READ" /\ open[bus.ba] # Closed
      <4>1. At(bus) \in Address
        BY <3>1 DEF At, Address, ChipTypeOK, FsmType, Bus
      <4> QED BY <3>1, <4>1, HalfOfType DEF Fetched, Data, ChipTypeOK, FsmType, Bus
    <3>2. CASE ~(bus.cmd = "READ" /\ open[bus.ba] # Closed)
      BY <3>2 DEF Fetched, Data
    <3> QED BY <3>1, <3>2
  <2> QED BY <2>1 DEF ChipStep, Data, ChipTypeOK
<1>4. hold' \in [Paced -> Nat]
  BY SpacingType DEF ChipStep, Less, ChipTypeOK
<1>5. refreshes' \in 0 .. 2 /\ moded' \in BOOLEAN
  BY DEF ChipStep, ChipTypeOK
<1> QED BY <1>1, <1>2, <1>3, <1>4, <1>5 DEF Data, ChipTypeOK

BridgeType == pending \in BOOLEAN /\ xbus_ack \in BOOLEAN /\ xbus_dat_r \in Data \X Data
MasterType == /\ xbus \in Requests /\ xbus_stb \in BOOLEAN /\ xbus_cyc \in BOOLEAN
              /\ waited \in 0 .. XBUS_TIMEOUT /\ early \in BOOLEAN
TimerType == ref_cnt \in 0 .. REF_INTERVAL /\ ref_req \in BOOLEAN

TypeInv == ChipTypeOK /\ FsmType /\ TimerType /\ BridgeType /\ MasterType

\* TypeInv is TypeOK and what makes it inductive: the bound on cnt, and data with every WRITE.
LEMMA TypeInvImpliesTypeOK == TypeInv => TypeOK
  BY DEF TypeInv, TypeOK, CtrlTypeOK, CtlType, FsmType, TimerType, BridgeType, MasterType, Data

\* The zero answer is a word.
LEMMA ZeroType == Zero \in Data \X Data
  BY ChipAssumption DEF Zero, Data, HalfWord

\* The reset values are of the right types.
LEMMA ResetType == ResetAccess \in Access /\ ResetBus \in Bus /\ ResetAddress \in Address
<1>1. ResetAddress \in Address
  <2>1. PICK b \in Bank, r \in Row, c \in Col : TRUE
    BY ChipAssumption
  <2>2. [ba |-> b, row |-> r, col |-> c] \in Address
    BY DEF Address
  <2> QED BY <2>2 DEF ResetAddress
<1>2. ResetBus \in Bus
  BY <1>1 DEF ResetBus, Bus, Address, CommandName, Half
<1>3. ResetAccess \in Access
  BY <1>1, ChipAssumption DEF ResetAccess, Access, Word
<1> QED BY <1>1, <1>2, <1>3

\* Zero is within each counter.
LEMMA Bounds == /\ INIT_CYCLES \in Nat /\ 0 \in 0 .. INIT_CYCLES
                /\ REF_INTERVAL \in Nat /\ 0 \in 0 .. REF_INTERVAL
                /\ XBUS_TIMEOUT \in Nat /\ 0 \in 0 .. XBUS_TIMEOUT
<1>1. INIT_CYCLES \in Nat /\ REF_INTERVAL \in Nat
  BY CtrlAssumption
<1>2. XBUS_TIMEOUT \in Nat
  BY SystemAssumption
<1> QED BY <1>1, <1>2

\* The reset state is a state that does not wait.
LEMMA StartType == "S_INIT_WAIT" \in State \ DOMAIN Limit
  BY LimitType DEF State, InitState, Waiting

\* Initially,
LEMMA CtrlInitType == CtrlInit => FsmType /\ TimerType
<1> SUFFICES ASSUME CtrlInit PROVE FsmType /\ TimerType
  OBVIOUS
<1>1. CtlType
  <2>1. state = "S_INIT_WAIT" /\ initialized \in BOOLEAN
    BY DEF CtrlInit
  <2>2. cnt \in 0 .. 7
    BY DEF CtrlInit
  <2> QED BY <2>1, <2>2, StartType DEF CtlType
<1>2. init_cnt \in 0 .. INIT_CYCLES /\ TimerType
  BY Bounds DEF CtrlInit, TimerType
<1>3. lat \in Access /\ bus \in Bus /\ open_ba \in Bank /\ open_row \in Row
  BY ResetType DEF CtrlInit, Address
<1>4. rdata \in Data \X Data /\ data_lo \in Data /\ dq_out \in Data
  BY DEF CtrlInit, Data
<1>5. bus.cmd # "WRITE"
  BY DEF CtrlInit, ResetBus
<1> QED BY <1>1, <1>2, <1>3, <1>4, <1>5 DEF CtrlInit, FsmType

\* and after a reset, the controller is well typed.
LEMMA CtrlResetType == CtrlReset => FsmType' /\ TimerType'
<1> SUFFICES ASSUME CtrlReset PROVE FsmType' /\ TimerType'
  OBVIOUS
<1>1. CtlType'
  <2>1. state' = "S_INIT_WAIT" /\ initialized' \in BOOLEAN
    BY DEF CtrlReset
  <2>2. cnt' \in 0 .. 7
    BY DEF CtrlReset
  <2> QED BY <2>1, <2>2, StartType DEF CtlType
<1>2. (init_cnt \in 0 .. INIT_CYCLES)' /\ TimerType'
  BY Bounds DEF CtrlReset, TimerType
<1>3. (lat \in Access /\ bus \in Bus /\ open_ba \in Bank /\ open_row \in Row)'
  BY ResetType DEF CtrlReset, Address
<1>4. (rdata \in Data \X Data /\ data_lo \in Data /\ dq_out \in Data)'
  BY DEF CtrlReset, Data
<1>5. bus'.cmd # "WRITE"
  BY DEF CtrlReset, ResetBus
<1> QED BY <1>1, <1>2, <1>3, <1>4, <1>5 DEF CtrlReset, FsmType

\* The initial states are well typed.
LEMMA InitType == Init => TypeInv
<1> SUFFICES ASSUME Init PROVE TypeInv
  OBVIOUS
<1>1. ChipTypeOK
  <2>1. open \in [Bank -> Row \cup {Closed}] /\ cells \in [Address -> Word]
    BY ChipAssumption DEF Init, ChipInit, Word
  <2>2. pipe \in Data \X Data \X Data
    BY DEF Init, ChipInit, Data
  <2>3. hold \in [Paced -> Nat]
    BY DEF Init, ChipInit
  <2>4. refreshes \in 0 .. 2
    BY DEF Init, ChipInit
  <2>5. moded \in BOOLEAN
    BY DEF Init, ChipInit
  <2> QED BY <2>1, <2>2, <2>3, <2>4, <2>5 DEF ChipTypeOK, Data
<1>2. FsmType /\ TimerType
  BY CtrlInitType DEF Init
<1>3. BridgeType /\ MasterType
  BY Bounds, ZeroType DEF Init, BridgeInit, MasterInit, BridgeType, MasterType
<1> QED BY <1>1, <1>2, <1>3 DEF TypeInv

\* Every step of the system keeps the types.
LEMMA NextType == TypeInv /\ [Next]_vars => TypeInv'
<1> SUFFICES ASSUME TypeInv, [Next]_vars PROVE TypeInv'
  OBVIOUS
<1>1. CASE Tick
  <2>1. OnBus \in Access
    BY SystemAssumption DEF OnBus, Access, TypeInv, MasterType
  <2>2. ChipTypeOK' /\ FsmType'
    BY <1>1, <2>1, ChipStepType, FsmStepType DEF Tick, SdramClock, CtrlStep, TypeInv
  <2>3. TimerType'
    <3>1. RefreshTimer
      BY <1>1 DEF Tick, SdramClock, CtrlStep
    <3>2. ref_req' \in BOOLEAN
      BY <3>1 DEF RefreshTimer, refVars, TypeInv, TimerType
    <3>3. ref_cnt' \in 0 .. REF_INTERVAL
      BY <3>1, CtrlAssumption DEF RefreshTimer, refVars, TypeInv, TimerType
    <3> QED BY <3>2, <3>3 DEF TimerType
  <2>4. BridgeType'
    BY <1>1, ZeroType DEF Tick, SdramClock, Bridge, Completed, Unmapped, NewRequest, TypeInv, BridgeType, FsmType, MasterType
  <2>5. MasterType'
    <3>1. Master
      BY <1>1 DEF Tick
    <3>2. initialized \in BOOLEAN
      BY DEF TypeInv, FsmType, CtlType
    <3>3. CASE Rest \/ Finish \/ Expire
      BY <3>3, Bounds DEF Rest, Finish, Expire, TypeInv, MasterType, masterVars
    <3>4. CASE \E q \in Requests : Ask(q)
      BY <3>2, <3>4, Bounds DEF Ask, MasterType
    <3>5. CASE Await
      <4>1. waited' \in 0 .. XBUS_TIMEOUT
        BY <3>5, Bounds DEF Await, TypeInv, MasterType
      <4>2. xbus_stb' \in BOOLEAN /\ UNCHANGED <<xbus, xbus_cyc, early>>
        BY <3>5 DEF Await
      <4> QED BY <4>1, <4>2 DEF TypeInv, MasterType
    <3> QED BY <3>1, <3>3, <3>4, <3>5 DEF Master
  <2> QED BY <2>2, <2>3, <2>4, <2>5 DEF TypeInv
<1>2. CASE Reset
  <2>1. ChipTypeOK'
    BY <1>2 DEF Reset, chipVars, TypeInv, ChipTypeOK
  <2>2. FsmType' /\ TimerType'
    BY <1>2, CtrlResetType DEF Reset
  <2>3. BridgeType' /\ MasterType'
    BY <1>2, Bounds, ZeroType DEF Reset, TypeInv, BridgeType, MasterType
  <2> QED BY <2>1, <2>2, <2>3 DEF TypeInv
<1>3. CASE UNCHANGED vars
  BY <1>3 DEF vars, chipVars, ctrlVars, fsmVars, refVars, bridgeVars, masterVars, TypeInv,
              ChipTypeOK, FsmType, CtlType, TimerType, BridgeType, MasterType
<1> QED BY <1>1, <1>2, <1>3 DEF Next

(***************************************************************************)
(* TypeOK: every register of rtl/sdram_ctrl.v and rtl/wb_sdram_ctrl.v      *)
(* stays within its width, the three bits of cnt included, and the chip    *)
(* and the master keep their types, whatever is asked and whenever the     *)
(* reset comes.                                                            *)
(***************************************************************************)
THEOREM TypeCorrect == Spec => []TypeOK
<1>1. Spec => []TypeInv
  BY InitType, NextType, PTL DEF Spec
<1> QED BY <1>1, TypeInvImpliesTypeOK, PTL

-----------------------------------------------------------------------------
(***************************************************************************)
(* The safety of the SDRAM controller for every choice of the timing       *)
(* parameters CtrlAssumption admits, every geometry and every behaviour of *)
(* the bus master and the reset button.                                    *)
(*                                                                         *)
(* The inductive invariant Inv is a conjunction of seven parts: the types; *)
(* which command may be on the bus in which state (BusInv); what the       *)
(* power-up sequence has done so far (StartInv); that the minimum distance *)
(* after each command runs out no later than the wait state that stands    *)
(* for it (HoldInv, CalmInv); that no read is in flight outside the read   *)
(* states (PipeInv); that the time to the next refresh never outgrows      *)
(* MaxRefreshDelay (DelayInv); and that the row registers describe the     *)
(* chip (RowInv).                                                          *)
(***************************************************************************)

\* The edges out of the states that last one clock.
OneClock ==
  [S_INIT_PRE |-> "S_INIT_PRE_W", S_INIT_AR1 |-> "S_INIT_AR1_W", S_INIT_AR2 |-> "S_INIT_AR2_W",
   S_INIT_LMR |-> "S_INIT_LMR_W", S_REF_PRE |-> "S_REF_PRE_W", S_REF_AR |-> "S_REF_AR_W",
   S_PRE_OLD |-> "S_PRE_OLD_W", S_ACT |-> "S_ACT_W",
   S_RD_CMD0 |-> "S_RD_NOP1", S_RD_NOP1 |-> "S_RD_CMD1", S_RD_CMD1 |-> "S_RD_WAIT",
   S_RD_WAIT |-> "S_RD_CAP0", S_RD_CAP0 |-> "S_RD_GAP", S_RD_GAP |-> "S_RD_CAP1",
   S_RD_CAP1 |-> "S_RD_PRE_W", S_WR_CMD0 |-> "S_WR_CMD1", S_WR_CMD1 |-> "S_WR_REC",
   S_DONE |-> "S_DONE_W", S_DONE_W |-> "S_IDLE"]

FromIdle == {"S_IDLE", "S_PRE_OLD", "S_ACT", "S_RD_CMD0", "S_WR_CMD0"}

\* The state graph of the FSM, with the counts that guard its edges.
Edge ==
  \/ /\ state = "S_INIT_WAIT" /\ state' = "S_INIT_WAIT"
     /\ init_cnt < INIT_CYCLES /\ init_cnt' = init_cnt + 1
  \/ state = "S_INIT_WAIT" /\ state' = "S_INIT_PRE" /\ init_cnt >= INIT_CYCLES
  \/ state \in Waiting /\ state' = state /\ cnt < Limit[state] /\ cnt' = cnt + 1
  \/ state \in DOMAIN Successor /\ state' = Successor[state] /\ cnt >= Limit[state]
  \/ state = "S_INIT_LMR_W" /\ state' = "S_IDLE" /\ cnt >= TMRD
  \/ state = "S_ACT_W" /\ state' \in {"S_RD_CMD0", "S_WR_CMD0"} /\ cnt >= TRCD
  \/ state = "S_IDLE" /\ ref_req /\ state' = "S_REF_PRE"
  \/ state = "S_IDLE" /\ ~ref_req /\ state' \in FromIdle
  \/ state \in DOMAIN OneClock /\ state' = OneClock[state] /\ (state' \in Waiting => cnt' = 0)

\* The states that last one clock and have one successor.
LEMMA OneClockDomain ==
  DOMAIN OneClock = State \ (Waiting \cup {"S_INIT_WAIT", "S_IDLE"})
  BY DEF OneClock, State, Waiting, InitState, RefreshState, OpenState, ReadState, WriteState

\* Every step of the FSM follows an edge of its state graph.
LEMMA EdgeStep ==
  ASSUME NEW sel, NEW request, Fsm(sel, request)
  PROVE  Edge
<1> USE DEF Edge, Goto
<1>1. CASE InitWait
  BY <1>1 DEF InitWait
<1>2. CASE Wait
  BY <1>2, LimitType DEF Wait, InWait
<1>3. CASE WaitOver
  BY <1>3 DEF WaitOver
<1>4. CASE InitOver \/ ActOver
  BY <1>4 DEF InitOver, ActOver, AccessState
<1>5. CASE Pass
  BY <1>5 DEF Pass, OneClock, Waiting
<1>6. CASE Idle(sel, request)
  BY <1>6 DEF Idle, Take, AccessState, FromIdle
<1>7. CASE InitPre \/ InitAr1 \/ InitAr2 \/ InitLmr \/ RefPre \/ RefAr \/ PreOld \/ Act
  BY <1>7 DEF InitPre, InitAr1, InitAr2, InitLmr, RefPre, RefAr, PreOld, Act, Issue, OneClock
<1>8. CASE DoAccess
  BY <1>8 DEF DoAccess, RdCmd, RdCap0, RdCap1, WrCmd, Done, OneClock, Waiting
<1> QED BY <1>1, <1>2, <1>3, <1>4, <1>5, <1>6, <1>7, <1>8 DEF Fsm, PowerUp, RowChange

-----------------------------------------------------------------------------
\* Which command may be on the bus in which state.
BusInv ==
  /\ bus.cmd = "ACT" => /\ state = "S_ACT_W"
                        /\ bus.ba = lat.addr.ba /\ bus.row = lat.addr.row
  /\ bus.cmd = "READ" => state \in {"S_RD_NOP1", "S_RD_WAIT"} /\ bus.ba = lat.addr.ba
  /\ bus.cmd = "WRITE" => state \in {"S_WR_CMD1", "S_WR_REC"} /\ bus.ba = lat.addr.ba
  /\ bus.cmd = "PRE" => state \in {"S_INIT_PRE_W", "S_REF_PRE_W", "S_PRE_OLD_W"}
  /\ bus.cmd = "REF" => state \in {"S_INIT_AR1_W", "S_INIT_AR2_W", "S_REF_AR_W"}
  /\ bus.cmd = "LMR" => state = "S_INIT_LMR_W"
  /\ dq_oe = TRUE <=> bus.cmd = "WRITE"

\* A one-clock state goes to its successor.
LEMMA IssueStep ==
  ASSUME Edge, state \in DOMAIN OneClock
  PROVE  state' = OneClock[state]
  BY SuccessorType, OneClockDomain DEF Edge, Waiting

\* BusInv is kept.
LEMMA BusStep ==
  ASSUME NEW sel, NEW request, Fsm(sel, request), FsmType, BusInv
  PROVE  BusInv'
<1>1. bus'.cmd = CommandOf(state)
  BY CommandStep DEF FsmType
<1>2. Edge
  BY EdgeStep
<1>3. CommandOf(state) # "NOP" => state = "S_INIT_WAIT" \/ state' = OneClock[state]
  BY <1>2, IssueStep, OneClockDomain DEF CommandOf, OneClock
<1>4. bus'.cmd = "ACT" => /\ state' = "S_ACT_W"
                          /\ bus'.ba = lat'.addr.ba /\ bus'.row = lat'.addr.row
  <2> SUFFICES ASSUME bus'.cmd = "ACT"
               PROVE  /\ state' = "S_ACT_W"
                      /\ bus'.ba = lat'.addr.ba /\ bus'.row = lat'.addr.row
    OBVIOUS
  <2>1. state = "S_ACT"
    BY <1>1 DEF CommandOf
  <2>2. Act
    BY <2>1, LimitType
       DEF Fsm, PowerUp, InitWait, InitPre, InitAr1, InitAr2, InitLmr, InitOver, InWait, Issue,
           Wait, WaitOver, Pass, Idle, RowChange, RefPre, RefAr, PreOld, ActOver,
           DoAccess, RdCmd, RdCap0, RdCap1, WrCmd, Done, Waiting
  <2> QED BY <2>2, ActBus DEF FsmType, Act, Issue, Goto, accessVars
<1>5. bus'.cmd \in {"READ", "WRITE"} => bus'.ba = lat'.addr.ba
  <2> SUFFICES ASSUME bus'.cmd \in {"READ", "WRITE"} PROVE bus'.ba = lat'.addr.ba
    OBVIOUS
  <2>1. state \in {"S_RD_CMD0", "S_RD_CMD1", "S_WR_CMD0", "S_WR_CMD1"}
    BY <1>1 DEF CommandOf
  <2>2. \/ RdCmd("S_RD_CMD0", "S_RD_NOP1", 0) \/ RdCmd("S_RD_CMD1", "S_RD_WAIT", 1)
        \/ WrCmd("S_WR_CMD0", "S_WR_CMD1", 0) \/ WrCmd("S_WR_CMD1", "S_WR_REC", 1)
    BY <2>1, LimitType
       DEF Fsm, PowerUp, InitWait, InitPre, InitAr1, InitAr2, InitLmr, InitOver, InWait, Issue,
           Wait, WaitOver, Pass, Idle, RowChange, RefPre, RefAr, PreOld, Act, ActOver,
           DoAccess, RdCap0, RdCap1, Done, Waiting
  <2>3. PICK h \in Half : \E c \in CommandName, lanes \in SUBSET Pair : Column(c, h, lanes) 
    BY <2>2, CommandNames DEF RdCmd, WrCmd, Half
  <2>4. UNCHANGED lat
    BY <2>2 DEF RdCmd, WrCmd, accessVars
  <2> QED BY <2>3, <2>4, ColumnBus DEF FsmType
<1>6. bus'.cmd = "READ" => state' \in {"S_RD_NOP1", "S_RD_WAIT"}
  BY <1>1, <1>3 DEF CommandOf, OneClock
<1>7. bus'.cmd = "WRITE" => state' \in {"S_WR_CMD1", "S_WR_REC"}
  BY <1>1, <1>3 DEF CommandOf, OneClock
<1>8. bus'.cmd = "PRE" => state' \in {"S_INIT_PRE_W", "S_REF_PRE_W", "S_PRE_OLD_W"}
  BY <1>1, <1>3 DEF CommandOf, OneClock
<1>9. bus'.cmd = "REF" => state' \in {"S_INIT_AR1_W", "S_INIT_AR2_W", "S_REF_AR_W"}
  BY <1>1, <1>3 DEF CommandOf, OneClock
<1>10. bus'.cmd = "LMR" => state' = "S_INIT_LMR_W"
  BY <1>1, <1>3 DEF CommandOf, OneClock
<1>11. dq_oe' = TRUE <=> bus'.cmd = "WRITE"
  <2>1. DqOeNext
    BY DqOeStep DEF FsmType
  <2> QED BY <2>1, <1>1 DEF DqOeNext, BusInv, CommandOf
<1> QED BY <1>4, <1>5, <1>6, <1>7, <1>8, <1>9, <1>10, <1>11 DEF BusInv
-----------------------------------------------------------------------------
\* How the power-up states follow one another.
LEMMA InitPath ==
  ASSUME Edge
  PROVE  /\ state' = "S_INIT_AR1_W" => state \in {"S_INIT_AR1", "S_INIT_AR1_W"}
         /\ state' = "S_INIT_AR2" => state = "S_INIT_AR1_W"
         /\ state' = "S_INIT_AR2_W" => state \in {"S_INIT_AR2", "S_INIT_AR2_W"}
         /\ state' = "S_INIT_LMR" => state = "S_INIT_AR2_W"
         /\ state' = "S_INIT_LMR_W" => state \in {"S_INIT_LMR", "S_INIT_LMR_W"}
         /\ state' \notin InitState => state \notin InitState \/ state = "S_INIT_LMR_W"
         /\ state' \in InitState /\ state' # "S_INIT_WAIT" => state \in InitState
         /\ state' = "S_INIT_WAIT" => state = "S_INIT_WAIT"
<1> USE SuccessorType DEF Edge, InitState, Waiting
<1>1. CASE state \in DOMAIN OneClock /\ state' = OneClock[state]
  BY <1>1, OneClockDomain DEF OneClock
<1>2. CASE state \in DOMAIN Successor /\ state' = Successor[state]
  BY <1>2 DEF Successor
<1>3. CASE ~(state \in DOMAIN OneClock /\ state' = OneClock[state])
           /\ ~(state \in DOMAIN Successor /\ state' = Successor[state])
  BY <1>3 DEF FromIdle
<1> QED BY <1>1, <1>2, <1>3

\* What the power-up sequence has done by each of its states.
StartInv ==
  /\ state \in {"S_INIT_AR1_W", "S_INIT_AR2"} => refreshes >= 1 \/ bus.cmd = "REF"
  /\ state \in {"S_INIT_AR2_W", "S_INIT_LMR", "S_INIT_LMR_W"}
        => refreshes >= 2 \/ (refreshes >= 1 /\ bus.cmd = "REF")
  /\ state = "S_INIT_LMR_W" \/ state \notin InitState => moded = TRUE \/ bus.cmd = "LMR"

\* StartInv is kept: two refreshes precede the mode register, which precedes all else.
LEMMA StartStep ==
  ASSUME NEW sel, NEW request, Fsm(sel, request), ChipStep(bus, dq_out), FsmType, ChipTypeOK,
         StartInv
  PROVE  StartInv'
<1>1. bus'.cmd = CommandOf(state) /\ Edge
  BY CommandStep, EdgeStep DEF FsmType
<1>2. refreshes' \in Nat /\ refreshes \in 0 .. 2 /\ refreshes' >= refreshes
  BY DEF ChipStep, ChipTypeOK
<1>3. bus.cmd = "REF" /\ refreshes < 2 => refreshes' = refreshes + 1
  BY DEF ChipStep
<1>4. state' \in {"S_INIT_AR1_W", "S_INIT_AR2"} => refreshes' >= 1 \/ bus'.cmd = "REF"
  BY <1>1, <1>2, <1>3, InitPath DEF StartInv, CommandOf
<1>5. state' \in {"S_INIT_AR2_W", "S_INIT_LMR", "S_INIT_LMR_W"}
         => refreshes' >= 2 \/ (refreshes' >= 1 /\ bus'.cmd = "REF")
  BY <1>1, <1>2, <1>3, InitPath DEF StartInv, CommandOf
<1>6. state' = "S_INIT_LMR_W" \/ state' \notin InitState => moded' = TRUE \/ bus'.cmd = "LMR"
  <2>1. moded = TRUE \/ bus.cmd = "LMR" => moded' = TRUE
    BY DEF ChipStep
  <2> QED BY <1>1, <2>1, InitPath DEF StartInv, CommandOf
<1> QED BY <1>4, <1>5, <1>6 DEF StartInv
-----------------------------------------------------------------------------
\* What hold[c] will be once the command on the bus has been sampled.
Held(c) == Less(IF bus.cmd = c THEN Spacing[c] ELSE hold[c])

\* The wait states that stand for the distance after each command.
Window ==
  [PRE |-> {"S_INIT_PRE_W", "S_REF_PRE_W", "S_PRE_OLD_W"}, ACT |-> {"S_ACT_W"},
   WRITE |-> {"S_WR_REC"}, REF |-> {"S_INIT_AR1_W", "S_INIT_AR2_W", "S_REF_AR_W"},
   LMR |-> {"S_INIT_LMR_W"}]

\* The distance after c still open is covered by the wait under way.
Bounded(c) ==
  /\ hold[c] <= Spacing[c]
  /\ \/ Held(c) = 0
     \/ state = "S_INIT_WAIT" /\ Held(c) + init_cnt <= Spacing[c]
     \/ state \in Window[c] /\ Held(c) + cnt <= Spacing[c]
     \/ c = "WRITE" /\ state = "S_WR_CMD1"

HoldInv == \A c \in Paced : Bounded(c)

\* A wait state is at least as long as the distance it stands for.
LEMMA WindowType ==
  ASSUME NEW c \in Paced, NEW s \in Window[c]
  PROVE  s \in Waiting /\ Spacing[c] <= Limit[s]
<1>1. s \in Waiting
  BY SpacingType DEF Window, Waiting
<1>2. Spacing[c] <= Limit[s]
  BY ChipAssumption, CtrlAssumption, SpacingType DEF Window, Limit, Spacing
<1> QED BY <1>1, <1>2

\* The power-up wait outlasts every distance.
LEMMA SpacingBound ==
  ASSUME NEW c \in Paced
  PROVE  Spacing[c] <= INIT_CYCLES
  BY ChipAssumption, CtrlAssumption, SpacingType DEF Spacing

\* A wait state counts or has reached its limit.
LEMMA WaitEdge ==
  ASSUME Edge, state \in Waiting
  PROVE  \/ state' = state /\ cnt' = cnt + 1
         \/ cnt >= Limit[state]
<1>1. Limit["S_INIT_LMR_W"] = TMRD /\ Limit["S_ACT_W"] = TRCD
  BY DEF Limit
<1> QED BY <1>1, OneClockDomain DEF Edge, Waiting

\* HoldInv is kept.
LEMMA HoldStep ==
  ASSUME NEW sel, NEW request, Fsm(sel, request), ChipStep(bus, dq_out), FsmType, ChipTypeOK,
         HoldInv
  PROVE  HoldInv'
<1>1. bus'.cmd = CommandOf(state) /\ Edge
  BY CommandStep, EdgeStep DEF FsmType
<1> SUFFICES ASSUME NEW c \in Paced
             PROVE  Bounded(c)'
  BY DEF HoldInv
<1>2. /\ hold[c] \in Nat /\ Spacing[c] \in Nat /\ cnt \in Nat /\ init_cnt \in Nat
      /\ Held(c) \in Nat /\ hold'[c] = Held(c) /\ Bounded(c)
  BY SMTT(30), SpacingType, CtrlAssumption DEF ChipTypeOK, FsmType, CtlType, Held, Less, ChipStep, HoldInv
<1>3. hold'[c] <= Spacing[c]
  BY <1>2 DEF Held, Less, Bounded
<1>4. CASE bus'.cmd = c
  <2>1. state \in DOMAIN OneClock
    BY <1>1, <1>4, SpacingType, OneClockDomain
       DEF CommandOf, State, Waiting, InitState, RefreshState, OpenState, ReadState, WriteState
  <2>2. state' = OneClock[state] /\ (state' \in Waiting => cnt' = 0)
    BY <1>1, <2>1, SuccessorType, OneClockDomain DEF Edge, Waiting
  <2>3. state' \in Window[c] \/ (c = "WRITE" /\ state' = "S_WR_CMD1")
    BY <1>1, <1>4, <2>2, SpacingType DEF CommandOf, OneClock, Window
  <2>4. Held(c)' <= Spacing[c] /\ Held(c)' \in Nat
    BY <1>4, <1>2 DEF Held, Less
  <2> QED BY <1>2, <1>3, <2>2, <2>3, <2>4, WindowType DEF Bounded
<1>5. CASE bus'.cmd # c
  <2>1. Held(c)' = IF Held(c) > 0 THEN Held(c) - 1 ELSE 0
    BY <1>5, <1>2 DEF Held, Less
  <2>2. CASE Held(c) = 0
    BY <2>1, <2>2, <1>3 DEF Bounded
  <2>3. CASE Held(c) > 0 /\ state = "S_INIT_WAIT" /\ Held(c) + init_cnt <= Spacing[c]
    <3>1. state' = "S_INIT_WAIT" /\ init_cnt' = init_cnt + 1
      BY SMTT(30), <1>1, <1>2, <2>3, SpacingBound, SuccessorType, OneClockDomain, CtrlAssumption DEF Edge, Waiting
    <3> QED BY <1>2, <1>3, <2>1, <2>3, <3>1 DEF Bounded
  <2>4. CASE Held(c) > 0 /\ state \in Window[c] /\ Held(c) + cnt <= Spacing[c]
    <3>1. state \in Waiting /\ Spacing[c] <= Limit[state] /\ Limit[state] \in Nat
      BY <2>4, WindowType, LimitType
    <3>2. state' = state /\ cnt' = cnt + 1
      BY <1>1, <1>2, <2>4, <3>1, WaitEdge
    <3> QED BY <1>2, <1>3, <2>1, <2>4, <3>2 DEF Bounded
  <2>5. CASE c = "WRITE" /\ state = "S_WR_CMD1"
    BY <1>1, <1>5, <2>5 DEF CommandOf
  <2> QED BY <1>2, <2>2, <2>3, <2>4, <2>5 DEF Bounded
<1> QED BY <1>4, <1>5
-----------------------------------------------------------------------------
\* The distances each command depends on.
Needs ==
  [ACT |-> {"PRE", "REF", "LMR"}, READ |-> {"ACT"}, WRITE |-> {"ACT"}, PRE |-> {"WRITE"},
   REF |-> {"PRE", "REF", "LMR"}, LMR |-> {"PRE", "REF"}]

CalmInv == \A c \in Paced : bus.cmd \in DOMAIN Needs /\ c \in Needs[bus.cmd] => hold[c] = 0

\* A command goes out only when the distances it depends on have run out.
LEMMA CalmStep ==
  ASSUME NEW sel, NEW request, Fsm(sel, request), ChipStep(bus, dq_out), FsmType, HoldInv
  PROVE  CalmInv'
<1>1. bus'.cmd = CommandOf(state)
  BY CommandStep DEF FsmType
<1> SUFFICES ASSUME NEW c \in Paced, bus'.cmd \in DOMAIN Needs, c \in Needs[bus'.cmd]
             PROVE  hold'[c] = 0
  BY DEF CalmInv
<1>2. state # "S_INIT_WAIT" /\ state \notin Window[c] /\ ~(c = "WRITE" /\ state = "S_WR_CMD1")
  BY <1>1, SpacingType DEF CommandOf, Needs, Window
<1>3. hold'[c] = Held(c)
  BY DEF ChipStep, Held
<1> QED BY <1>2, <1>3 DEF HoldInv, Bounded
-----------------------------------------------------------------------------
\* The states in which the chip may have read data to drive.
Reading == {"S_RD_NOP1", "S_RD_CMD1", "S_RD_WAIT", "S_RD_CAP0", "S_RD_GAP", "S_RD_CAP1"}

PipeInv ==
  /\ state = "S_INIT_WAIT" => /\ bus.cmd = "INHIBIT"
                              /\ init_cnt >= 1 => pipe[3] = HiZ
                              /\ init_cnt >= 2 => pipe[2] = HiZ
                              /\ init_cnt >= 3 => pipe[1] = HiZ
  /\ state = "S_RD_GAP" => pipe[3] = HiZ
  /\ state = "S_RD_CAP1" => pipe[2] = HiZ /\ pipe[3] = HiZ
  /\ state \notin Reading \cup {"S_INIT_WAIT"} => pipe[1] = HiZ /\ pipe[2] = HiZ /\ pipe[3] = HiZ

\* How the read states follow one another.
LEMMA ReadPath ==
  ASSUME Edge
  PROVE  /\ state' = "S_INIT_WAIT" => state = "S_INIT_WAIT" /\ init_cnt' = init_cnt + 1
         /\ state' = "S_RD_GAP" => state = "S_RD_CAP0"
         /\ state' = "S_RD_CAP1" => state = "S_RD_GAP"
         /\ state' \notin Reading /\ state \in Reading => state = "S_RD_CAP1"
         /\ state = "S_INIT_WAIT" /\ state' # "S_INIT_WAIT" => init_cnt >= INIT_CYCLES
<1> USE SuccessorType DEF Edge, Reading, Waiting
<1>1. CASE state \in DOMAIN OneClock /\ state' = OneClock[state]
  BY <1>1, OneClockDomain DEF OneClock
<1>2. CASE state \in DOMAIN Successor /\ state' = Successor[state]
  BY <1>2 DEF Successor
<1>3. CASE ~(state \in DOMAIN OneClock /\ state' = OneClock[state])
           /\ ~(state \in DOMAIN Successor /\ state' = Successor[state])
  BY <1>3 DEF FromIdle
<1> QED BY <1>1, <1>2, <1>3

\* PipeInv is kept: S_RD_PRE_W is reached after the second read has been driven.
LEMMA PipeStep ==
  ASSUME NEW sel, NEW request, Fsm(sel, request), ChipStep(bus, dq_out), FsmType, BusInv, PipeInv
  PROVE  PipeInv'
<1>1. bus'.cmd = CommandOf(state) /\ Edge
  BY CommandStep, EdgeStep DEF FsmType
<1>2. pipe'[1] = pipe[2] /\ pipe'[2] = pipe[3] /\ pipe'[3] = Fetched(bus)
  BY DEF ChipStep
<1>3. bus.cmd # "READ" => Fetched(bus) = HiZ
  BY DEF Fetched
<1>4. init_cnt \in Nat
  BY CtrlAssumption DEF FsmType
<1>5. state' = "S_INIT_WAIT" => /\ bus'.cmd = "INHIBIT"
                                /\ init_cnt' >= 1 => pipe'[3] = HiZ
                                /\ init_cnt' >= 2 => pipe'[2] = HiZ
                                /\ init_cnt' >= 3 => pipe'[1] = HiZ
  BY <1>1, <1>2, <1>3, <1>4, ReadPath DEF CommandOf, PipeInv
<1>6. state' = "S_RD_GAP" => pipe'[3] = HiZ
  BY <1>1, <1>2, <1>3, ReadPath DEF BusInv
<1>7. state' = "S_RD_CAP1" => pipe'[2] = HiZ /\ pipe'[3] = HiZ
  BY <1>1, <1>2, <1>3, ReadPath DEF BusInv, PipeInv
<1>8. state' \notin Reading \cup {"S_INIT_WAIT"}
        => pipe'[1] = HiZ /\ pipe'[2] = HiZ /\ pipe'[3] = HiZ
  <2> SUFFICES ASSUME state' \notin Reading \cup {"S_INIT_WAIT"}
               PROVE  pipe'[1] = HiZ /\ pipe'[2] = HiZ /\ pipe'[3] = HiZ
    OBVIOUS
  <2>1. CASE state = "S_INIT_WAIT"
    BY <1>1, <1>2, <1>3, <1>4, <2>1, ReadPath, CtrlAssumption DEF PipeInv
  <2>2. CASE state \in Reading
    BY <1>1, <1>2, <1>3, <2>2, ReadPath DEF PipeInv, BusInv
  <2>3. CASE state \notin Reading \cup {"S_INIT_WAIT"}
    BY <1>2, <1>3, <2>3 DEF PipeInv, BusInv, Reading
  <2> QED BY <2>1, <2>2, <2>3
<1> QED BY <1>5, <1>6, <1>7, <1>8 DEF PipeInv
-----------------------------------------------------------------------------
\* Clocks from the entry of each state to S_REF_AR, once a refresh is due.
Ahead == LET busy == 6 + 2 * TRP
             answer == IF TWR > 5 THEN busy + 2 + TWR ELSE busy + 7
         IN
  [S_REF_AR |-> 0, S_REF_PRE_W |-> TRP + 1, S_REF_PRE |-> TRP + 2,
   S_IDLE |-> TRP + 3, S_DONE_W |-> TRP + 4, S_DONE |-> TRP + 5,
   S_REF_AR_W |-> TRC + TRP + 4,
   S_RD_PRE_W |-> busy, S_RD_CAP1 |-> busy + 1, S_RD_GAP |-> busy + 2, S_RD_CAP0 |-> busy + 3,
   S_RD_WAIT |-> busy + 4, S_RD_CMD1 |-> busy + 5, S_RD_NOP1 |-> busy + 6,
   S_RD_CMD0 |-> busy + 7,
   S_WR_REC |-> busy + TWR, S_WR_CMD1 |-> busy + TWR + 1, S_WR_CMD0 |-> busy + TWR + 2,
   S_ACT_W |-> answer + TRCD + 1, S_ACT |-> answer + TRCD + 2,
   S_PRE_OLD_W |-> answer + TRCD + TRP + 3, S_PRE_OLD |-> answer + TRCD + TRP + 4]

Left == IF state \in Waiting THEN Ahead[state] - cnt ELSE Ahead[state]

DelayInv ==
  /\ state \in InitState => ref_req = FALSE
  /\ ref_req = TRUE => ref_cnt + Left <= MaxRefreshDelay

\* The distances fit in three bits.
LEMMA Times == /\ TRP \in 0 .. 7 /\ TRC \in 0 .. 7 /\ TRCD \in 0 .. 7 /\ TWR \in 0 .. 7
<1>1. TRP \in Nat /\ TRC \in Nat /\ TRCD \in Nat /\ TWR \in Nat
  BY ChipAssumption
<1>2. TRP <= 7 /\ TRC <= 7 /\ TRCD <= 7 /\ TWR + TRP <= 7
  BY CtrlAssumption
<1> QED BY <1>1, <1>2

\* From no state is a refresh further away than MaxRefreshDelay.
LEMMA AheadRange ==
  ASSUME NEW s \in State \ InitState
  PROVE  Ahead[s] \in 0 .. MaxRefreshDelay
  BY Times DEF State, InitState, RefreshState, OpenState, ReadState, WriteState, Ahead,
               MaxRefreshDelay

\* Along every edge the refresh comes at least one clock nearer.
LEMMA AheadStep ==
  /\ \A s \in DOMAIN OneClock \ (InitState \cup {"S_REF_AR"}) : Ahead[OneClock[s]] + 1 <= Ahead[s]
  /\ \A s \in DOMAIN Successor \ InitState : Ahead[Successor[s]] + 1 + Limit[s] <= Ahead[s]
  /\ Ahead["S_RD_CMD0"] + 1 + TRCD <= Ahead["S_ACT_W"]
  /\ Ahead["S_WR_CMD0"] + 1 + TRCD <= Ahead["S_ACT_W"]
  /\ Ahead["S_REF_PRE"] + 1 <= Ahead["S_IDLE"]
<1>1. ASSUME NEW s \in DOMAIN OneClock \ (InitState \cup {"S_REF_AR"})
      PROVE  Ahead[OneClock[s]] + 1 <= Ahead[s]
  BY Times DEF OneClock, InitState, Ahead
<1>2. ASSUME NEW s \in DOMAIN Successor \ InitState
      PROVE  Ahead[Successor[s]] + 1 + Limit[s] <= Ahead[s]
  BY Times DEF Successor, InitState, Ahead, Limit
<1>3. /\ Ahead["S_RD_CMD0"] + 1 + TRCD <= Ahead["S_ACT_W"]
      /\ Ahead["S_WR_CMD0"] + 1 + TRCD <= Ahead["S_ACT_W"]
      /\ Ahead["S_REF_PRE"] + 1 <= Ahead["S_IDLE"]
  BY Times DEF Ahead
<1> QED BY <1>1, <1>2, <1>3

\* A clock brings the refresh nearer, but while S_IDLE serves no refresh.
LEMMA LeftStep ==
  ASSUME Edge, CtlType, CtlType', state \notin InitState \cup {"S_REF_AR"},
         state = "S_IDLE" => state' = "S_REF_PRE"
  PROVE  Left' + 1 <= Left
<1>1. /\ cnt \in Nat /\ cnt' \in Nat /\ state' \in State \ InitState
      /\ state' \in Waiting => cnt' <= Limit[state']
  BY InitPath, LimitType DEF CtlType, InitState
<1>2. MaxRefreshDelay \in Nat
  BY Times DEF MaxRefreshDelay
<1>3. Ahead[state'] \in 0 .. MaxRefreshDelay /\ Left' \in Int /\ Left' <= Ahead[state']
  BY <1>1, <1>2, AheadRange DEF Left
<1>4. state \in State \ InitState /\ Ahead[state] \in 0 .. MaxRefreshDelay
  BY AheadRange DEF CtlType
<1>5. CASE state \in DOMAIN OneClock /\ state' = OneClock[state]
  BY <1>1, <1>2, <1>3, <1>4, <1>5, AheadStep, OneClockDomain DEF Left
<1>6. CASE state \in Waiting /\ state' = state /\ cnt' = cnt + 1
  BY <1>1, <1>2, <1>4, <1>6 DEF Left
<1>7. CASE state \in DOMAIN Successor /\ state' = Successor[state]
  <2>1. state \in Waiting /\ cnt <= Limit[state] /\ Limit[state] \in Nat
    BY <1>7, SuccessorType, LimitType DEF CtlType
  <2>2. Ahead[state'] + 1 + Limit[state] <= Ahead[state]
    BY <1>7, AheadStep
  <2> QED BY <1>1, <1>2, <1>3, <1>4, <2>1, <2>2 DEF Left
<1>8. CASE state = "S_ACT_W" /\ state' \in {"S_RD_CMD0", "S_WR_CMD0"}
  <2>1. state \in Waiting /\ Limit[state] = TRCD /\ cnt <= TRCD
    BY <1>8, LimitType DEF CtlType, Waiting, Limit
  <2>2. Ahead[state'] + 1 + TRCD <= Ahead[state]
    BY <1>8, AheadStep
  <2> QED BY <1>1, <1>2, <1>3, <1>4, <2>1, <2>2, Times DEF Left
<1>9. CASE state = "S_IDLE" /\ state' = "S_REF_PRE"
  BY <1>1, <1>2, <1>3, <1>4, <1>9, AheadStep DEF Left, Waiting
<1> QED BY <1>5, <1>6, <1>7, <1>8, <1>9 DEF Edge, InitState, FromIdle

\* DelayInv is kept.
LEMMA DelayStep ==
  ASSUME NEW sel, NEW request, Fsm(sel, request), RefreshTimer, FsmType, TimerType,
         initialized = TRUE <=> state \notin InitState, DelayInv
  PROVE  DelayInv'
<1>1. Edge
  BY EdgeStep
<1>2. /\ MaxRefreshDelay \in Nat /\ MaxRefreshDelay < REF_INTERVAL /\ REF_INTERVAL \in Nat
      /\ cnt \in Nat /\ ref_cnt \in Nat
  BY Times, CtrlAssumption DEF MaxRefreshDelay, FsmType, CtlType, TimerType
<1>3. CtlType' /\ state' \in State /\ cnt' \in Nat /\ (state' \in Waiting => cnt' <= Limit[state'])
  BY CtlStep, LimitType DEF FsmType, CtlType
<1>4. state' \in InitState => ref_req' = FALSE
  <2>1. state' \in InitState => initialized = FALSE
    BY <1>1, InitPath DEF FsmType, CtlType, InitState
  <2> QED BY <2>1 DEF RefreshTimer, refVars, DelayInv, FsmType, CtlType
<1>5. ref_req' = TRUE => ref_cnt' + Left' <= MaxRefreshDelay
  <2> SUFFICES ASSUME ref_req' = TRUE PROVE ref_cnt' + Left' <= MaxRefreshDelay
    OBVIOUS
  <2>1. initialized = TRUE /\ state \notin InitState /\ state # "S_REF_AR"
    BY DEF RefreshTimer, refVars, DelayInv, FsmType, CtlType
  <2>2. state' \in State \ InitState
    BY <1>1, <1>3, <2>1, InitPath DEF InitState
  <2>3. Ahead[state'] \in 0 .. MaxRefreshDelay /\ Left' \in Int /\ Left' <= Ahead[state']
    BY <1>2, <1>3, <2>2, AheadRange DEF Left
  <2>4. CASE ref_cnt' = 0
    <3>1. Left' <= MaxRefreshDelay
      BY <1>2, <2>3
    <3> QED BY <2>3, <2>4, <3>1
  <2>5. CASE ref_cnt' # 0
    <3>1. ref_cnt' = ref_cnt + 1 /\ ref_req = TRUE
      BY <2>1, <2>5 DEF RefreshTimer, TimerType
    <3>2. ref_cnt + Left <= MaxRefreshDelay
      BY <3>1 DEF DelayInv
    <3>3. state \in State \ InitState /\ Ahead[state] \in 0 .. MaxRefreshDelay
      BY <2>1, AheadRange DEF FsmType, CtlType
    <3>4. Left' + 1 <= Left
      <4>1. state = "S_IDLE" => state' = "S_REF_PRE"
        BY <1>1, <3>1, SuccessorType, OneClockDomain DEF Edge, Waiting
      <4> QED BY <1>1, <1>3, <2>1, <4>1, LeftStep DEF FsmType
    <3> QED BY <1>2, <2>3, <3>1, <3>2, <3>3, <3>4 DEF Left
  <2> QED BY <2>4, <2>5
<1> QED BY <1>4, <1>5 DEF DelayInv
-----------------------------------------------------------------------------
\* The states in which the controller believes no row open.
Shut == InitState \cup {"S_REF_PRE_W", "S_REF_AR", "S_REF_AR_W", "S_PRE_OLD_W", "S_ACT", "S_ACT_W"}

\* The open rows as the registers tell them.
Believed ==
  IF state = "S_ACT_W" THEN Only(lat.addr.ba, lat.addr.row)
  ELSE IF row_open = TRUE THEN Only(open_ba, open_row) ELSE NoneOpen

RowInv ==
  /\ initialized = TRUE <=> state \notin InitState
  /\ state \in Shut => row_open = FALSE
  /\ state \notin {"S_INIT_WAIT", "S_INIT_PRE"} => Opened(bus) = Believed
  /\ state \in ReadState \cup WriteState
        => row_open = TRUE /\ open_ba = lat.addr.ba /\ open_row = lat.addr.row
  /\ bus.cmd = "ACT" => open = NoneOpen

\* The action of each state that changes the open row.
LEMMA StateAction ==
  ASSUME NEW sel, NEW request, Fsm(sel, request)
  PROVE  /\ state = "S_INIT_PRE" => InitPre
         /\ state = "S_INIT_LMR_W" => Wait \/ InitOver
         /\ state = "S_IDLE" => Idle(sel, request)
         /\ state = "S_REF_PRE" => RefPre
         /\ state = "S_PRE_OLD" => PreOld
         /\ state = "S_ACT" => Act
         /\ state = "S_ACT_W" => Wait \/ ActOver
<1> USE LimitType, SuccessorType, PassFrame DEF Waiting
<1>1. CASE PowerUp
  BY <1>1 DEF PowerUp, InitWait, InitPre, InitAr1, InitAr2, InitLmr, InitOver, InWait, Issue
<1>2. CASE Wait
  BY <1>2 DEF Wait, InWait
<1>3. CASE WaitOver
  BY <1>3 DEF WaitOver
<1>4. CASE Pass
  BY <1>4
<1>5. CASE Idle(sel, request)
  BY <1>5 DEF Idle
<1>6. CASE RowChange
  BY <1>6 DEF RowChange, RefPre, RefAr, PreOld, Act, ActOver, Issue
<1>7. CASE DoAccess
  BY <1>7 DEF DoAccess, RdCmd, RdCap0, RdCap1, WrCmd, Done
<1> QED BY <1>1, <1>2, <1>3, <1>4, <1>5, <1>6, <1>7 DEF Fsm

\* How the states in which no row is open follow one another.
LEMMA RowPath ==
  ASSUME Edge
  PROVE  /\ state' = "S_REF_PRE_W" => state \in {"S_REF_PRE", "S_REF_PRE_W"}
         /\ state' = "S_REF_AR" => state = "S_REF_PRE_W"
         /\ state' = "S_REF_AR_W" => state \in {"S_REF_AR", "S_REF_AR_W"}
         /\ state' = "S_PRE_OLD_W" => state \in {"S_PRE_OLD", "S_PRE_OLD_W"}
         /\ state' = "S_ACT" => state \in {"S_PRE_OLD_W", "S_IDLE"}
         /\ state' = "S_ACT_W" => state \in {"S_ACT", "S_ACT_W"}
         /\ state' \in ReadState \cup WriteState
               => state \in ReadState \cup WriteState \cup {"S_IDLE", "S_ACT_W"}
         /\ state = "S_INIT_WAIT" => state' \in {"S_INIT_WAIT", "S_INIT_PRE"}
<1> USE SuccessorType DEF Edge, Waiting, ReadState, WriteState
<1>1. CASE state \in DOMAIN OneClock /\ state' = OneClock[state]
  BY <1>1, OneClockDomain DEF OneClock
<1>2. CASE state \in DOMAIN Successor /\ state' = Successor[state]
  BY <1>2 DEF Successor
<1>3. CASE ~(state \in DOMAIN OneClock /\ state' = OneClock[state])
           /\ ~(state \in DOMAIN Successor /\ state' = Successor[state])
  BY <1>3 DEF FromIdle
<1> QED BY <1>1, <1>2, <1>3

\* RowInv is kept.
LEMMA RowStep ==
  ASSUME NEW sel, NEW request \in Access, Fsm(sel, request), ChipStep(bus, dq_out), FsmType,
         ChipTypeOK, BusInv, RowInv
  PROVE  RowInv'
<1>1. bus'.cmd = CommandOf(state) /\ bus' \in Bus /\ Edge
  BY CommandStep, EdgeStep DEF FsmType
<1>2. open' = Opened(bus) /\ open \in [Bank -> Row \cup {Closed}] /\ open' \in [Bank -> Row \cup {Closed}]
  BY ChipStepType DEF ChipStep, ChipTypeOK
<1>3. initialized' = TRUE <=> state' \notin InitState
  <2>1. CASE state = "S_INIT_LMR_W"
    <3>1. \/ state' = state /\ initialized' = initialized
          \/ state' = "S_IDLE" /\ initialized' = TRUE
      BY <2>1, StateAction DEF Wait, InitOver, Goto
    <3> QED BY <2>1, <3>1 DEF RowInv, InitState
  <2>2. CASE state # "S_INIT_LMR_W"
    <3>1. initialized' = initialized
      BY <2>2, InitFrame DEF initVars, InitWait, InitOver
    <3>2. state' \in InitState <=> state \in InitState
      BY <1>1, <2>2, InitPath DEF InitState
    <3> QED BY <3>1, <3>2 DEF RowInv
  <2> QED BY <2>1, <2>2
<1>4. state' \in Shut => row_open' = FALSE
  <2> SUFFICES ASSUME state' \in Shut PROVE row_open' = FALSE
    OBVIOUS
  <2>1. CASE state \in {"S_REF_PRE", "S_PRE_OLD"}
    BY <2>1, StateAction DEF RefPre, PreOld
  <2>2. CASE state = "S_IDLE"
    <3>1. state' = "S_ACT"
      BY <1>1, <2>2, InitPath, RowPath DEF Shut, InitState
    <3>2. row_open' = row_open /\ row_open \in BOOLEAN
      BY <2>2, StateAction DEF Idle, rowVars, FsmType
    <3>3. ~row_open
      BY <2>2, <3>1, StateAction DEF Idle, Take, Goto, AccessState
    <3> QED BY <3>2, <3>3
  <2>3. CASE state \notin {"S_REF_PRE", "S_PRE_OLD", "S_IDLE"}
    <3>1. state \in Shut
      BY <1>1, <2>3, InitPath, RowPath DEF Shut, InitState
    <3>2. row_open = FALSE
      BY <3>1 DEF RowInv, Shut
    <3>3. CASE UNCHANGED rowVars \/ RefPre \/ PreOld
      BY <3>2, <3>3 DEF rowVars, RefPre, PreOld
    <3>4. CASE ActOver
      <4>1. state' \in {"S_WR_CMD0", "S_RD_CMD0"}
        BY <3>4 DEF ActOver, Goto, AccessState
      <4> QED BY <4>1 DEF Shut, InitState
    <3> QED BY <3>3, <3>4, RowFrame
  <2> QED BY <2>1, <2>2, <2>3
<1>5. state' \notin {"S_INIT_WAIT", "S_INIT_PRE"} => Opened(bus)' = Believed'
  <2> SUFFICES ASSUME state' \notin {"S_INIT_WAIT", "S_INIT_PRE"}
               PROVE  Opened(bus)' = Believed'
    OBVIOUS
  <2>1. CASE state \in {"S_INIT_PRE", "S_REF_PRE"}
    <3>1. PrechargeAll /\ state' \in {"S_INIT_PRE_W", "S_REF_PRE_W"}
      BY <2>1, StateAction DEF InitPre, RefPre, Issue, Goto
    <3>2. bus'.cmd = "PRE" /\ bus'.a10
      BY <3>1, PrechargeBus DEF FsmType
    <3>3. Opened(bus)' = NoneOpen
      BY <3>2 DEF Opened, NoneOpen
    <3> QED BY <1>4, <3>1, <3>3 DEF Believed, Shut, InitState
  <2>2. CASE state = "S_PRE_OLD"
    <3>1. PreOld /\ state' = "S_PRE_OLD_W"
      BY <2>2, StateAction DEF PreOld, Issue, Goto
    <3>2. bus'.cmd = "PRE" /\ bus'.ba = open_ba
      BY <3>1, PreOldBus DEF FsmType
    <3>3. open' = Only(open_ba, open_row) \/ open' = NoneOpen
      BY <1>2, <2>2 DEF RowInv, Believed
    <3>4. Opened(bus)' = NoneOpen
      BY <3>2, <3>3 DEF Opened, NoneOpen, Only
    <3> QED BY <1>4, <3>1, <3>4 DEF Believed, Shut
  <2>3. CASE state = "S_ACT"
    <3>1. Act /\ state' = "S_ACT_W" /\ lat' = lat
      BY <2>3, StateAction DEF Act, Issue, Goto, accessVars
    <3>2. bus'.cmd = "ACT" /\ bus'.ba = lat.addr.ba /\ bus'.row = lat.addr.row
      BY <3>1, ActBus DEF FsmType
    <3>3. open' = NoneOpen
      BY <1>2, <2>3 DEF RowInv, Believed, Shut
    <3>4. Opened(bus)' = Only(lat.addr.ba, lat.addr.row)
      BY <3>2, <3>3 DEF Opened, NoneOpen, Only
    <3> QED BY <3>1, <3>4 DEF Believed
  <2>4. CASE state = "S_ACT_W"
    <3>1. \/ state' = "S_ACT_W" /\ lat' = lat
          \/ /\ state' \in {"S_WR_CMD0", "S_RD_CMD0"}
             /\ row_open' = TRUE /\ open_ba' = lat.addr.ba /\ open_row' = lat.addr.row
      BY <2>4, StateAction DEF Wait, ActOver, InWait, Goto, AccessState, accessVars
    <3>2. Opened(bus)' = Opened(bus)
      BY <1>1, <1>2, <2>4 DEF Opened, CommandOf
    <3> QED BY <2>4, <3>1, <3>2 DEF RowInv, Believed
  <2>5. CASE state \notin {"S_INIT_PRE", "S_REF_PRE", "S_PRE_OLD", "S_ACT", "S_ACT_W"}
    <3>1. Opened(bus)' = Opened(bus)
      BY <1>1, <1>2, <2>5 DEF Opened, CommandOf
    <3>2. UNCHANGED rowVars
      BY <2>5, RowFrame, LimitType DEF RefPre, PreOld, ActOver, Issue
    <3>3. state' # "S_ACT_W" /\ state # "S_INIT_WAIT"
      BY <1>1, <2>5, RowPath
    <3> QED BY <2>5, <3>1, <3>2, <3>3 DEF RowInv, Believed, rowVars
  <2> QED BY <2>1, <2>2, <2>3, <2>4, <2>5
<1>6. state' \in ReadState \cup WriteState
        => row_open' = TRUE /\ open_ba' = lat'.addr.ba /\ open_row' = lat'.addr.row
  <2> SUFFICES ASSUME state' \in ReadState \cup WriteState
               PROVE  row_open' = TRUE /\ open_ba' = lat'.addr.ba /\ open_row' = lat'.addr.row
    OBVIOUS
  <2>1. CASE state = "S_ACT_W"
    <3>1. state' # "S_ACT_W"
      BY DEF ReadState, WriteState
    <3> QED BY <2>1, <3>1, StateAction DEF Wait, ActOver, InWait, accessVars
  <2>2. CASE state = "S_IDLE"
    <3>1. /\ row_open' = row_open /\ open_ba' = open_ba /\ open_row' = open_row
          /\ row_open \in BOOLEAN
      BY <2>2, StateAction DEF Idle, rowVars, FsmType
    <3>2. Hit(request.addr) /\ lat' = request
      BY <2>2, StateAction DEF Idle, Take, Goto, ReadState, WriteState
    <3> QED BY <3>1, <3>2 DEF Hit
  <2>3. CASE state \notin {"S_IDLE", "S_ACT_W"}
    <3>1. state \in ReadState \cup WriteState
      BY <1>1, <2>3, RowPath
    <3>2. UNCHANGED rowVars /\ UNCHANGED accessVars
      BY <3>1, RowFrame, AccessFrame
         DEF RefPre, PreOld, ActOver, Issue, Idle, ReadState, WriteState
    <3> QED BY <3>1, <3>2 DEF RowInv, rowVars, accessVars
  <2> QED BY <2>1, <2>2, <2>3
<1>7. bus'.cmd = "ACT" => open' = NoneOpen
  BY <1>1, <1>2 DEF CommandOf, RowInv, Believed, Shut
<1> QED BY <1>3, <1>4, <1>5, <1>6, <1>7 DEF RowInv, Shut
-----------------------------------------------------------------------------
Inv == TypeInv /\ BusInv /\ StartInv /\ HoldInv /\ CalmInv /\ PipeInv /\ DelayInv /\ RowInv

\* Inv holds initially,
LEMMA InvInit == Init => Inv
<1> SUFFICES ASSUME Init PROVE Inv
  OBVIOUS
<1>1. TypeInv
  BY InitType
<1>2. /\ state = "S_INIT_WAIT" /\ bus.cmd = "INHIBIT" /\ init_cnt = 0
      /\ dq_oe = FALSE /\ ref_req = FALSE /\ initialized = FALSE /\ row_open = FALSE
  BY DEF Init, CtrlInit, ResetBus
<1>3. BusInv
  BY <1>2 DEF BusInv
<1>4. StartInv
  BY <1>2 DEF StartInv, InitState
<1>5. HoldInv
  <2> SUFFICES ASSUME NEW c \in Paced PROVE Bounded(c)
    BY DEF HoldInv
  <2>1. hold[c] = 0 /\ Spacing[c] \in Nat /\ bus.cmd # c
    BY <1>2, SpacingType DEF Init, ChipInit
  <2> QED BY <2>1 DEF Bounded, Held, Less
<1>6. PipeInv
  BY <1>2 DEF PipeInv, Init, ChipInit
<1>9. CalmInv
  BY <1>2 DEF CalmInv, Needs
<1>7. DelayInv
  BY <1>2 DEF DelayInv
<1>8. RowInv
  BY <1>2 DEF RowInv, InitState, Shut, ReadState, WriteState
<1> QED BY <1>1, <1>3, <1>4, <1>5, <1>6, <1>7, <1>8, <1>9 DEF Inv

\* is kept by a clock,
LEMMA InvTick == Inv /\ Tick => Inv'
<1> SUFFICES ASSUME Inv, Tick PROVE Inv'
  OBVIOUS
<1>1. TypeInv'
  BY NextType DEF Inv, Next
<1>2. PICK sel : \E request \in Access : Fsm(sel, request)
  BY SystemAssumption
     DEF Tick, SdramClock, CtrlStep, OnBus, Access, Inv, TypeInv, MasterType
<1>3. PICK request \in Access : Fsm(sel, request)
  BY <1>2
<1>4. ChipStep(bus, dq_out) /\ RefreshTimer
  BY DEF Tick, SdramClock, CtrlStep
<1> USE DEF Inv, TypeInv
<1>5. BusInv'
  BY <1>3, BusStep
<1>6. StartInv'
  BY <1>3, <1>4, StartStep
<1>7. HoldInv'
  BY <1>3, <1>4, HoldStep
<1>8. PipeInv'
  BY <1>3, <1>4, PipeStep
<1>9. DelayInv'
  BY <1>3, <1>4, DelayStep DEF RowInv
<1>10. RowInv'
  BY <1>3, <1>4, RowStep
<1>11. CalmInv'
  BY <1>3, <1>4, CalmStep
<1> QED BY <1>1, <1>5, <1>6, <1>7, <1>8, <1>9, <1>10, <1>11

\* by the reset button,
LEMMA InvReset == Inv /\ Reset => Inv'
<1> SUFFICES ASSUME Inv, Reset PROVE Inv'
  OBVIOUS
<1>1. TypeInv'
  BY NextType DEF Inv, Next
<1>2. /\ state' = "S_INIT_WAIT" /\ bus'.cmd = "INHIBIT" /\ init_cnt' = 0
      /\ dq_oe' = FALSE /\ ref_req' = FALSE /\ initialized' = FALSE /\ row_open' = FALSE
      /\ hold' = hold
  BY DEF Reset, CtrlReset, ResetBus, chipVars
<1>3. BusInv'
  BY <1>2 DEF BusInv
<1>4. StartInv'
  BY <1>2 DEF StartInv, InitState
<1>5. HoldInv'
  <2> SUFFICES ASSUME NEW c \in Paced PROVE Bounded(c)'
    BY DEF HoldInv
  <2>1. hold'[c] = hold[c] /\ hold[c] <= Spacing[c] /\ bus'.cmd # c
    BY <1>2, SpacingType DEF Inv, HoldInv, Bounded
  <2>2. hold[c] \in Nat /\ Spacing[c] \in Nat
    BY SpacingType DEF Inv, TypeInv, ChipTypeOK
  <2> QED BY <1>2, <2>1, <2>2 DEF Bounded, Held, Less
<1>6. PipeInv'
  BY <1>2 DEF PipeInv
<1>9. CalmInv'
  BY <1>2 DEF CalmInv, Needs
<1>7. DelayInv'
  BY <1>2 DEF DelayInv
<1>8. RowInv'
  BY <1>2 DEF RowInv, InitState, Shut, ReadState, WriteState
<1> QED BY <1>1, <1>3, <1>4, <1>5, <1>6, <1>7, <1>8, <1>9 DEF Inv

\* and by a stutter.
LEMMA InvStutter == Inv /\ UNCHANGED vars => Inv'
<1> SUFFICES ASSUME Inv, UNCHANGED vars PROVE Inv'
  OBVIOUS
<1>1. TypeInv'
  BY NextType DEF Inv
<1>2. UNCHANGED <<open, pipe, hold, refreshes, moded, state, cnt, init_cnt, initialized, ref_cnt,
                  ref_req, lat, row_open, open_ba, open_row, bus, dq_oe>>
  BY DEF vars, chipVars, ctrlVars, fsmVars, refVars
<1>3. (BusInv /\ StartInv)'
  BY <1>2 DEF Inv, BusInv, StartInv
<1>4. (HoldInv /\ CalmInv /\ PipeInv)'
  BY <1>2 DEF Inv, HoldInv, Bounded, Held, CalmInv, PipeInv
<1>5. (DelayInv /\ RowInv)'
  BY <1>2 DEF Inv, DelayInv, Left, RowInv, Opened, Believed
<1> QED BY <1>1, <1>3, <1>4, <1>5 DEF Inv

\* The seven parts hold in every reachable state.
THEOREM InvCorrect == Spec => []Inv
<1>1. Inv /\ [Next]_vars => Inv'
  BY InvTick, InvReset, InvStutter DEF Next
<1> QED BY <1>1, InvInit, PTL DEF Spec

\* The row registers describe the chip.
LEMMA InvRows == Inv => RowTracking
  BY DEF Inv, RowInv, RowTracking, Believed, InitState, TypeInv, FsmType, CtlType

\* The distance to the next refresh is not negative.
LEMMA LeftNat == Inv /\ state \notin InitState => Left >= 0 /\ Left \in Int
<1> SUFFICES ASSUME Inv, state \notin InitState PROVE Left >= 0 /\ Left \in Int
  OBVIOUS
<1>1. /\ state \in State \ InitState /\ cnt \in Nat
      /\ state \in Waiting => cnt <= Limit[state] /\ Limit[state] \in Nat
  BY LimitType DEF Inv, TypeInv, FsmType, CtlType
<1>2. Ahead[state] \in 0 .. MaxRefreshDelay /\ MaxRefreshDelay \in Nat
  BY <1>1, AheadRange, Times DEF MaxRefreshDelay
<1>3. state \in Waiting => Limit[state] <= Ahead[state]
  <2> SUFFICES ASSUME state \in Waiting \ InitState PROVE Limit[state] <= Ahead[state]
    BY <1>1
  <2> QED BY Times DEF Waiting, InitState, Limit, Ahead
<1> QED BY <1>1, <1>2, <1>3 DEF Left

\* So the delay is bounded.
LEMMA InvDelay == Inv => RefreshDelay
<1> SUFFICES ASSUME Inv, ref_req = TRUE PROVE ref_cnt <= MaxRefreshDelay
  BY DEF RefreshDelay, Inv, TypeInv, TimerType
<1>1. Left >= 0 /\ Left \in Int
  BY LeftNat DEF Inv, DelayInv
<1>2. ref_cnt + Left <= MaxRefreshDelay /\ ref_cnt \in Nat /\ MaxRefreshDelay \in Nat
  BY Times DEF Inv, DelayInv, TypeInv, TimerType, MaxRefreshDelay
<1> QED BY <1>1, <1>2

\* What is open in the chip when each command reaches it.
LEMMA InvOpen ==
  ASSUME Inv
  PROVE  /\ bus.cmd = "ACT" => open = NoneOpen
         /\ bus.cmd \in {"READ", "WRITE"} => open[bus.ba] # Closed
         /\ bus.cmd \in {"REF", "LMR"} => open = NoneOpen
         /\ bus.ba \in Bank
<1>1. bus.ba \in Bank /\ open_ba \in Bank /\ open_row \in Row /\ lat \in Access
  BY DEF Inv, TypeInv, FsmType, Bus
<1>2. bus.cmd = "ACT" => open = NoneOpen
  BY DEF Inv, RowInv
<1>3. bus.cmd \in {"READ", "WRITE"} => open[bus.ba] # Closed
  <2> SUFFICES ASSUME bus.cmd \in {"READ", "WRITE"} PROVE open[bus.ba] # Closed
    OBVIOUS
  <2>1. state \in ReadState \cup WriteState /\ state # "S_ACT_W" /\ state \notin InitState
    BY DEF Inv, BusInv, ReadState, WriteState, InitState
  <2>2. row_open = TRUE /\ open_ba = bus.ba
    BY <2>1 DEF Inv, BusInv, RowInv
  <2>3. open = Only(open_ba, open_row)
    BY <2>1, <2>2 DEF Inv, RowInv, Opened, Believed, InitState
  <2> QED BY <1>1, <2>2, <2>3, ChipAssumption DEF Only
<1>4. bus.cmd \in {"REF", "LMR"} => open = NoneOpen
  BY DEF Inv, BusInv, RowInv, Opened, Believed, Shut, InitState
<1> QED BY <1>1, <1>2, <1>3, <1>4

\* No read is in flight when a WRITE reaches the chip.
LEMMA InvPipe ==
  ASSUME Inv, bus.cmd = "WRITE"
  PROVE  ~ReadInFlight
<1>1. pipe[1] = HiZ /\ pipe[2] = HiZ /\ pipe[3] = HiZ
  BY DEF Inv, BusInv, PipeInv, Reading
<1>2. DOMAIN pipe = 1 .. 3
  BY DEF Inv, TypeInv, ChipTypeOK
<1> QED BY <1>1, <1>2 DEF ReadInFlight

\* Every command is one the chip accepts.
LEMMA InvLegal == Inv => BusLegal
<1> SUFFICES ASSUME Inv PROVE LegalCommand(bus)
  BY DEF BusLegal
<1>1. open = NoneOpen => AllClosed /\ open[bus.ba] = Closed
  BY InvOpen DEF NoneOpen, AllClosed
<1>2. \A c \in Paced : bus.cmd \in DOMAIN Needs /\ c \in Needs[bus.cmd] => Settled(c)
  BY DEF Inv, CalmInv, Settled
<1>3. CASE bus.cmd = "ACT"
  <2>1. moded
    BY <1>3 DEF Inv, BusInv, StartInv, InitState
  <2> QED BY <1>1, <1>2, <1>3, <2>1, InvOpen, SpacingType DEF LegalCommand, Needs
<1>4. CASE bus.cmd = "READ"
  BY <1>2, <1>4, InvOpen, SpacingType DEF LegalCommand, Needs
<1>5. CASE bus.cmd = "WRITE"
  BY <1>2, <1>5, InvOpen, InvPipe, SpacingType DEF LegalCommand, Needs
<1>6. CASE bus.cmd = "PRE"
  BY <1>2, <1>6, SpacingType DEF LegalCommand, Needs
<1>7. CASE bus.cmd = "REF"
  BY <1>1, <1>2, <1>7, InvOpen, SpacingType DEF LegalCommand, Needs
<1>8. CASE bus.cmd = "LMR"
  <2>1. refreshes = 2
    BY <1>8 DEF Inv, BusInv, StartInv, TypeInv, ChipTypeOK
  <2> QED BY <1>1, <1>2, <1>8, <2>1, InvOpen, SpacingType DEF LegalCommand, Needs
<1>9. CASE bus.cmd \in {"INHIBIT", "NOP"}
  BY <1>9 DEF LegalCommand
<1> QED BY <1>3, <1>4, <1>5, <1>6, <1>7, <1>8, <1>9
        DEF Inv, TypeInv, FsmType, Bus, CommandName

\* DQ has one driver.
LEMMA InvDq == Inv => DqOwnership
  BY InvPipe DEF Inv, BusInv, DqOwnership, TypeInv, FsmType

\* BusLegal: the controller never sends a command the chip cannot take (the FSM of rtl/sdram_ctrl.v).
THEOREM BusIsLegal == Spec => []BusLegal
  BY InvCorrect, InvLegal, PTL

\* RowTracking: row_open, open_ba and open_row describe the chip, so a page hit reaches the row it means.
THEOREM RowsTracked == Spec => []RowTracking
  BY InvCorrect, InvRows, PTL

\* DqOwnership: dq_oe is up exactly for a WRITE, with no read data on its way.
THEOREM DqOwned == Spec => []DqOwnership
  BY InvCorrect, InvDq, PTL

\* RefreshDelay: a due refresh is served within MaxRefreshDelay clocks.
THEOREM RefreshInTime == Spec => []RefreshDelay
  BY InvCorrect, InvDelay, PTL

-----------------------------------------------------------------------------
(***************************************************************************)
(* Bridge, controller and chip as the bus master sees them, for every      *)
(* geometry, timing and set of requests.  No request made after the        *)
(* power-up expires, whatever expired before it; and for a master that     *)
(* waits for the power-up to end, the path is one atomic memory.           *)
(*                                                                         *)
(* For the first: how bridge and FSM stand to each other (BridgeInv), how  *)
(* soon a refresh can follow on another (AgainInv), and that the time      *)
(* waited and the time that the answer is still away fit in                *)
(* MaxAnswerDelay (TimeInv).  For the second: whose access the FSM is at   *)
(* (OwnInv), and which half of the word under access is on the bus, in the *)
(* chip's pipeline or captured (PathInv).                                  *)
(***************************************************************************)

-----------------------------------------------------------------------------
(***************************************************************************)
(* The time to an answer.                                                  *)
(***************************************************************************)
\* The states that work on an access.
Serving == OpenState \cup ReadState \cup WriteState \cup {"S_DONE", "S_DONE_W"}

\* From S_IDLE through a refresh back to it, and from there to the answer when no row is open.
RefreshTime == TRP + TRC + 5
OpenTime == 1 + Ahead["S_ACT"] - Ahead["S_IDLE"]

\* Clocks until a refresh under way is back in S_IDLE, and whether it will find another due.
ToIdle ==
    IF state = "S_REF_PRE" THEN TRP + TRC + 4
    ELSE IF state = "S_REF_PRE_W" THEN TRP + TRC + 3 - cnt
    ELSE IF state = "S_REF_AR" THEN TRC + 2
    ELSE TRC + 1 - cnt
Again == ref_cnt + ToIdle > REF_INTERVAL \/ (state = "S_REF_AR_W" /\ ref_req = TRUE)

\* Clocks until the request on the bus is acknowledged, at the most.
Remaining ==
    IF state \in RefreshState THEN ToIdle + OpenTime + (IF Again THEN RefreshTime ELSE 0)
    ELSE IF state # "S_IDLE" THEN Left - Ahead["S_IDLE"]
    ELSE IF ref_req = TRUE THEN RefreshTime + OpenTime
    ELSE IF pending = FALSE THEN 1 + RefreshTime + OpenTime
    ELSE IF row_open = TRUE THEN 1 + Ahead["S_PRE_OLD"] - Ahead["S_IDLE"]
    ELSE OpenTime

\* Bridge, master and FSM.
BridgeInv ==
    /\ state \in Serving => pending = TRUE
    /\ ready = TRUE <=> state = "S_DONE_W"
    /\ xbus_stb = TRUE => xbus_cyc = TRUE
    /\ xbus_cyc = TRUE /\ xbus_ack = FALSE => xbus_stb = TRUE \/ pending = TRUE
    /\ xbus_cyc = TRUE /\ early = FALSE => initialized = TRUE

\* A request finds a refresh due in S_IDLE only shortly after it was raised.
AgainInv ==
    /\ state = "S_REF_AR_W" /\ ref_req = TRUE => ref_cnt < cnt
    /\ state = "S_IDLE" /\ ref_req = TRUE /\ xbus_cyc = TRUE /\ xbus_ack = FALSE => ref_cnt <= TRC

TimeInv ==
    xbus_cyc = TRUE /\ xbus_ack = FALSE /\ early = FALSE => waited + Remaining <= MaxAnswerDelay

AnswerInv == Inv /\ BridgeInv /\ AgainInv /\ TimeInv

\* The times as numbers.
LEMMA AnswerTimes ==
    /\ Ahead["S_IDLE"] = TRP + 3
    /\ Ahead["S_PRE_OLD"] = Ahead["S_ACT"] + TRP + 2
    /\ Ahead["S_ACT"] = 2 * TRP + TRCD + (IF TWR > 5 THEN 10 + TWR ELSE 15)
    /\ OpenTime = TRP + TRCD + (IF TWR > 5 THEN 8 + TWR ELSE 13)
    /\ MaxAnswerDelay = 2 * RefreshTime - 1 + OpenTime
    /\ OpenTime \in Nat /\ RefreshTime \in Nat /\ MaxAnswerDelay \in Nat
    /\ XBUS_TIMEOUT \in Nat /\ MaxAnswerDelay <= XBUS_TIMEOUT
    /\ REF_INTERVAL \in Nat /\ TRC + RefreshTime <= REF_INTERVAL
<1>1. /\ Ahead["S_IDLE"] = TRP + 3
      /\ Ahead["S_PRE_OLD"] = Ahead["S_ACT"] + TRP + 2
      /\ Ahead["S_ACT"] = 2 * TRP + TRCD + (IF TWR > 5 THEN 10 + TWR ELSE 15)
  BY Times DEF Ahead
<1>2. OpenTime = TRP + TRCD + (IF TWR > 5 THEN 8 + TWR ELSE 13)
  BY <1>1, Times DEF OpenTime
<1>3. /\ MaxAnswerDelay = 2 * RefreshTime - 1 + OpenTime
      /\ OpenTime \in Nat /\ RefreshTime \in Nat /\ MaxAnswerDelay \in Nat
  BY <1>2, Times DEF MaxAnswerDelay, RefreshTime
<1>4. XBUS_TIMEOUT \in Nat /\ MaxAnswerDelay <= XBUS_TIMEOUT /\ TRP + 2 * TRC + 4 < REF_INTERVAL
  BY SystemAssumption
<1>5. REF_INTERVAL \in Nat
  BY CtrlAssumption
<1>6. TRC + RefreshTime <= REF_INTERVAL
  BY <1>4, <1>5, Times DEF RefreshTime
<1> QED BY <1>1, <1>2, <1>3, <1>4, <1>5, <1>6

\* A clock of the whole path.
LEMMA Clock ==
    ASSUME Inv, Tick
    PROVE  /\ Fsm(pending, OnBus) /\ RefreshTimer /\ ChipStep(bus, dq_out) /\ Bridge /\ Master
           /\ OnBus \in Access /\ Edge /\ TypeInv /\ TypeInv'
           /\ initialized = TRUE <=> state \notin InitState
           /\ state \in State /\ cnt \in Nat /\ ref_cnt \in Nat
           /\ state \in Waiting => cnt <= Limit[state]
<1>1. Fsm(pending, OnBus) /\ RefreshTimer /\ ChipStep(bus, dq_out) /\ Bridge /\ Master
  BY DEF Tick, SdramClock, CtrlStep
<1>2. OnBus \in Access
  BY SystemAssumption DEF OnBus, Access, Inv, TypeInv, MasterType
<1>3. TypeInv /\ TypeInv' /\ (initialized = TRUE <=> state \notin InitState)
  BY InvTick DEF Inv, RowInv
<1>4. state \in State /\ cnt \in Nat /\ ref_cnt \in Nat /\ (state \in Waiting => cnt <= Limit[state])
  BY <1>3, LimitType DEF TypeInv, FsmType, CtlType, TimerType
<1> QED BY <1>1, <1>2, <1>3, <1>4, EdgeStep

\* What leads to the states that work on an access, and out of S_IDLE.
LEMMA ServePath ==
    ASSUME Edge
    PROVE  /\ state' \in Serving => state \in (Serving \ {"S_DONE_W"}) \cup {"S_IDLE"}
           /\ state' = "S_DONE_W" <=> state = "S_DONE"
           /\ state' = "S_IDLE" => state \in {"S_IDLE", "S_DONE_W", "S_REF_AR_W", "S_INIT_LMR_W"}
           /\ state' = "S_REF_AR_W" => state = "S_REF_AR" \/ (state = "S_REF_AR_W" /\ cnt' = cnt + 1)
           /\ state = "S_DONE_W" => state' = "S_IDLE"
           /\ state \in Serving \ {"S_DONE_W"} => state' \in Serving
           /\ state \in InitState /\ state # "S_INIT_LMR_W" => state' \in InitState
           /\ state \in RefreshState => state' \in RefreshState \cup {"S_IDLE"}
<1> USE SuccessorType DEF Edge, Waiting, Serving, OpenState, ReadState, WriteState, InitState, RefreshState
<1>1. CASE state \in DOMAIN OneClock /\ state' = OneClock[state]
  BY <1>1, OneClockDomain DEF OneClock
<1>2. CASE state \in DOMAIN Successor /\ state' = Successor[state]
  BY <1>2 DEF Successor
<1>3. CASE ~(state \in DOMAIN OneClock /\ state' = OneClock[state])
           /\ ~(state \in DOMAIN Successor /\ state' = Successor[state])
  BY <1>3, OneClockDomain DEF FromIdle
<1> QED BY <1>1, <1>2, <1>3

\* What S_IDLE does with the request.
LEMMA IdleStep ==
    ASSUME Inv, Tick, state = "S_IDLE"
    PROVE  /\ UNCHANGED rowVars
           /\ ref_req = TRUE => state' = "S_REF_PRE" /\ UNCHANGED accessVars
           /\ ref_req = FALSE /\ pending = FALSE => state' = "S_IDLE" /\ UNCHANGED accessVars
           /\ ref_req = FALSE /\ pending = TRUE =>
                 /\ lat' = OnBus /\ is_write' = (xbus.wstrb # {})
                 /\ state' = IF Hit(xbus.addr) THEN AccessState(xbus.wstrb # {})
                             ELSE IF row_open THEN "S_PRE_OLD" ELSE "S_ACT"
<1>1. Idle(pending, OnBus)
  BY Clock, StateAction
<1>2. ref_req \in BOOLEAN /\ pending \in BOOLEAN
  BY DEF Inv, TypeInv, TimerType, BridgeType
<1> QED BY <1>1, <1>2 DEF Idle, Goto, Take, OnBus

\* A request on the bus that is not yet answered is with the controller by the next clock.
LEMMA Heard ==
    ASSUME Inv, BridgeInv, Tick, xbus_cyc = TRUE, xbus_ack = FALSE, xbus_ack' = FALSE
    PROVE  pending' = TRUE
<1>1. xbus_stb = TRUE \/ pending = TRUE
  BY DEF BridgeInv
<1>2. pending \in BOOLEAN /\ xbus_stb \in BOOLEAN /\ xbus_cyc \in BOOLEAN /\ ready \in BOOLEAN
  BY DEF Inv, TypeInv, BridgeType, MasterType, FsmType
<1>3. ~Completed /\ ~Unmapped
  BY <1>2, Clock DEF Bridge, Completed, Unmapped, NewRequest
<1>4. pending' = (pending \/ (NewRequest /\ xbus.in_sdram))
  BY <1>3, Clock DEF Bridge
<1>5. pending \/ (NewRequest /\ xbus.in_sdram)
  BY <1>1, <1>2, <1>3 DEF NewRequest, Unmapped
<1> QED BY <1>4, <1>5

LEMMA BridgeKept ==
    ASSUME Inv, BridgeInv, Tick
    PROVE  BridgeInv'
<1>1. /\ pending \in BOOLEAN /\ xbus_stb \in BOOLEAN /\ xbus_cyc \in BOOLEAN /\ ready \in BOOLEAN
      /\ early \in BOOLEAN /\ initialized \in BOOLEAN /\ xbus_ack \in BOOLEAN
      /\ xbus_ack' \in BOOLEAN /\ pending' \in BOOLEAN /\ ref_req \in BOOLEAN
  BY Clock DEF TypeInv, BridgeType, MasterType, FsmType, CtlType, TimerType
<1>2. state' \in Serving => pending' = TRUE
  <2> SUFFICES ASSUME state' \in Serving PROVE pending' = TRUE
    OBVIOUS
  <2>1. state \in (Serving \ {"S_DONE_W"}) \cup {"S_IDLE"}
    BY Clock, ServePath
  <2>2. pending = TRUE
    <3>1. CASE state = "S_IDLE"
      BY <3>1, <1>1, IdleStep DEF Serving, OpenState, ReadState, WriteState
    <3> QED BY <2>1, <3>1 DEF BridgeInv
  <2>3. ~Completed
    BY <1>1, <2>1 DEF Completed, BridgeInv
  <2>4. pending' = (pending \/ (NewRequest /\ xbus.in_sdram))
    BY <2>3, Clock DEF Bridge
  <2> QED BY <2>2, <2>4
<1>3. ready' = TRUE <=> state' = "S_DONE_W"
  BY Clock, ReadyStep, ServePath
<1>4. xbus_stb' = TRUE => xbus_cyc' = TRUE
  BY <1>1, Clock DEF Master, Rest, Ask, Finish, Expire, Await, masterVars, BridgeInv
<1>5. xbus_cyc' = TRUE /\ xbus_ack' = FALSE => xbus_stb' = TRUE \/ pending' = TRUE
  <2> SUFFICES ASSUME xbus_cyc' = TRUE, xbus_ack' = FALSE PROVE xbus_stb' = TRUE \/ pending' = TRUE
    OBVIOUS
  <2>1. CASE Await
    BY <2>1, <1>1, Heard DEF Await
  <2>2. CASE \E q \in Requests : Ask(q)
    BY <2>2 DEF Ask
  <2>3. CASE Rest \/ Finish \/ Expire
    BY <2>3, <1>1 DEF Rest, Finish, Expire, masterVars
  <2> QED BY <2>1, <2>2, <2>3, Clock DEF Master
<1>6. xbus_cyc' = TRUE /\ early' = FALSE => initialized' = TRUE
  <2>1. initialized = TRUE => initialized' = TRUE
    BY Clock, InitFrame DEF initVars, InitWait, InitOver
  <2>2. xbus_cyc' = TRUE /\ early' = FALSE => initialized = TRUE
    BY <1>1, Clock DEF Master, Rest, Ask, Finish, Expire, Await, masterVars, BridgeInv
  <2> QED BY <2>1, <2>2
<1> QED BY <1>2, <1>3, <1>4, <1>5, <1>6 DEF BridgeInv

LEMMA AgainKept ==
    ASSUME Inv, BridgeInv, AgainInv, Tick
    PROVE  AgainInv'
<1>1. /\ cnt \in Nat /\ cnt' \in Nat /\ ref_cnt \in Nat /\ ref_cnt' \in Nat /\ REF_INTERVAL \in Nat
      /\ ref_req \in BOOLEAN /\ ref_req' \in BOOLEAN /\ pending \in BOOLEAN /\ ready \in BOOLEAN
      /\ initialized \in BOOLEAN
  BY Clock, AnswerTimes DEF TypeInv, TimerType, BridgeType, FsmType, CtlType
<1>2. initialized = TRUE =>
         /\ ref_cnt' \in {0, ref_cnt + 1}
         /\ ref_cnt' # 0 => ref_cnt' = ref_cnt + 1 /\ (ref_req' = TRUE => ref_req = TRUE)
         /\ state = "S_REF_AR" => ref_req' = FALSE
  BY <1>1, Clock DEF RefreshTimer
<1>3. initialized = FALSE => ref_req' = FALSE
  BY <1>1, Clock DEF RefreshTimer, refVars, Inv, DelayInv
<1>4. state' = "S_REF_AR_W" /\ ref_req' = TRUE => ref_cnt' < cnt'
  <2> SUFFICES ASSUME state' = "S_REF_AR_W", ref_req' = TRUE PROVE ref_cnt' < cnt'
    OBVIOUS
  <2>1. state = "S_REF_AR_W" /\ cnt' = cnt + 1
    BY <1>2, <1>3, <1>1, Clock, ServePath
  <2> QED BY <1>1, <1>2, <1>3, <2>1 DEF AgainInv
<1>5. state' = "S_IDLE" /\ ref_req' = TRUE /\ xbus_cyc' = TRUE /\ xbus_ack' = FALSE => ref_cnt' <= TRC
  <2> SUFFICES ASSUME state' = "S_IDLE", ref_req' = TRUE, xbus_ack' = FALSE PROVE ref_cnt' <= TRC
    OBVIOUS
  <2>1. initialized = TRUE /\ TRC \in Nat
    BY <1>1, <1>3, Times
  <2>2. state # "S_DONE_W"
    BY <1>1, Clock DEF BridgeInv, Bridge, Completed, Serving
  <2>3. state # "S_INIT_LMR_W"
    BY <2>1, Clock DEF InitState
  <2>4. CASE state = "S_IDLE"
    <3>1. ref_req = FALSE
      BY <1>1, <2>4, IdleStep
    <3> QED BY <1>1, <1>2, <2>1, <3>1
  <2>5. CASE state = "S_REF_AR_W"
    <3>1. cnt <= TRC
      BY <2>5, Clock DEF Waiting, Limit
    <3> QED BY <1>1, <1>2, <2>1, <2>5, <3>1 DEF AgainInv
  <2> QED BY <2>2, <2>3, <2>4, <2>5, Clock, ServePath
<1> QED BY <1>4, <1>5 DEF AgainInv

\* How far an access is from its answer.
LEMMA ServeRange ==
    ASSUME NEW s \in Serving
    PROVE  /\ Ahead[s] - Ahead["S_IDLE"] \in 1 .. MaxAnswerDelay
           /\ s \in Waiting => Ahead[s] - Limit[s] - Ahead["S_IDLE"] \in 1 .. MaxAnswerDelay
<1> USE DEF Serving, OpenState, ReadState, WriteState
<1>1. s \notin {"S_IDLE"}
  OBVIOUS
<1>2. Ahead[s] - Ahead["S_IDLE"] \in 1 .. MaxAnswerDelay
  BY Times DEF Ahead, MaxAnswerDelay
<1>3. s \in Waiting => Ahead[s] - Limit[s] - Ahead["S_IDLE"] \in 1 .. MaxAnswerDelay
  BY Times DEF Ahead, Limit, Waiting, MaxAnswerDelay
<1> QED BY <1>2, <1>3

\* The time to the answer is positive and within MaxAnswerDelay.
LEMMA RemainingRange ==
    Inv /\ state \notin InitState => Remaining \in 1 .. MaxAnswerDelay
<1> SUFFICES ASSUME Inv, state \notin InitState PROVE Remaining \in 1 .. MaxAnswerDelay
  OBVIOUS
<1>1. state \in State /\ cnt \in Nat /\ (state \in Waiting => cnt <= Limit[state])
  BY LimitType DEF Inv, TypeInv, FsmType, CtlType
<1>2. CASE state \in RefreshState
  <2>1. ToIdle \in 1 .. RefreshTime - 1
    BY <1>1, <1>2, Times DEF ToIdle, RefreshState, RefreshTime, Waiting, Limit
  <2> HIDE DEF Again, ToIdle
  <2> QED BY <1>2, <2>1, AnswerTimes DEF Remaining
<1>3. CASE state = "S_IDLE"
  <2>1. 1 + Ahead["S_PRE_OLD"] - Ahead["S_IDLE"] \in 1 .. MaxAnswerDelay
    BY AnswerTimes, Times DEF OpenTime, RefreshTime
  <2>2. OpenTime \in 1 .. MaxAnswerDelay /\ 1 + RefreshTime + OpenTime \in 1 .. MaxAnswerDelay
        /\ RefreshTime + OpenTime \in 1 .. MaxAnswerDelay
    BY AnswerTimes, Times DEF RefreshTime
  <2> QED BY <1>3, <2>1, <2>2 DEF Remaining, RefreshState
<1>4. CASE state \notin RefreshState \cup {"S_IDLE"}
  <2>1. state \in Serving
    BY <1>1, <1>4 DEF State, Serving
  <2>2. Ahead[state] - Ahead["S_IDLE"] \in 1 .. MaxAnswerDelay
        /\ (state \in Waiting => Ahead[state] - Limit[state] - Ahead["S_IDLE"] \in 1 .. MaxAnswerDelay)
    BY <2>1, ServeRange
  <2>3. Ahead["S_IDLE"] \in Int /\ MaxAnswerDelay \in Int
    BY AnswerTimes, Times
  <2>4. state \in Waiting => Limit[state] \in Nat
    BY LimitType
  <2>5. Ahead[state] \in Int
    BY <1>1, AheadRange, Times DEF MaxRefreshDelay
  <2>6. Left - Ahead["S_IDLE"] \in 1 .. MaxAnswerDelay
    BY <1>1, <2>2, <2>3, <2>4, <2>5 DEF Left
  <2> QED BY <1>4, <2>6 DEF Remaining
<1> QED BY <1>2, <1>3, <1>4

\* How a refresh goes on.
LEMMA RefreshPath ==
    ASSUME Edge
    PROVE  /\ state = "S_REF_PRE" => state' = "S_REF_PRE_W" /\ cnt' = 0
           /\ state = "S_REF_PRE_W" => \/ state' = "S_REF_PRE_W" /\ cnt' = cnt + 1
                                       \/ state' = "S_REF_AR" /\ cnt >= TRP
           /\ state = "S_REF_AR" => state' = "S_REF_AR_W" /\ cnt' = 0
           /\ state = "S_REF_AR_W" => \/ state' = "S_REF_AR_W" /\ cnt' = cnt + 1
                                      \/ state' = "S_IDLE" /\ cnt >= TRC
<1> USE SuccessorType, OneClockDomain DEF Edge, Waiting
<1>1. Limit["S_REF_PRE_W"] = TRP /\ Limit["S_REF_AR_W"] = TRC
  BY DEF Limit
<1>2. Successor["S_REF_PRE_W"] = "S_REF_AR" /\ Successor["S_REF_AR_W"] = "S_IDLE"
  BY DEF Successor
<1>3. CASE state \in {"S_REF_PRE", "S_REF_AR"}
  BY <1>3 DEF OneClock
<1>4. CASE state \in {"S_REF_PRE_W", "S_REF_AR_W"}
  BY <1>1, <1>2, <1>4
<1> QED BY <1>3, <1>4

\* What a clock does to the refresh timer.
LEMMA TimerClock ==
    ASSUME Inv, Tick, state \notin InitState
    PROVE  /\ ref_cnt' \in {0, ref_cnt + 1}
           /\ ref_req' = TRUE => ref_req = TRUE \/ ref_cnt >= REF_INTERVAL
           /\ state = "S_REF_AR" => ref_req' = FALSE
           /\ ref_req \in BOOLEAN /\ ref_req' \in BOOLEAN
<1>1. ref_req \in BOOLEAN /\ ref_req' \in BOOLEAN /\ initialized = TRUE
  BY Clock DEF TypeInv, TimerType
<1> QED BY <1>1, Clock DEF RefreshTimer

\* A clock of a refresh brings the answer nearer.
LEMMA RefreshStep ==
    ASSUME Inv, BridgeInv, Tick, state \in RefreshState,
           xbus_cyc = TRUE, xbus_ack = FALSE, xbus_ack' = FALSE
    PROVE  Remaining' + 1 <= Remaining
<1>1. /\ state \notin InitState /\ cnt \in Nat /\ cnt' \in Nat /\ ref_cnt \in Nat
      /\ TRP \in Nat /\ TRC \in Nat /\ REF_INTERVAL \in Nat
      /\ OpenTime \in Nat /\ RefreshTime \in Nat
      /\ TRC + TRP + TRC + 5 <= REF_INTERVAL
  BY Clock, Times, AnswerTimes DEF RefreshState, InitState, TypeInv, FsmType, CtlType, RefreshTime
<1>2. /\ state = "S_REF_PRE_W" => cnt <= TRP
      /\ state = "S_REF_AR_W" => cnt <= TRC
      /\ state' = "S_REF_PRE_W" => cnt' <= TRP
      /\ state' = "S_REF_AR_W" => cnt' <= TRC
  BY Clock DEF TypeInv, FsmType, CtlType, Waiting, Limit
<1>3. CASE state' \in RefreshState
  <2>1. /\ ToIdle \in Nat /\ ToIdle' \in 1 .. REF_INTERVAL /\ ToIdle' + 1 <= ToIdle
    <3>1. CASE state = "S_REF_PRE"
      BY <1>1, <3>1, Clock, RefreshPath DEF ToIdle
    <3>2. CASE state = "S_REF_PRE_W"
      <4>1. CASE state' = "S_REF_PRE_W" /\ cnt' = cnt + 1
        BY <1>1, <1>2, <3>2, <4>1 DEF ToIdle
      <4>2. CASE state' = "S_REF_AR" /\ cnt >= TRP
        BY <1>1, <1>2, <3>2, <4>2 DEF ToIdle
      <4> QED BY <3>2, <4>1, <4>2, Clock, RefreshPath
    <3>3. CASE state = "S_REF_AR"
      BY <1>1, <3>3, Clock, RefreshPath DEF ToIdle
    <3>4. CASE state = "S_REF_AR_W"
      <4>1. state' = "S_REF_AR_W" /\ cnt' = cnt + 1
        BY <1>3, <3>4, Clock, RefreshPath DEF RefreshState
      <4> QED BY <1>1, <1>2, <3>4, <4>1 DEF ToIdle
    <3> QED BY <3>1, <3>2, <3>3, <3>4 DEF RefreshState
  <2>2. Again' => Again
    <3>1. ref_cnt' \in {0, ref_cnt + 1}
      BY <1>1, TimerClock
    <3>2. ref_cnt' + ToIdle' > REF_INTERVAL => ref_cnt + ToIdle > REF_INTERVAL
      <4>1. PICK u \in Nat, v \in 1 .. REF_INTERVAL :
               u = ToIdle /\ v = ToIdle' /\ v + 1 <= u
        BY <2>1
      <4>2. PICK r \in {0, ref_cnt + 1} : r = ref_cnt'
        BY <3>1
      <4>3. v + 1 <= u
        BY <4>1
      <4>4. r + v > REF_INTERVAL => ref_cnt + u > REF_INTERVAL
        BY <1>1, <4>3
      <4> QED BY <4>1, <4>2, <4>4
    <3>3. state' = "S_REF_AR_W" /\ ref_req' = TRUE
             => state = "S_REF_AR_W" /\ (ref_req = TRUE \/ ref_cnt >= REF_INTERVAL)
      BY <1>1, TimerClock, Clock, ServePath
    <3>4. ref_cnt >= REF_INTERVAL => ref_cnt + ToIdle > REF_INTERVAL
      <4>1. ToIdle \in Nat \ {0}
        <5>1. PICK u \in Nat, v \in 1 .. REF_INTERVAL : u = ToIdle /\ v + 1 <= u
          BY <2>1
        <5> QED BY <5>1
      <4> QED BY <1>1, <4>1
    <3> QED BY <3>2, <3>3, <3>4 DEF Again
  <2>3. /\ Remaining = ToIdle + OpenTime + (IF Again THEN RefreshTime ELSE 0)
        /\ Remaining' = ToIdle' + OpenTime + (IF Again' THEN RefreshTime ELSE 0)
    BY <1>3 DEF Remaining
  <2>4. PICK u \in Nat, v \in 1 .. REF_INTERVAL : u = ToIdle /\ v = ToIdle' /\ v + 1 <= u
    BY <2>1
  <2>5. Remaining' = v + OpenTime + (IF Again' THEN RefreshTime ELSE 0)
    BY <2>3, <2>4
  <2>6. v + 1 <= u
    BY <2>4
  <2>7. CASE Again
    <3>1. Remaining = u + OpenTime + RefreshTime
      BY <2>3, <2>4, <2>7
    <3>2. Remaining' \in {v + OpenTime + RefreshTime, v + OpenTime + 0}
      BY <2>5
    <3>3. /\ (v + OpenTime + RefreshTime) + 1 <= u + OpenTime + RefreshTime
          /\ (v + OpenTime + 0) + 1 <= u + OpenTime + RefreshTime
      BY <1>1, <2>6
    <3> QED BY <3>1, <3>2, <3>3
  <2>8. CASE ~Again
    <3>1. Remaining = u + OpenTime + 0 /\ Remaining' = v + OpenTime + 0
      BY <2>2, <2>3, <2>4, <2>8
    <3>2. (v + OpenTime + 0) + 1 <= u + OpenTime + 0
      BY <1>1, <2>6
    <3> QED BY <3>1, <3>2
  <2> QED BY <2>7, <2>8
<1>4. CASE state = "S_REF_AR_W" /\ state' = "S_IDLE" /\ cnt >= TRC
  <2>1. ToIdle = 1
    BY <1>1, <1>2, <1>4 DEF ToIdle
  <2>2. ref_req' = TRUE => Again
    <3>1. ref_cnt >= REF_INTERVAL => ref_cnt + ToIdle > REF_INTERVAL
      BY <1>1, <2>1
    <3> QED BY <1>1, <1>4, <3>1, TimerClock DEF Again
  <2>3. row_open' = FALSE /\ pending' = TRUE
    <3>1. row_open = FALSE
      BY <1>4 DEF Inv, RowInv, Shut
    <3>2. row_open' = row_open
      BY <1>4, Clock, RowFrame DEF rowVars, RefPre, PreOld, ActOver, Issue
    <3> QED BY <3>1, <3>2, Heard
  <2>4. Remaining' = IF ref_req' = TRUE THEN RefreshTime + OpenTime ELSE OpenTime
    BY <1>4, <2>3 DEF Remaining, RefreshState
  <2>5. Remaining = 1 + OpenTime + (IF Again THEN RefreshTime ELSE 0)
    BY <1>4, <2>1 DEF Remaining, RefreshState
  <2> HIDE DEF Again
  <2> QED BY <1>1, <2>2, <2>4, <2>5
<1> QED BY <1>3, <1>4, Clock, RefreshPath DEF RefreshState

\* So does a clock of S_IDLE,
LEMMA DispatchStep ==
    ASSUME Inv, BridgeInv, AgainInv, Tick, state = "S_IDLE",
           xbus_cyc = TRUE, xbus_ack = FALSE, xbus_ack' = FALSE
    PROVE  Remaining' + 1 <= Remaining
<1>1. /\ state \notin InitState /\ ref_cnt \in Nat /\ OpenTime \in Nat /\ RefreshTime \in Nat
      /\ TRP \in Nat /\ TRC \in Nat /\ REF_INTERVAL \in Nat
      /\ RefreshTime = TRP + TRC + 5 /\ TRC + RefreshTime <= REF_INTERVAL
      /\ ref_req \in BOOLEAN /\ pending \in BOOLEAN /\ row_open \in BOOLEAN
  BY Clock, Times, AnswerTimes
     DEF InitState, RefreshTime, TypeInv, TimerType, BridgeType, FsmType
<1>2. CASE ref_req = TRUE
  <2>1. state' = "S_REF_PRE" /\ ToIdle' = TRP + TRC + 4
    BY <1>2, IdleStep DEF ToIdle
  <2>2. ref_cnt <= TRC
    BY <1>2 DEF AgainInv
  <2>3. ~Again'
    BY <1>1, <2>1, <2>2, TimerClock DEF Again
  <2>4. Remaining' = TRP + TRC + 4 + OpenTime
    BY <1>1, <2>1, <2>3 DEF Remaining, RefreshState
  <2>5. Remaining = RefreshTime + OpenTime
    BY <1>2 DEF Remaining, RefreshState
  <2> QED BY <1>1, <2>4, <2>5
<1>3. CASE ref_req = FALSE /\ pending = TRUE
  <2>1. Remaining' = Ahead[state'] - Ahead["S_IDLE"]
    BY <1>3, IdleStep DEF Remaining, RefreshState, Left, Waiting, AccessState
  <2>2. Ahead["S_RD_CMD0"] <= Ahead["S_PRE_OLD"] /\ Ahead["S_WR_CMD0"] <= Ahead["S_PRE_OLD"]
    BY Times DEF Ahead
  <2>3. /\ Ahead["S_RD_CMD0"] \in Nat /\ Ahead["S_WR_CMD0"] \in Nat /\ Ahead["S_PRE_OLD"] \in Nat
        /\ Ahead["S_ACT"] \in Nat /\ Ahead["S_IDLE"] \in Nat
    BY Times DEF Ahead
  <2>4. CASE row_open = TRUE
    <3>1. Ahead[state'] <= Ahead["S_PRE_OLD"] /\ Ahead[state'] \in Nat
      <4>1. state' \in {"S_RD_CMD0", "S_WR_CMD0", "S_PRE_OLD"}
        BY <1>3, <2>4, IdleStep DEF AccessState
      <4> QED BY <2>2, <2>3, <4>1
    <3>2. Remaining = 1 + Ahead["S_PRE_OLD"] - Ahead["S_IDLE"]
      BY <1>3, <2>4 DEF Remaining, RefreshState
    <3> QED BY <2>1, <2>3, <3>1, <3>2
  <2>5. CASE row_open = FALSE
    <3>1. state' = "S_ACT"
      BY <1>3, <2>5, IdleStep DEF Hit
    <3>2. Remaining = 1 + Ahead["S_ACT"] - Ahead["S_IDLE"]
      BY <1>3, <2>5 DEF Remaining, RefreshState, OpenTime
    <3> QED BY <2>1, <2>3, <3>1, <3>2
  <2> QED BY <1>1, <2>4, <2>5
<1>4. CASE ref_req = FALSE /\ pending = FALSE
  <2>1. state' = "S_IDLE" /\ pending' = TRUE
    BY <1>4, IdleStep, Heard
  <2>2. Remaining = 1 + RefreshTime + OpenTime
    BY <1>4 DEF Remaining, RefreshState
  <2>3. Remaining' \in {RefreshTime + OpenTime, 1 + Ahead["S_PRE_OLD"] - Ahead["S_IDLE"], OpenTime}
    BY <2>1 DEF Remaining, RefreshState
  <2>4. 1 + Ahead["S_PRE_OLD"] - Ahead["S_IDLE"] = OpenTime + TRP + 2
    BY Times, AnswerTimes DEF OpenTime
  <2>5. OpenTime + TRP + 2 < 1 + RefreshTime + OpenTime
    BY <1>1
  <2>6. PICK r \in {RefreshTime + OpenTime, OpenTime + TRP + 2, OpenTime} : r = Remaining'
    BY <2>3, <2>4
  <2>7. r + 1 <= 1 + RefreshTime + OpenTime
    BY <1>1, <2>5
  <2> QED BY <2>2, <2>6, <2>7
<1> QED BY <1>1, <1>2, <1>3, <1>4

\* and of every state that works on an access.
LEMMA WorkStep ==
    ASSUME Inv, BridgeInv, Tick, state \in Serving, xbus_ack' = FALSE
    PROVE  Remaining' + 1 <= Remaining
<1>1. state # "S_DONE_W"
  BY Clock DEF BridgeInv, Bridge, Completed
<1>2. state' \in Serving
  BY <1>1, Clock, ServePath
<1>3. /\ state \notin RefreshState \cup InitState \cup {"S_IDLE", "S_REF_AR"}
      /\ state' \notin RefreshState \cup InitState \cup {"S_IDLE"}
  BY <1>2 DEF Serving, OpenState, ReadState, WriteState, RefreshState, InitState
<1>4. Left' + 1 <= Left
  BY <1>3, Clock, LeftStep DEF TypeInv, FsmType
<1>5. Left \in Int /\ Left' \in Int
  <2>1. Inv' /\ (state \notin InitState)'
    BY <1>3, InvTick
  <2>2. (Left >= 0 /\ Left \in Int)'
    BY <2>1, LeftNat, PTL
  <2> QED BY <1>3, <2>2, LeftNat
<1>6. Remaining = Left - Ahead["S_IDLE"] /\ Remaining' = Left' - Ahead["S_IDLE"]
  BY <1>3 DEF Remaining
<1>7. Ahead["S_IDLE"] \in Int
  BY AnswerTimes, Times
<1>8. PICK l \in Int, m \in Int : l = Left /\ m = Left' /\ m + 1 <= l
  BY <1>4, <1>5
<1>9. Remaining = l - Ahead["S_IDLE"] /\ Remaining' = m - Ahead["S_IDLE"]
  BY <1>6, <1>8
<1>10. m + 1 <= l
  BY <1>8
<1>11. (m - Ahead["S_IDLE"]) + 1 <= l - Ahead["S_IDLE"]
  BY <1>7, <1>10
<1> QED BY <1>9, <1>11

\* A clock without an answer brings the answer nearer.
LEMMA RemainingStep ==
    ASSUME Inv, BridgeInv, AgainInv, Tick, state \notin InitState,
           xbus_cyc = TRUE, xbus_ack = FALSE, xbus_ack' = FALSE
    PROVE  Remaining' + 1 <= Remaining
<1>1. state \in Serving \cup RefreshState \cup {"S_IDLE"}
  BY Clock DEF State, Serving
<1> QED BY <1>1, WorkStep, RefreshStep, DispatchStep

LEMMA TimeKept ==
    ASSUME Inv, BridgeInv, AgainInv, TimeInv, Tick
    PROVE  TimeInv'
<1> SUFFICES ASSUME xbus_cyc' = TRUE, xbus_ack' = FALSE, early' = FALSE
             PROVE  waited' + Remaining' <= MaxAnswerDelay
  BY DEF TimeInv
<1>1. /\ xbus_cyc \in BOOLEAN /\ xbus_ack \in BOOLEAN /\ early \in BOOLEAN
      /\ initialized \in BOOLEAN /\ waited \in Nat
  BY SystemAssumption, Clock DEF TypeInv, BridgeType, MasterType, FsmType, CtlType
<1>2. Inv'
  BY InvTick
<1>3. MaxAnswerDelay \in Nat
  BY AnswerTimes
<1>4. CASE \E q \in Requests : Ask(q)
  <2>1. waited' = 0 /\ initialized = TRUE
    BY <1>1, <1>4 DEF Ask
  <2>2. (state \notin InitState)'
    BY <2>1, Clock, InitPath
  <2>3. (Remaining \in 1 .. MaxAnswerDelay)'
    BY <1>2, <2>2, RemainingRange, PTL
  <2>4. PICK r \in 1 .. MaxAnswerDelay : r = Remaining'
    BY <2>3
  <2>5. 0 + r <= MaxAnswerDelay
    BY <1>3
  <2> QED BY <2>1, <2>4, <2>5
<1>5. CASE Await
  <2>1. /\ xbus_cyc = TRUE /\ xbus_ack = FALSE /\ early = FALSE /\ waited' = waited + 1
    BY <1>1, <1>5 DEF Await
  <2>2. state \notin InitState
    BY <2>1, Clock DEF BridgeInv
  <2>3. (state \notin InitState)'
    BY <2>2, Clock, InitPath
  <2>4. (Remaining \in 1 .. MaxAnswerDelay)'
    BY <1>2, <2>3, RemainingRange, PTL
  <2>5. Remaining \in 1 .. MaxAnswerDelay
    BY <2>2, RemainingRange
  <2>6. waited + Remaining <= MaxAnswerDelay /\ Remaining' + 1 <= Remaining
    BY <2>1, <2>2, RemainingStep DEF TimeInv
  <2>7. PICK r \in 1 .. MaxAnswerDelay, n \in 1 .. MaxAnswerDelay :
           r = Remaining /\ n = Remaining' /\ n + 1 <= r /\ waited + r <= MaxAnswerDelay
    BY <2>4, <2>5, <2>6
  <2>8. n + 1 <= r /\ waited + r <= MaxAnswerDelay
    BY <2>7
  <2>9. (waited + 1) + n <= MaxAnswerDelay
    BY <1>1, <1>3, <2>8
  <2> QED BY <2>1, <2>7, <2>9
<1>6. CASE Rest \/ Finish \/ Expire
  BY <1>1, <1>6 DEF Rest, Finish, Expire, masterVars
<1> QED BY <1>4, <1>5, <1>6, Clock DEF Master

\* AnswerInv holds at power-up,
LEMMA AnswerInit == Init => AnswerInv
<1> SUFFICES ASSUME Init PROVE AnswerInv
  OBVIOUS
<1>1. state = "S_INIT_WAIT" /\ ready = FALSE /\ xbus_cyc = FALSE /\ xbus_stb = FALSE
  BY DEF Init, CtrlInit, MasterInit
<1>2. state \notin Serving
  BY <1>1 DEF Serving, OpenState, ReadState, WriteState
<1> QED BY <1>1, <1>2, InvInit DEF AnswerInv, BridgeInv, AgainInv, TimeInv

\* and no step breaks it.
LEMMA AnswerNext == AnswerInv /\ [Next]_vars => AnswerInv'
<1> SUFFICES ASSUME AnswerInv, [Next]_vars PROVE AnswerInv'
  OBVIOUS
<1>1. CASE Tick
  BY <1>1, InvTick, BridgeKept, AgainKept, TimeKept DEF AnswerInv
<1>2. CASE Reset
  <2>1. /\ state' = "S_INIT_WAIT" /\ ready' = FALSE /\ xbus_cyc' = FALSE /\ xbus_stb' = FALSE
    BY <1>2 DEF Reset, CtrlReset
  <2>2. state' \notin Serving
    BY <2>1 DEF Serving, OpenState, ReadState, WriteState
  <2>3. (BridgeInv /\ AgainInv /\ TimeInv)'
    BY <2>1, <2>2 DEF BridgeInv, AgainInv, TimeInv
  <2> QED BY <1>2, <2>3, InvReset DEF AnswerInv
<1>3. CASE UNCHANGED vars
  <2>1. UNCHANGED <<state, cnt, ready, ref_cnt, ref_req, row_open, initialized, pending, xbus_ack,
                    xbus_stb, xbus_cyc, waited, early>>
    BY <1>3 DEF vars, ctrlVars, fsmVars, refVars, bridgeVars, masterVars
  <2>2. Remaining' = Remaining
    BY <2>1 DEF Remaining, ToIdle, Again, Left
  <2>3. (BridgeInv /\ AgainInv)'
    BY <2>1 DEF AnswerInv, BridgeInv, AgainInv
  <2>4. TimeInv'
    BY <2>1, <2>2 DEF AnswerInv, TimeInv
  <2> QED BY <1>3, <2>3, <2>4, InvStutter DEF AnswerInv
<1> QED BY <1>1, <1>2, <1>3 DEF Next

\* AnswerInv: bridge, FSM and refresh timer keep the time to every answer within MaxAnswerDelay.
THEOREM AnswerCorrect == Spec => []AnswerInv
  BY AnswerInit, AnswerNext, PTL DEF Spec

\* An unanswered request made after the power-up has not reached the timeout.
LEMMA InTime == AnswerInv /\ [Next]_vars => [Expire => early]_vars
<1> SUFFICES ASSUME AnswerInv, Expire, early = FALSE PROVE FALSE
  BY DEF AnswerInv, Inv, TypeInv, MasterType
<1>1. xbus_cyc = TRUE /\ xbus_ack = FALSE /\ waited >= XBUS_TIMEOUT /\ waited \in Nat
  BY SystemAssumption DEF Expire, AnswerInv, Inv, TypeInv, BridgeType, MasterType
<1>2. state \notin InitState
  BY <1>1 DEF AnswerInv, BridgeInv, Inv, RowInv
<1>3. Remaining \in 1 .. MaxAnswerDelay /\ waited + Remaining <= MaxAnswerDelay
  BY <1>1, <1>2, RemainingRange DEF AnswerInv, TimeInv
<1>4. PICK r \in 1 .. MaxAnswerDelay : waited + r <= MaxAnswerDelay
  BY <1>3
<1> QED BY <1>1, <1>4, AnswerTimes

\* NoLateTimeout: the master's timeout never races an answer once the part is up.
THEOREM NeverLate == Spec => NoLateTimeout
<1>1. AnswerInv /\ [Next]_vars => [Expire => early]_vars
  BY InTime
<1> QED BY <1>1, AnswerCorrect, PTL DEF Spec, NoLateTimeout

-----------------------------------------------------------------------------
(***************************************************************************)
(* The access on its way, for a master that waits for the power-up.        *)
(***************************************************************************)
\* How the states of an access follow one another.
LEMMA AccessPath ==
    ASSUME Edge
    PROVE  /\ state' = "S_RD_NOP1" => state = "S_RD_CMD0"
           /\ state' = "S_RD_CMD1" => state = "S_RD_NOP1"
           /\ state' = "S_RD_WAIT" => state = "S_RD_CMD1"
           /\ state' = "S_RD_CAP0" => state = "S_RD_WAIT"
           /\ state' = "S_RD_GAP" => state = "S_RD_CAP0"
           /\ state' = "S_RD_CAP1" => state = "S_RD_GAP"
           /\ state' = "S_RD_PRE_W" => state \in {"S_RD_CAP1", "S_RD_PRE_W"}
           /\ state' = "S_WR_CMD1" <=> state = "S_WR_CMD0"
           /\ state' = "S_WR_REC" => state \in {"S_WR_CMD1", "S_WR_REC"}
           /\ state' = "S_DONE" => state \in {"S_RD_PRE_W", "S_WR_REC"}
           /\ state' = "S_DONE_W" <=> state = "S_DONE"
           /\ state' \in {"S_RD_CMD0", "S_WR_CMD0"} => state \in {"S_IDLE", "S_ACT_W"}
           /\ state = "S_WR_CMD1" => state' = "S_WR_REC"
           /\ state = "S_WR_REC" => state' \in {"S_WR_REC", "S_DONE"}
<1> USE SuccessorType DEF Edge, Waiting
<1>1. CASE state \in DOMAIN OneClock /\ state' = OneClock[state]
  BY <1>1, OneClockDomain DEF OneClock
<1>2. CASE state \in DOMAIN Successor /\ state' = Successor[state]
  BY <1>2 DEF Successor
<1>3. CASE ~(state \in DOMAIN OneClock /\ state' = OneClock[state])
           /\ ~(state \in DOMAIN Successor /\ state' = Successor[state])
  BY <1>3, OneClockDomain DEF FromIdle
<1> QED BY <1>1, <1>2, <1>3

\* The action of each state that moves the data of an access.
LEMMA AccessAction ==
    ASSUME NEW sel, NEW request, Fsm(sel, request)
    PROVE  /\ state = "S_RD_CMD0" => RdCmd("S_RD_CMD0", "S_RD_NOP1", 0)
           /\ state = "S_RD_CMD1" => RdCmd("S_RD_CMD1", "S_RD_WAIT", 1)
           /\ state = "S_RD_CAP0" => RdCap0
           /\ state = "S_RD_CAP1" => RdCap1
           /\ state = "S_WR_CMD0" => WrCmd("S_WR_CMD0", "S_WR_CMD1", 0)
           /\ state = "S_WR_CMD1" => WrCmd("S_WR_CMD1", "S_WR_REC", 1)
<1> USE LimitType, PassFrame DEF Waiting
<1>1. CASE PowerUp
  BY <1>1 DEF PowerUp, InitWait, InitPre, InitAr1, InitAr2, InitLmr, InitOver, InWait, Issue
<1>2. CASE Wait \/ WaitOver
  BY <1>2 DEF Wait, WaitOver, InWait
<1>3. CASE Pass \/ Idle(sel, request)
  BY <1>3 DEF Idle
<1>4. CASE RowChange
  BY <1>4 DEF RowChange, RefPre, RefAr, PreOld, Act, ActOver, Issue
<1>5. CASE DoAccess
  BY <1>5 DEF DoAccess, RdCmd, RdCap0, RdCap1, WrCmd, Done
<1> QED BY <1>1, <1>2, <1>3, <1>4, <1>5 DEF Fsm

\* Whose access the FSM is at: the one whose request is still on the bus, and never an early one.
OwnInv ==
    /\ early = FALSE
    /\ pending = TRUE \/ xbus_ack = TRUE => xbus_cyc = TRUE
    /\ pending = TRUE => xbus_stb = FALSE /\ xbus_ack = FALSE /\ xbus.in_sdram = TRUE
    /\ xbus_stb = TRUE => xbus_ack = FALSE
    /\ state \in Serving => lat = OnBus /\ (is_write = TRUE <=> xbus.wstrb # {})
    /\ state \in ReadState => is_write = FALSE
    /\ state \in WriteState => is_write = TRUE

\* A master that waits for the power-up never sees its request expire.
LEMMA NoExpiry ==
    ASSUME AnswerInv, OwnInv, [Next]_vars
    PROVE  ~Expire
<1>1. AnswerInv /\ [Next]_vars => [Expire => early]_vars
  BY InTime
<1> QED BY <1>1 DEF OwnInv, Expire, vars, masterVars, AnswerInv, Inv, TypeInv, MasterType

\* A clock leaves a request that the controller holds on the bus as it is.
LEMMA HeldRequest ==
    ASSUME AnswerInv, OwnInv, Tick, pending = TRUE
    PROVE  /\ xbus_cyc = TRUE /\ Await /\ OnBus' = OnBus /\ xbus' = xbus
           /\ xbus_ack' = (ready = TRUE) /\ pending' = (ready = FALSE) /\ xbus_stb' = FALSE
<1>1. /\ xbus_cyc \in BOOLEAN /\ xbus_ack \in BOOLEAN /\ ready \in BOOLEAN /\ pending \in BOOLEAN
      /\ xbus_stb \in BOOLEAN
  BY DEF AnswerInv, Inv, TypeInv, BridgeType, MasterType, FsmType
<1>2. xbus_cyc = TRUE /\ xbus_ack = FALSE
  BY <1>1 DEF OwnInv
<1>3. Await
  BY <1>2, NoExpiry, Clock DEF Master, Rest, Ask, Finish, Next, AnswerInv
<1>4. ~NewRequest
  BY DEF NewRequest
<1>5. xbus_ack' = (ready = TRUE) /\ pending' = (ready = FALSE)
  BY <1>1, <1>4, Clock DEF Bridge, Completed, Unmapped, AnswerInv
<1> QED BY <1>2, <1>3, <1>5 DEF Await, OnBus

\* While it is at an access, the FSM keeps what it latched.
LEMMA LatchKept ==
    ASSUME AnswerInv, Tick, state # "S_IDLE"
    PROVE  lat' = lat /\ is_write' = is_write
  BY Clock, AccessFrame DEF AnswerInv, Idle, accessVars

\* Where an access may come from.
LEMMA OwnAccess ==
    ASSUME AnswerInv, OwnInv, Tick, state' \in Serving
    PROVE  /\ pending = TRUE
           /\ lat' = OnBus' /\ (is_write' = TRUE <=> xbus'.wstrb # {})
           /\ state' \in ReadState => is_write' = FALSE
           /\ state' \in WriteState => is_write' = TRUE
<1>1. state \in (Serving \ {"S_DONE_W"}) \cup {"S_IDLE"} /\ Edge
  BY Clock, ServePath DEF AnswerInv
<1>2. ref_req \in BOOLEAN /\ pending \in BOOLEAN /\ is_write \in BOOLEAN
  BY DEF AnswerInv, Inv, TypeInv, TimerType, BridgeType, FsmType
<1>3. CASE state = "S_IDLE"
  <2>1. pending = TRUE /\ ref_req = FALSE
    BY <1>2, <1>3, IdleStep DEF AnswerInv, Serving, OpenState, ReadState, WriteState
  <2>2. lat' = OnBus /\ is_write' = (xbus.wstrb # {})
    BY <1>3, <2>1, IdleStep DEF AnswerInv
  <2>3. state' \in {AccessState(xbus.wstrb # {}), "S_PRE_OLD", "S_ACT"}
    BY <1>3, <2>1, IdleStep DEF AnswerInv
  <2>4. OnBus' = OnBus /\ xbus' = xbus
    BY <2>1, HeldRequest
  <2> QED BY <2>1, <2>2, <2>3, <2>4 DEF AccessState, ReadState, WriteState
<1>4. CASE state # "S_IDLE"
  <2>1. state \in Serving /\ pending = TRUE
    BY <1>1, <1>4 DEF AnswerInv, BridgeInv
  <2>2. lat' = lat /\ is_write' = is_write
    BY <1>4, LatchKept
  <2>3. OnBus' = OnBus /\ xbus' = xbus
    BY <2>1, HeldRequest
  <2>4. lat' = OnBus' /\ (is_write' = TRUE <=> xbus'.wstrb # {})
    BY <2>1, <2>2, <2>3 DEF OwnInv
  <2>5. state' \in ReadState \cup WriteState => state \in ReadState \cup WriteState \cup {"S_ACT_W"}
    BY <1>1, <1>4, RowPath
  <2>6. CASE state = "S_ACT_W"
    <3>1. state' = "S_ACT_W" \/ state' = AccessState(is_write)
      BY <2>6, Clock, StateAction DEF AnswerInv, Wait, ActOver, Goto
    <3> QED BY <1>2, <2>1, <2>2, <2>4, <3>1 DEF AccessState, ReadState, WriteState
  <2>7. CASE state # "S_ACT_W"
    <3>1. /\ state' \in ReadState => state \in ReadState
          /\ state' \in WriteState => state \in WriteState
      BY <1>1, <1>4, <2>7, AccessPath DEF ReadState, WriteState
    <3> QED BY <2>1, <2>2, <2>4, <3>1 DEF OwnInv
  <2> QED BY <2>6, <2>7
<1> QED BY <1>3, <1>4

\* OwnInv is kept by a clock.
LEMMA OwnKept ==
    ASSUME AnswerInv, OwnInv, Tick, EarlyAccess = FALSE
    PROVE  OwnInv'
<1>1. /\ xbus_cyc \in BOOLEAN /\ xbus_ack \in BOOLEAN /\ ready \in BOOLEAN /\ pending \in BOOLEAN
      /\ xbus_stb \in BOOLEAN /\ initialized \in BOOLEAN /\ early \in BOOLEAN
      /\ xbus.in_sdram \in BOOLEAN
  BY SystemAssumption DEF AnswerInv, Inv, TypeInv, BridgeType, MasterType, FsmType, CtlType
<1>2. Rest \/ (\E q \in Requests : Ask(q)) \/ Finish \/ Await
  BY NoExpiry, Clock DEF Master, Next, AnswerInv
<1>3. /\ pending' = IF Completed THEN FALSE ELSE pending \/ (NewRequest /\ xbus.in_sdram)
      /\ xbus_ack' = (Completed \/ Unmapped)
  BY Clock DEF AnswerInv, Bridge
<1>4. early' = FALSE
  BY <1>1, <1>2 DEF OwnInv, Rest, Ask, Finish, Await, masterVars
<1>5. CASE pending = TRUE
  <2>1. /\ xbus_cyc = TRUE /\ Await /\ xbus' = xbus
        /\ xbus_ack' = (ready = TRUE) /\ pending' = (ready = FALSE) /\ xbus_stb' = FALSE
    BY <1>5, HeldRequest
  <2>2. /\ state' \in Serving => lat' = OnBus' /\ (is_write' = TRUE <=> xbus'.wstrb # {})
        /\ state' \in ReadState => is_write' = FALSE
        /\ state' \in WriteState => is_write' = TRUE
    BY OwnAccess DEF Serving
  <2>3. xbus_cyc' = TRUE /\ xbus'.in_sdram = TRUE
    BY <1>5, <2>1 DEF OwnInv, Await
  <2> QED BY <1>1, <1>4, <2>1, <2>2, <2>3 DEF OwnInv
<1>6. CASE pending = FALSE
  <2>1. state' \notin Serving
    BY <1>6, OwnAccess
  <2>2. state' \notin ReadState \cup WriteState
    BY <2>1 DEF Serving
  <2>3. ~Completed
    BY <1>6 DEF Completed
  <2>4. CASE NewRequest
    <3>1. xbus_cyc = TRUE /\ xbus_stb = TRUE /\ xbus_ack = FALSE
      BY <1>1, <2>4 DEF NewRequest, OwnInv
    <3>2. Await
      BY <1>2, <3>1 DEF Rest, Ask, Finish
    <3> QED BY <1>1, <1>3, <1>4, <1>6, <2>1, <2>2, <2>3, <2>4, <3>1, <3>2
            DEF OwnInv, Await, Unmapped
  <2>5. CASE ~NewRequest
    <3>1. pending' = FALSE /\ xbus_ack' = FALSE
      BY <1>3, <1>6, <2>3, <2>5 DEF Unmapped
    <3> QED BY <1>4, <2>1, <2>2, <3>1 DEF OwnInv
  <2> QED BY <2>4, <2>5
<1> QED BY <1>1, <1>5, <1>6

\* The halves of the word under access, and a command for one of them on the bus.
Asked(h) == HalfOf(cells[lat.addr], h)
Strobed(h) == {i \in Pair : LaneOf(h, i) \in lat.wstrb}
OnPins(c, h) == bus.cmd = c /\ bus.col = lat.addr.col /\ bus.half = h
WriteOnPins(h) == OnPins("WRITE", h) /\ bus.lanes = Strobed(h) /\ dq_out = HalfOf(lat.wdata, h)

\* Where the two halves are in each state of an access.
PathInv ==
    /\ state = "S_RD_NOP1" => OnPins("READ", 0)
    /\ state = "S_RD_CMD1" => pipe[3] = Asked(0)
    /\ state = "S_RD_WAIT" => pipe[2] = Asked(0) /\ OnPins("READ", 1)
    /\ state = "S_RD_CAP0" => pipe[1] = Asked(0) /\ pipe[3] = Asked(1)
    /\ state = "S_RD_GAP" => data_lo = Asked(0) /\ pipe[2] = Asked(1)
    /\ state = "S_RD_CAP1" => data_lo = Asked(0) /\ pipe[1] = Asked(1)
    /\ state = "S_RD_PRE_W" \/ (state \in {"S_DONE", "S_DONE_W"} /\ is_write = FALSE)
          => rdata = <<Asked(0), Asked(1)>>
    /\ state = "S_WR_CMD1" => WriteOnPins(0)
    /\ state = "S_WR_REC" /\ bus.cmd = "WRITE" => WriteOnPins(1)

\* A command for the word under access reaches the cell of its address.
LEMMA PinsReach ==
    ASSUME Inv, NEW c \in {"READ", "WRITE"}, NEW h, OnPins(c, h)
    PROVE  At(bus) = lat.addr /\ open[bus.ba] # Closed /\ lat.addr \in Address
<1>1. bus.ba = lat.addr.ba /\ state \in ReadState \cup WriteState /\ state \notin InitState
  BY DEF OnPins, Inv, BusInv, ReadState, WriteState, InitState
<1>2. row_open = TRUE /\ open_ba = lat.addr.ba /\ open_row = lat.addr.row
  BY <1>1 DEF Inv, RowInv
<1>3. open = Only(open_ba, open_row)
  BY <1>1, <1>2 DEF OnPins, Inv, RowInv, Opened, Believed, ReadState, WriteState, InitState
<1>4. lat.addr \in Address
  BY DEF Inv, TypeInv, FsmType, Access
<1>5. open[bus.ba] = lat.addr.row /\ lat.addr.row \in Row
  BY <1>1, <1>2, <1>3, <1>4 DEF Only, Address
<1>6. At(bus) = lat.addr
  BY <1>1, <1>4, <1>5 DEF At, OnPins, Address
<1> QED BY <1>4, <1>5, <1>6, ChipAssumption

\* A READ of a half fetches it.
LEMMA FetchHalf ==
    ASSUME Inv, NEW h, OnPins("READ", h)
    PROVE  Fetched(bus) = Asked(h)
  BY PinsReach DEF Fetched, OnPins, Asked

\* PathInv is kept by a clock.
LEMMA PathKept ==
    ASSUME AnswerInv, OwnInv, PathInv, Tick
    PROVE  PathInv'
<1>1. /\ Fsm(pending, OnBus) /\ Edge /\ lat \in Access /\ bus \in Bus /\ open_ba \in Bank
      /\ is_write \in BOOLEAN
  BY Clock DEF AnswerInv, TypeInv, FsmType
<1>2. pipe'[1] = pipe[2] /\ pipe'[2] = pipe[3] /\ pipe'[3] = Fetched(bus)
  BY Clock DEF AnswerInv, ChipStep
<1>3. cells' = Stored(bus, dq_out)
  BY Clock DEF AnswerInv, ChipStep
<1>4. state # "S_IDLE" /\ bus.cmd # "WRITE" => \A h \in Half : Asked(h)' = Asked(h)
  BY <1>3, LatchKept DEF Stored, Asked
<1>5. 0 \in Half /\ 1 \in Half
  BY DEF Half
<1>6. bus.cmd = "WRITE" => state \in {"S_WR_CMD1", "S_WR_REC"}
  BY DEF AnswerInv, Inv, BusInv
<1>7. state' = "S_RD_NOP1" => OnPins("READ", 0)'
  <2> SUFFICES ASSUME state' = "S_RD_NOP1" PROVE OnPins("READ", 0)'
    OBVIOUS
  <2>1. RdCmd("S_RD_CMD0", "S_RD_NOP1", 0)
    BY <1>1, AccessPath, AccessAction
  <2> QED BY <1>1, <2>1 DEF RdCmd, Column, Bus, OnPins, accessVars
<1>8. state' = "S_RD_CMD1" => pipe'[3] = Asked(0)'
  <2> SUFFICES ASSUME state' = "S_RD_CMD1" PROVE pipe'[3] = Asked(0)'
    OBVIOUS
  <2>1. state = "S_RD_NOP1"
    BY <1>1, AccessPath
  <2>2. Fetched(bus) = Asked(0)
    BY <2>1, FetchHalf DEF AnswerInv, PathInv
  <2> QED BY <1>2, <1>4, <1>5, <1>6, <2>1, <2>2
<1>9. state' = "S_RD_WAIT" => pipe'[2] = Asked(0)' /\ OnPins("READ", 1)'
  <2> SUFFICES ASSUME state' = "S_RD_WAIT" PROVE pipe'[2] = Asked(0)' /\ OnPins("READ", 1)'
    OBVIOUS
  <2>1. state = "S_RD_CMD1"
    BY <1>1, AccessPath
  <2>2. RdCmd("S_RD_CMD1", "S_RD_WAIT", 1)
    BY <1>1, <2>1, AccessAction
  <2>3. OnPins("READ", 1)'
    BY <1>1, <2>2 DEF RdCmd, Column, Bus, OnPins, accessVars
  <2> QED BY <1>2, <1>4, <1>5, <1>6, <2>1, <2>3 DEF PathInv
<1>10. state' = "S_RD_CAP0" => pipe'[1] = Asked(0)' /\ pipe'[3] = Asked(1)'
  <2> SUFFICES ASSUME state' = "S_RD_CAP0" PROVE pipe'[1] = Asked(0)' /\ pipe'[3] = Asked(1)'
    OBVIOUS
  <2>1. state = "S_RD_WAIT"
    BY <1>1, AccessPath
  <2>2. Fetched(bus) = Asked(1)
    BY <2>1, FetchHalf DEF AnswerInv, PathInv
  <2> QED BY <1>2, <1>4, <1>5, <1>6, <2>1, <2>2 DEF PathInv
<1>11. state' = "S_RD_GAP" => data_lo' = Asked(0)' /\ pipe'[2] = Asked(1)'
  <2> SUFFICES ASSUME state' = "S_RD_GAP" PROVE data_lo' = Asked(0)' /\ pipe'[2] = Asked(1)'
    OBVIOUS
  <2>1. state = "S_RD_CAP0"
    BY <1>1, AccessPath
  <2>2. data_lo' = pipe[1]
    BY <1>1, <2>1, AccessAction DEF RdCap0, sdram_dq
  <2> QED BY <1>2, <1>4, <1>5, <1>6, <2>1, <2>2 DEF PathInv
<1>12. state' = "S_RD_CAP1" => data_lo' = Asked(0)' /\ pipe'[1] = Asked(1)'
  <2> SUFFICES ASSUME state' = "S_RD_CAP1" PROVE data_lo' = Asked(0)' /\ pipe'[1] = Asked(1)'
    OBVIOUS
  <2>1. state = "S_RD_GAP"
    BY <1>1, AccessPath
  <2>2. data_lo' = data_lo
    BY <1>1, <2>1, DataFrame DEF dataVars, RdCap0, RdCap1
  <2> QED BY <1>2, <1>4, <1>5, <1>6, <2>1, <2>2 DEF PathInv
<1>13. state' = "S_RD_PRE_W" \/ (state' \in {"S_DONE", "S_DONE_W"} /\ is_write' = FALSE)
          => rdata' = <<Asked(0)', Asked(1)'>>
  <2> SUFFICES ASSUME state' = "S_RD_PRE_W" \/ (state' \in {"S_DONE", "S_DONE_W"} /\ is_write' = FALSE)
               PROVE  rdata' = <<Asked(0)', Asked(1)'>>
    OBVIOUS
  <2>1. state \in {"S_RD_CAP1", "S_RD_PRE_W", "S_WR_REC", "S_DONE"}
    BY <1>1, AccessPath
  <2>2. is_write' = is_write
    BY <2>1, LatchKept
  <2>3. state # "S_WR_REC"
    <3>1. state' # "S_RD_PRE_W" \/ state # "S_WR_REC"
      BY <1>1, AccessPath
    <3> QED BY <1>1, <2>2, <3>1 DEF OwnInv, WriteState
  <2>4. bus.cmd # "WRITE" /\ state # "S_IDLE"
    BY <1>6, <2>1, <2>3
  <2>5. CASE state = "S_RD_CAP1"
    <3>1. rdata' = <<data_lo, pipe[1]>>
      BY <1>1, <2>5, AccessAction DEF RdCap1, sdram_dq
    <3> QED BY <1>4, <1>5, <2>4, <2>5, <3>1 DEF PathInv
  <2>6. CASE state \in {"S_RD_PRE_W", "S_DONE"}
    <3>1. rdata' = rdata
      BY <1>1, <2>6, DataFrame DEF dataVars, RdCap0, RdCap1
    <3>2. state = "S_DONE" => is_write = FALSE
      <4>1. state = "S_DONE" => state' = "S_DONE_W"
        BY <1>1, AccessPath
      <4> QED BY <2>2, <4>1
    <3> QED BY <1>4, <1>5, <2>4, <2>6, <3>1, <3>2 DEF PathInv
  <2> QED BY <2>1, <2>3, <2>5, <2>6
<1>14. state' = "S_WR_CMD1" => WriteOnPins(0)'
  <2> SUFFICES ASSUME state' = "S_WR_CMD1" PROVE WriteOnPins(0)'
    OBVIOUS
  <2>1. WrCmd("S_WR_CMD0", "S_WR_CMD1", 0)
    BY <1>1, AccessPath, AccessAction
  <2> QED BY <1>1, <2>1 DEF WrCmd, Column, Bus, OnPins, WriteOnPins, Strobed, accessVars
<1>15. state' = "S_WR_REC" /\ bus'.cmd = "WRITE" => WriteOnPins(1)'
  <2> SUFFICES ASSUME state' = "S_WR_REC", bus'.cmd = "WRITE" PROVE WriteOnPins(1)'
    OBVIOUS
  <2>1. state = "S_WR_CMD1"
    BY <1>1, AccessPath, CommandStep DEF CommandOf
  <2>2. WrCmd("S_WR_CMD1", "S_WR_REC", 1)
    BY <1>1, <2>1, AccessAction
  <2> QED BY <1>1, <2>2 DEF WrCmd, Column, Bus, OnPins, WriteOnPins, Strobed, accessVars
<1> QED BY <1>7, <1>8, <1>9, <1>10, <1>11, <1>12, <1>13, <1>14, <1>15 DEF PathInv

-----------------------------------------------------------------------------
(***************************************************************************)
(* The refinement, step by step.                                           *)
(***************************************************************************)
Given(q, w) == [l \in Lane |-> IF l \in q.wstrb THEN q.wdata[l] ELSE w[l]]

\* The two halves of a word make the word,
LEMMA AssembleHalves ==
    ASSUME NEW w \in Word
    PROVE  Assemble(<<HalfOf(w, 0), HalfOf(w, 1)>>) = w
<1> DEFINE d == <<HalfOf(w, 0), HalfOf(w, 1)>>
<1>1. ASSUME NEW l \in Lane PROVE d[1 + l \div 2][l % 2] = w[l]
  <2>1. CASE l = 0
    BY <2>1 DEF HalfOf, LaneOf, Pair
  <2>2. CASE l = 1
    BY <2>2 DEF HalfOf, LaneOf, Pair
  <2>3. CASE l = 2
    BY <2>3 DEF HalfOf, LaneOf, Pair
  <2>4. CASE l = 3
    BY <2>4 DEF HalfOf, LaneOf, Pair
  <2> QED BY <2>1, <2>2, <2>3, <2>4 DEF Lane
<1> HIDE DEF d
<1>2. Assemble(d) = [l \in Lane |-> w[l]]
  BY <1>1 DEF Assemble
<1>3. Assemble(d) = w
  BY <1>2 DEF Word
<1> QED BY <1>3 DEF d

\* and two halves stored lane by lane make the word given.
LEMMA MergeHalves ==
    ASSUME NEW w \in Word, NEW q \in Access
    PROVE  Merge(Merge(w, 0, HalfOf(q.wdata, 0), {i \in Pair : LaneOf(0, i) \in q.wstrb}),
                 1, HalfOf(q.wdata, 1), {i \in Pair : LaneOf(1, i) \in q.wstrb}) = Given(q, w)
<1> DEFINE lanes(h) == {i \in Pair : LaneOf(h, i) \in q.wstrb}
           low == Merge(w, 0, HalfOf(q.wdata, 0), lanes(0))
           both == Merge(low, 1, HalfOf(q.wdata, 1), lanes(1))
<1>1. ASSUME NEW l \in Lane PROVE both[l] = Given(q, w)[l]
  <2>1. low[l] = IF l \in Pair /\ l \in q.wstrb THEN q.wdata[l] ELSE w[l]
    <3>1. low[l] = IF l - 0 \in lanes(0) THEN HalfOf(q.wdata, 0)[l - 0] ELSE w[l]
      BY DEF Merge, LaneOf
    <3>2. l - 0 = l /\ (l \in lanes(0) <=> l \in Pair /\ l \in q.wstrb)
      BY DEF Lane, LaneOf, Pair
    <3>3. l \in Pair => HalfOf(q.wdata, 0)[l] = q.wdata[l]
      BY DEF HalfOf, LaneOf, Pair
    <3> QED BY <3>1, <3>2, <3>3
  <2>2. both[l] = IF l - 2 \in lanes(1) THEN HalfOf(q.wdata, 1)[l - 2] ELSE low[l]
    BY DEF Merge, LaneOf
  <2>3. l - 2 \in lanes(1) <=> l - 2 \in Pair /\ l \in q.wstrb
    BY DEF Lane, LaneOf, Pair
  <2>4. l - 2 \in Pair => HalfOf(q.wdata, 1)[l - 2] = q.wdata[l]
    BY DEF HalfOf, LaneOf, Pair, Lane
  <2>5. l - 2 \in Pair <=> l \notin Pair
    BY DEF Pair, Lane
  <2> HIDE DEF lanes, low, both
  <2> QED BY <2>1, <2>2, <2>3, <2>4, <2>5 DEF Given
<1>2. both = [l \in Lane |-> both[l]] /\ Given(q, w) = [l \in Lane |-> Given(q, w)[l]]
  BY DEF Merge, Given
<1> HIDE DEF both
<1>3. both = Given(q, w)
  BY <1>1, <1>2
<1> QED BY <1>3 DEF both, low, lanes

\* The second WRITE of a word reaches its cell.
LEMMA SecondWrite ==
    Inv /\ OnPins("WRITE", 1) => At(bus) = lat.addr /\ open[bus.ba] # Closed
  BY PinsReach

WaitingInv == AnswerInv /\ OwnInv /\ PathInv

\* A clock that does not register the second WRITE leaves the contents alone.
LEMMA ContentsKept ==
    ASSUME WaitingInv, Tick, state # "S_WR_CMD1"
    PROVE  Contents' = Contents
<1>1. /\ Fsm(pending, OnBus) /\ Edge /\ lat \in Access /\ bus \in Bus /\ open_ba \in Bank
  BY Clock DEF WaitingInv, AnswerInv, TypeInv, FsmType
<1>2. bus'.cmd = CommandOf(state)
  BY <1>1, CommandStep
<1>3. cells' = Stored(bus, dq_out)
  BY Clock DEF WaitingInv, AnswerInv, ChipStep
<1>4. bus'.cmd = "WRITE" => bus'.half = 0
  <2> SUFFICES ASSUME bus'.cmd = "WRITE" PROVE bus'.half = 0
    OBVIOUS
  <2>1. WrCmd("S_WR_CMD0", "S_WR_CMD1", 0)
    BY <1>1, <1>2, AccessAction DEF CommandOf
  <2> QED BY <1>1, <2>1 DEF WrCmd, Column, Bus
<1>5. Contents' = cells'
  BY <1>4 DEF Contents
<1>6. bus.cmd = "WRITE" => bus.half = 1
  <2>1. bus.cmd = "WRITE" => state = "S_WR_REC"
    BY DEF WaitingInv, AnswerInv, Inv, BusInv
  <2> QED BY <2>1 DEF WaitingInv, PathInv, WriteOnPins, OnPins
<1>7. Contents = Stored(bus, dq_out)
  BY <1>6 DEF Contents, Stored
<1> QED BY <1>3, <1>5, <1>7

\* The clock that registers the second WRITE writes the word.
LEMMA ContentsWritten ==
    ASSUME WaitingInv, WaitingInv', Tick, state = "S_WR_CMD1"
    PROVE  /\ Contents = cells
           /\ Contents' = [cells EXCEPT ![lat.addr] = Given(lat, @)]
<1>1. /\ Fsm(pending, OnBus) /\ Edge /\ lat \in Access /\ bus \in Bus /\ open_ba \in Bank
      /\ cells \in [Address -> Word] /\ cells' \in [Address -> Word]
  BY Clock DEF WaitingInv, AnswerInv, TypeInv, FsmType, ChipTypeOK
<1>2. WriteOnPins(0) /\ OnPins("WRITE", 0)
  BY DEF WaitingInv, PathInv, WriteOnPins
<1>3. At(bus) = lat.addr /\ open[bus.ba] # Closed /\ lat.addr \in Address
  BY <1>2, PinsReach DEF WaitingInv, AnswerInv
<1>4. Contents = cells
  BY <1>2 DEF Contents, OnPins
<1>5. cells' = [cells EXCEPT ![lat.addr] = Merge(@, 0, HalfOf(lat.wdata, 0), Strobed(0))]
  BY <1>2, <1>3, Clock DEF WaitingInv, AnswerInv, ChipStep, Stored, WriteOnPins, OnPins
<1>6. lat' = lat
  BY LatchKept DEF WaitingInv
<1>7. WriteOnPins(1)' /\ OnPins("WRITE", 1)'
  <2>1. state' = "S_WR_REC" /\ bus'.cmd = "WRITE"
    BY <1>1, AccessPath, CommandStep DEF CommandOf
  <2> QED BY <2>1 DEF WaitingInv, PathInv, WriteOnPins
<1>8. (At(bus) = lat.addr /\ open[bus.ba] # Closed)'
  <2>1. Inv'
    BY DEF WaitingInv, AnswerInv
  <2> QED BY <1>7, <2>1, SecondWrite, PTL
<1>9. Contents' = [cells' EXCEPT ![lat.addr] = Merge(@, 1, HalfOf(lat.wdata, 1), Strobed(1))]
  BY <1>6, <1>7, <1>8 DEF Contents, Stored, WriteOnPins, OnPins, Strobed
<1>10. cells'[lat.addr] = Merge(cells[lat.addr], 0, HalfOf(lat.wdata, 0), Strobed(0))
  BY <1>1, <1>3, <1>5
<1>11. Merge(cells'[lat.addr], 1, HalfOf(lat.wdata, 1), Strobed(1)) = Given(lat, cells[lat.addr])
  BY <1>1, <1>3, <1>10, MergeHalves DEF Strobed
<1>12. Contents' = [cells' EXCEPT ![lat.addr] = Given(lat, cells[lat.addr])]
  BY <1>9, <1>11, <1>1
<1>13. Contents' = [cells EXCEPT ![lat.addr] = Given(lat, @)]
  BY <1>1, <1>3, <1>5, <1>12
<1> QED BY <1>4, <1>13

\* A word of the memory is a word.
LEMMA ContentsType ==
    ASSUME WaitingInv, bus.cmd # "WRITE"
    PROVE  Contents = cells /\ cells \in [Address -> Word]
  BY DEF Contents, WaitingInv, AnswerInv, Inv, TypeInv, ChipTypeOK

\* A write is performed from S_WR_REC on.
Written == is_write = TRUE /\ state \in {"S_WR_REC", "S_DONE", "S_DONE_W"}

\* Nothing is performed without a request on the bus.
LEMMA WrittenHeld == WaitingInv /\ Written => pending = TRUE
  BY DEF WaitingInv, AnswerInv, BridgeInv, Written, Serving, WriteState

\* What Performed and Reply say, as the bridge and the FSM have it.
LEMMA PerformedIs == WaitingInv => (Performed <=> xbus_ack = TRUE \/ Written)
  BY DEF WaitingInv, AnswerInv, Inv, TypeInv, BridgeType, FsmType, Performed, Written

LEMMA NoReply == xbus_ack = FALSE \/ xbus_cyc = FALSE \/ xbus.wstrb # {} => Reply = HiZ
  BY DEF Reply, IsRead

\* A clock of a master without a request on the bus: it asks, or nothing happens.
LEMMA RestStep ==
    ASSUME WaitingInv, WaitingInv', Tick, xbus_cyc = FALSE
    PROVE  Memory!Ask \/ UNCHANGED Memory!vars
<1>1. /\ pending = FALSE /\ xbus_ack = FALSE /\ state \notin Serving /\ xbus_cyc' \in BOOLEAN
      /\ pending' \in BOOLEAN /\ xbus_ack' \in BOOLEAN
  BY Clock DEF WaitingInv, AnswerInv, OwnInv, BridgeInv, Inv, TypeInv, BridgeType, MasterType
<1>2. Contents' = Contents
  BY <1>1, ContentsKept DEF Serving, WriteState
<1>3. Phase = "idle" /\ Reply = HiZ
  BY NoReply DEF Phase
<1>4. CASE Rest
  <2>1. xbus_cyc' = FALSE /\ xbus' = xbus
    BY <1>4 DEF Rest, masterVars
  <2>2. Phase' = "idle" /\ Reply' = HiZ
    BY <2>1 DEF Phase, Reply
  <2> QED BY <1>2, <1>3, <2>1, <2>2 DEF Memory!vars
<1>5. ASSUME NEW q \in Requests, Ask(q) PROVE Memory!Ask
  <2>1. xbus_cyc' = TRUE /\ xbus_stb' = TRUE /\ xbus' = q
    BY <1>5 DEF Ask
  <2>2. pending' = FALSE /\ xbus_ack' = FALSE
    BY <1>1, <2>1 DEF WaitingInv, OwnInv
  <2>3. ~Written'
    <3>1. (WaitingInv /\ Written => pending = TRUE)'
      BY WrittenHeld, PTL
    <3> QED BY <2>2, <3>1
  <2>4. ~Performed'
    <3>1. (WaitingInv => (Performed <=> xbus_ack = TRUE \/ Written))'
      BY PerformedIs, PTL
    <3> QED BY <2>2, <2>3, <3>1
  <2>5. Phase' = "asked" /\ Reply' = HiZ
    BY <2>1, <2>2, <2>4 DEF Phase, Reply
  <2> QED BY <1>2, <1>3, <2>1, <2>5 DEF Memory!Ask
<1> QED BY <1>4, <1>5, Clock DEF WaitingInv, AnswerInv, Master, Finish, Expire, Await

\* A clock of a request answered: it is over.
LEMMA FinishStep ==
    ASSUME WaitingInv, Tick, xbus_cyc = TRUE, xbus_ack = TRUE
    PROVE  Memory!Finish
<1>1. pending = FALSE /\ state \notin Serving
  BY Clock DEF WaitingInv, AnswerInv, OwnInv, BridgeInv, TypeInv, BridgeType
<1>2. Contents' = Contents
  BY <1>1, ContentsKept DEF Serving, WriteState
<1>3. xbus_cyc' = FALSE /\ xbus' = xbus
  BY Clock DEF WaitingInv, AnswerInv, Master, Rest, Ask, Finish, Expire, Await
<1>4. Phase = "done"
  BY PerformedIs DEF Phase
<1>5. Phase' = "idle" /\ Reply' = HiZ
  BY <1>3 DEF Phase, Reply
<1> QED BY <1>2, <1>3, <1>4, <1>5 DEF Memory!Finish

\* A clock that answers a request outside the window: zeros, and nothing changes.
LEMMA ElsewhereStep ==
    ASSUME WaitingInv, Tick, Await, Unmapped
    PROVE  Memory!Perform
<1>1. /\ xbus_cyc = TRUE /\ xbus_ack = FALSE /\ pending = FALSE /\ xbus.in_sdram = FALSE
      /\ xbus_cyc' = TRUE /\ xbus' = xbus
  BY Clock, SystemAssumption
     DEF Await, Unmapped, NewRequest, WaitingInv, AnswerInv, OwnInv, TypeInv, BridgeType, MasterType
<1>2. state \notin Serving
  BY <1>1 DEF WaitingInv, AnswerInv, BridgeInv
<1>3. Contents' = Contents
  BY <1>2, ContentsKept DEF Serving, WriteState
<1>4. ~Performed
  BY <1>1, <1>2, PerformedIs DEF Written, Serving, WriteState
<1>5. xbus_ack' = TRUE /\ xbus_dat_r' = Zero
  BY <1>1, Clock DEF WaitingInv, AnswerInv, Bridge, Completed
<1>6. Phase = "asked" /\ Phase' = "done"
  BY <1>1, <1>4, <1>5 DEF Phase, Performed
<1>7. HiZ \notin {Zero[1], Zero[2]} /\ Assemble(Zero) = Memory!Blank
  <2>1. [i \in Pair |-> PowerUpByte] \in HalfWord
    BY ChipAssumption DEF HalfWord
  <2>2. [i \in Pair |-> PowerUpByte] # HiZ
    BY <2>1, ChipAssumption DEF HalfWord, Pair
  <2>3. ASSUME NEW l \in Lane PROVE Zero[1 + l \div 2][l % 2] = PowerUpByte
    <3>1. l = 0 \/ l = 1 \/ l = 2 \/ l = 3
      BY DEF Lane
    <3> QED BY <3>1 DEF Zero, Pair
  <2>4. Assemble(Zero) = Memory!Blank
    BY <2>3 DEF Assemble, Memory!Blank
  <2> QED BY <2>2, <2>4 DEF Zero
<1>8. Reply' = Memory!Answer(xbus)
  BY <1>1, <1>5, <1>7 DEF Reply, IsRead, Memory!Answer
<1>9. Contents' = Memory!Apply(xbus)
  BY <1>1, <1>3 DEF Memory!Apply
<1> QED BY <1>1, <1>6, <1>8, <1>9 DEF Memory!Perform

\* A clock that answers a request in the window: the read of the word, or a write already done.
LEMMA AnswerStep ==
    ASSUME WaitingInv, Tick, Await, Completed
    PROVE  Memory!Perform \/ UNCHANGED Memory!vars
<1>1. /\ xbus_cyc = TRUE /\ xbus_ack = FALSE /\ pending = TRUE /\ xbus.in_sdram = TRUE
      /\ xbus_cyc' = TRUE /\ xbus' = xbus /\ xbus_ack' = TRUE /\ xbus_dat_r' = rdata
      /\ state = "S_DONE_W" /\ is_write \in BOOLEAN
  BY Clock
     DEF Await, Completed, WaitingInv, AnswerInv, OwnInv, BridgeInv, Bridge, TypeInv, BridgeType,
         MasterType, FsmType
<1>2. lat = OnBus /\ (is_write = TRUE <=> xbus.wstrb # {}) /\ bus.cmd # "WRITE"
  BY <1>1 DEF WaitingInv, OwnInv, Serving, AnswerInv, Inv, BusInv
<1>3. Contents' = Contents
  BY <1>1, ContentsKept
<1>4. Contents = cells /\ cells \in [Address -> Word] /\ xbus.addr \in Address
  BY <1>2, ContentsType, SystemAssumption DEF WaitingInv, AnswerInv, Inv, TypeInv, MasterType
<1>5. Phase' = "done"
  BY <1>1 DEF Phase, Performed
<1>6. CASE is_write = TRUE
  <2>1. Phase = "done"
    BY <1>1, <1>6, PerformedIs DEF Phase, Written
  <2>2. Reply = HiZ /\ Reply' = HiZ
    BY <1>1, <1>2, <1>6 DEF Reply, IsRead
  <2> QED BY <1>1, <1>3, <1>5, <2>1, <2>2 DEF Memory!vars
<1>7. CASE is_write = FALSE
  <2>1. Phase = "asked"
    BY <1>1, <1>7, PerformedIs DEF Phase, Written
  <2>2. xbus.wstrb = {}
    BY <1>2, <1>7
  <2>3. PICK w \in Word : w = cells[xbus.addr]
    BY <1>4
  <2>4. rdata = <<HalfOf(w, 0), HalfOf(w, 1)>>
    BY <1>1, <1>2, <1>7, <2>3 DEF WaitingInv, PathInv, Asked, OnBus
  <2>5. HalfOf(w, 0) # HiZ /\ HalfOf(w, 1) # HiZ
    BY HalfOfType, ChipAssumption DEF HalfWord, Pair, Half
  <2>6. Reply' = w
    BY <1>1, <2>2, <2>4, <2>5, AssembleHalves DEF Reply, IsRead
  <2>7. Reply' = Memory!Answer(xbus)
    BY <1>1, <1>4, <2>2, <2>3, <2>6 DEF Memory!Answer
  <2>8. w = [l \in Lane |-> IF l \in xbus.wstrb THEN xbus.wdata[l] ELSE w[l]]
    BY <2>2 DEF Word
  <2>9. Contents' = Memory!Apply(xbus)
    <3>1. [l \in Lane |-> IF l \in xbus.wstrb THEN xbus.wdata[l] ELSE Contents[xbus.addr][l]] = w
      BY <1>4, <2>3, <2>8
    <3>2. Memory!Apply(xbus) = [Contents EXCEPT ![xbus.addr] = w]
      BY <1>1, <3>1 DEF Memory!Apply
    <3>3. [Contents EXCEPT ![xbus.addr] = w] = Contents
      BY <1>4, <2>3
    <3> QED BY <1>3, <3>2, <3>3
  <2> QED BY <1>1, <1>5, <2>1, <2>7, <2>9 DEF Memory!Perform
<1> QED BY <1>1, <1>6, <1>7

\* A clock without an answer: the word is written, or nothing happens.
LEMMA WorkingStep ==
    ASSUME WaitingInv, WaitingInv', Tick, Await, ~Completed, ~Unmapped
    PROVE  Memory!Perform \/ UNCHANGED Memory!vars
<1>1. /\ xbus_cyc = TRUE /\ xbus_ack = FALSE /\ xbus_ack' = FALSE
      /\ xbus_cyc' = TRUE /\ xbus' = xbus /\ is_write \in BOOLEAN /\ Edge
  BY Clock
     DEF Await, WaitingInv, AnswerInv, Bridge, TypeInv, BridgeType, MasterType, FsmType
<1>2. Reply = HiZ /\ Reply' = HiZ
  BY <1>1 DEF Reply
<1>3. /\ Phase = IF Written THEN "done" ELSE "asked"
      /\ Phase' = IF Written' THEN "done" ELSE "asked"
  <2>1. (WaitingInv => (Performed <=> xbus_ack = TRUE \/ Written))'
    BY PerformedIs, PTL
  <2> QED BY <1>1, <2>1, PerformedIs DEF Phase
<1>4. CASE state = "S_WR_CMD1"
  <2>1. pending = TRUE /\ lat = OnBus /\ is_write = TRUE /\ xbus.wstrb # {} /\ xbus.in_sdram = TRUE
    BY <1>4 DEF WaitingInv, AnswerInv, BridgeInv, OwnInv, Serving, WriteState
  <2>2. state' = "S_WR_REC" /\ is_write' = TRUE
    BY <1>1, <1>4, <2>1, AccessPath, LatchKept DEF WaitingInv
  <2>3. Phase = "asked" /\ Phase' = "done"
    BY <1>3, <1>4, <2>2 DEF Written
  <2>4. /\ Contents = cells
        /\ Contents' = [cells EXCEPT ![lat.addr] = Given(lat, @)]
    BY <1>4, ContentsWritten
  <2>5. Contents' = Memory!Apply(xbus)
    BY <2>1, <2>4 DEF Memory!Apply, Given, OnBus
  <2>6. Reply' = Memory!Answer(xbus)
    BY <1>2, <2>1 DEF Memory!Answer
  <2> QED BY <1>1, <2>3, <2>5, <2>6 DEF Memory!Perform
<1>5. CASE state # "S_WR_CMD1"
  <2>1. Contents' = Contents
    BY <1>5, ContentsKept
  <2>2. state # "S_DONE_W" \/ ~Written
    <3>1. Written => pending = TRUE
      BY WrittenHeld
    <3> QED BY <3>1 DEF Completed, WaitingInv, AnswerInv, BridgeInv
  <2>3. Written => Written'
    BY <1>1, <2>2, AccessPath, LatchKept DEF Written, WaitingInv
  <2>4. Written' => Written
    <3> SUFFICES ASSUME Written' PROVE Written
      OBVIOUS
    <3>1. state \in {"S_WR_REC", "S_RD_PRE_W", "S_DONE"}
      BY <1>1, <1>5, AccessPath DEF Written
    <3>2. is_write = TRUE
      BY <3>1, LatchKept DEF Written, WaitingInv
    <3>3. state # "S_RD_PRE_W"
      BY <3>2 DEF WaitingInv, OwnInv, ReadState
    <3> QED BY <3>1, <3>2, <3>3 DEF Written
  <2> QED BY <1>1, <1>2, <1>3, <2>1, <2>3, <2>4 DEF Memory!vars
<1> QED BY <1>4, <1>5

\* The reset button: the access is dropped, its word written in its first half at the most.
LEMMA ResetStep ==
    ASSUME WaitingInv, Reset
    PROVE  Memory!Reset
<1>1. /\ xbus_cyc' = FALSE /\ xbus' = xbus /\ cells' = cells /\ bus'.cmd = "INHIBIT"
  BY DEF Reset, CtrlReset, ResetBus, chipVars
<1>2. Phase' = "idle" /\ Reply' = HiZ
  BY <1>1 DEF Phase, Reply
<1>3. Contents' = cells
  BY <1>1 DEF Contents
<1>4. CASE Contents = cells
  BY <1>1, <1>2, <1>3, <1>4 DEF Memory!Reset
<1>5. CASE Contents # cells
  <2>1. OnPins("WRITE", 1)
    <3>1. bus.cmd = "WRITE" /\ bus.half = 1 /\ state \in {"S_WR_CMD1", "S_WR_REC"}
      BY <1>5 DEF Contents, WaitingInv, AnswerInv, Inv, BusInv
    <3> QED BY <3>1 DEF WaitingInv, PathInv, WriteOnPins, OnPins
  <2>2. state \in WriteState
    BY <2>1 DEF OnPins, WaitingInv, AnswerInv, Inv, BusInv, WriteState
  <2>3. /\ lat = OnBus /\ xbus.wstrb # {} /\ pending = TRUE /\ xbus_cyc = TRUE
    BY <2>2 DEF WaitingInv, AnswerInv, BridgeInv, OwnInv, Serving
  <2>4. Phase # "idle"
    BY <2>3 DEF Phase
  <2>5. At(bus) = xbus.addr
    BY <2>1, <2>3, SecondWrite DEF WaitingInv, AnswerInv, OnBus
  <2>6. \A a \in Address : a # xbus.addr => Contents[a] = cells[a]
    BY <2>5 DEF Contents, Stored, WaitingInv, AnswerInv, Inv, TypeInv, ChipTypeOK
  <2> QED BY <1>1, <1>2, <1>3, <2>3, <2>4, <2>6 DEF Memory!Reset
<1> QED BY <1>4, <1>5

\* Every step of the path is a step of the atomic memory or leaves it alone.
LEMMA MemoryNext == WaitingInv /\ WaitingInv' /\ [Next]_vars => [Memory!Next]_(Memory!vars)
<1> SUFFICES ASSUME WaitingInv, WaitingInv', [Next]_vars PROVE Memory!Next \/ UNCHANGED Memory!vars
  OBVIOUS
<1>1. CASE Tick
  <2>1. xbus_cyc \in BOOLEAN /\ xbus_ack \in BOOLEAN
    BY DEF WaitingInv, AnswerInv, Inv, TypeInv, BridgeType, MasterType
  <2>2. CASE xbus_cyc = FALSE
    BY <1>1, <2>2, RestStep DEF Memory!Next
  <2>3. CASE xbus_cyc = TRUE /\ xbus_ack = TRUE
    BY <1>1, <2>3, FinishStep DEF Memory!Next
  <2>4. CASE xbus_cyc = TRUE /\ xbus_ack = FALSE
    <3>1. ~Expire
      BY NoExpiry DEF WaitingInv
    <3>2. Await
      BY <1>1, <2>4, <3>1, Clock DEF WaitingInv, AnswerInv, Master, Rest, Ask, Finish
    <3> QED BY <1>1, <3>2, ElsewhereStep, AnswerStep, WorkingStep DEF Memory!Next
  <2> QED BY <2>1, <2>2, <2>3, <2>4
<1>2. CASE Reset
  BY <1>2, ResetStep DEF Memory!Next
<1>3. CASE UNCHANGED vars
  <2>1. UNCHANGED <<open, cells, bus, dq_out, state, is_write, xbus, xbus_cyc, xbus_ack, xbus_dat_r>>
    BY <1>3 DEF vars, chipVars, ctrlVars, fsmVars, bridgeVars, masterVars
  <2>2. Contents' = Contents
    BY <2>1 DEF Contents, Stored, At
  <2>3. Phase' = Phase /\ Reply' = Reply
    BY <2>1 DEF Phase, Performed, Reply
  <2> QED BY <2>1, <2>2, <2>3 DEF Memory!vars
<1> QED BY <1>1, <1>2, <1>3 DEF Next

\* The initial states are those of the atomic memory.
LEMMA MemoryInit == Init => Memory!Init
<1> SUFFICES ASSUME Init PROVE Memory!Init
  OBVIOUS
<1>1. /\ xbus_cyc = FALSE /\ xbus \in Requests /\ bus.cmd = "INHIBIT"
      /\ cells = [a \in Address |-> [l \in Lane |-> PowerUpByte]]
  BY DEF Init, ChipInit, CtrlInit, MasterInit, ResetBus
<1> QED BY <1>1 DEF Memory!Init, Memory!Blank, Contents, Phase, Reply

\* WaitingInv holds at power-up,
LEMMA WaitingInit == Init => WaitingInv
<1> SUFFICES ASSUME Init PROVE WaitingInv
  OBVIOUS
<1>1. AnswerInv
  BY AnswerInit
<1>2. /\ state = "S_INIT_WAIT" /\ early = FALSE /\ pending = FALSE /\ xbus_ack = FALSE
      /\ xbus_stb = FALSE
  BY DEF Init, CtrlInit, BridgeInit, MasterInit
<1>3. OwnInv /\ PathInv
  BY <1>2 DEF OwnInv, PathInv, Serving, OpenState, ReadState, WriteState
<1> QED BY <1>1, <1>3 DEF WaitingInv

\* and no step of a master that waits breaks it.
LEMMA WaitingNext == EarlyAccess = FALSE /\ WaitingInv /\ [Next]_vars => WaitingInv'
<1> SUFFICES ASSUME EarlyAccess = FALSE, WaitingInv, [Next]_vars PROVE WaitingInv'
  OBVIOUS
<1>1. AnswerInv'
  BY AnswerNext DEF WaitingInv
<1>2. CASE Tick
  BY <1>1, <1>2, OwnKept, PathKept DEF WaitingInv
<1>3. CASE Reset
  <2>1. /\ state' = "S_INIT_WAIT" /\ early' = FALSE /\ pending' = FALSE /\ xbus_ack' = FALSE
        /\ xbus_stb' = FALSE
    BY <1>3 DEF Reset, CtrlReset
  <2>2. (OwnInv /\ PathInv)'
    BY <2>1 DEF OwnInv, PathInv, Serving, OpenState, ReadState, WriteState
  <2> QED BY <1>1, <2>2 DEF WaitingInv
<1>4. CASE UNCHANGED vars
  <2>1. UNCHANGED <<cells, pipe, state, rdata, data_lo, lat, is_write, bus, dq_out, pending, xbus_ack,
                    xbus, xbus_stb, xbus_cyc, early>>
    BY <1>4 DEF vars, chipVars, ctrlVars, fsmVars, bridgeVars, masterVars
  <2>2. OwnInv'
    BY <2>1 DEF WaitingInv, OwnInv, OnBus
  <2>3. PathInv'
    BY <2>1 DEF WaitingInv, PathInv, OnPins, WriteOnPins, Strobed, Asked
  <2> QED BY <1>1, <2>2, <2>3 DEF WaitingInv
<1> QED BY <1>2, <1>3, <1>4 DEF Next

\* Refinement: for a master that waits for the power-up to end, bridge, controller and chip
\* together are one atomic memory, through refreshes, row changes and resets.
THEOREM MemoryIsAtomic == EarlyAccess = FALSE => (Spec => Refinement)
<1> SUFFICES ASSUME EarlyAccess = FALSE PROVE Spec => Refinement
  OBVIOUS
<1>1. WaitingInv /\ [Next]_vars => WaitingInv'
  BY WaitingNext
<1>2. WaitingInv /\ WaitingInv' /\ [Next]_vars => [Memory!Next]_(Memory!vars)
  BY MemoryNext
<1> QED BY <1>1, <1>2, WaitingInit, MemoryInit, PTL DEF Spec, Refinement, Memory!Spec
=============================================================================
