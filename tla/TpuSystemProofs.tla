--------------------------- MODULE TpuSystemProofs ---------------------------
(***************************************************************************)
(* The accelerator under firmware that polls, for every size of the array, *)
(* width of the accumulators, set of bytes and of requests: no write is    *)
(* lost, nothing disturbs a computation, and the bridge, the loaders and   *)
(* the skewed array implement the atomic accelerator.                      *)
(***************************************************************************)
EXTENDS TpuSystem, TpuBusProofs

-----------------------------------------------------------------------------
(***************************************************************************)
(* The inductive invariant: the bus (BusInv), the data (DataInv), and what *)
(* the firmware waits for against what the accelerator does.               *)
(***************************************************************************)
PollType == xbus \in Requests /\ polling \in {"no", "done", "load"}

\* The firmware knows of all work under way, asks only for STATUS meanwhile, and the
\* answer that ends the wait is given only when the work is over.
PollInv ==
    /\ computing => polling = "done"
    /\ lut_load_active => polling = "load"
    /\ xbus_cyc => /\ IsStart(xbus) => polling = "done"
                   /\ IsLoad(xbus) => polling = "load"
                   /\ polling # "no" => IsStatus(xbus) \/ IsStart(xbus) \/ IsLoad(xbus)
    /\ Acked /\ Answered => ~computing /\ ~lut_load_active

\* A read of the LUT finds its entry on the port.
ReadInv == Taken /\ ~xbus.we /\ xbus.reg = "LUT" => lut_rdata_r = lut_mem[xbus.idx]

SysInv == BusInv /\ DataInv /\ PollType /\ PollInv /\ ReadInv

\* The bus phases exclude each other and cover the CPU's view of the bus.
LEMMA Phases ==
    ASSUME BusInv
    PROVE  /\ Free <=> ~xbus_cyc
           /\ pending <=> Selected \/ Taken
           /\ Acked <=> xbus_cyc /\ xbus_ack
           /\ Taken <=> pending /\ ready_r
BY DEF BusInv, BusTypeOK, TpuTypeOK, Handshake, Free, Asked, Selected, Taken, Acked

LEMMA Disciplined ==
    ASSUME SysInv, Tick
    PROVE  TpuClock /\ Discipline
<1>1. CASE \E q \in Requests : ClientAsk(q)
  <2> PICK q \in Requests : ClientAsk(q)
    BY <1>1
  <2>1. q \in Request /\ OneOrder(q) /\ xbus' = q /\ Ask(q)
    BY SystemAssumption DEF ClientAsk, Ask, OneOrder
  <2>2. computing \/ lut_load_active => ~q.we
    BY DEF ClientAsk, SysInv, PollInv, IsStatus
  <2> QED BY <2>1, <2>2 DEF Tick, Discipline, Cpu
<1>2. CASE Idle \/ Await \/ ClientFinish
  BY <1>2 DEF Tick, Discipline, Cpu, Idle, Await, ClientFinish, Finish, xbusVars
<1> QED BY <1>1, <1>2 DEF Tick, Client

\* The answer is taken from the registers on the last clock of sel.
LEMMA AnswerTaken ==
    ASSUME BusInv, TpuClock, Cpu, Acked'
    PROVE  Taken /\ xbus' = xbus /\ xbus_dat_r' = rdata(xbus)
<1>1. Taken
  BY PhaseBack DEF BusInv
<1>2. xbus' = xbus
  BY <1>1, HandshakeStep, PhasesApart DEF BusInv
<1> QED BY <1>1, <1>2 DEF TpuClock, Bridge, Completed, Taken

\* What the clock starts was asked for by the write on the bus.
LEMMA WorkAsked ==
    ASSUME BusInv, TpuClock
    PROVE  /\ computing' /\ ~computing => IsStart(xbus) /\ pending
           /\ lut_load_active' /\ ~lut_load_active => IsLoad(xbus) /\ pending
<1>1. LoaderStep(pending, xbus) /\ ComputeStep(pending, xbus)
  BY DEF TpuClock, TpuStep
<1>2. computing' /\ ~computing => IsStart(xbus) /\ pending
  BY <1>1 DEF ComputeStep, Counting, Starts, Control, Writes, computing, IsStart
<1>3. ASSUME lut_load_active', ~lut_load_active
      PROVE  WriteLoad(pending, xbus)
  <2>1. ~BulkLoad
    BY <1>3 DEF BulkLoad, loadVars
  <2>2. ~bulk_active
    BY <1>1, <2>1, LoaderSplit DEF BusInv
  <2> QED BY <1>1, <1>3, <2>2, LoaderSplit DEF WriteAddr, WriteX, WriteData, WriteData4, NoLoad,
     loadVars, BusInv
<1>4. WriteLoad(pending, xbus) => IsLoad(xbus) /\ pending
  BY DEF WriteLoad, StartsLoad, Control, Writes, IsLoad
<1> QED BY <1>2, <1>3, <1>4

LEMMA PollKept ==
    ASSUME SysInv, Tick
    PROVE  PollType' /\ PollInv'
<1> USE DEF SysInv, PollType, PollInv
<1>1. TpuClock /\ Cpu /\ Client
  BY Disciplined DEF Discipline, Tick
<1>2. /\ computing' /\ ~computing => IsStart(xbus) /\ pending
      /\ lut_load_active' /\ ~lut_load_active => IsLoad(xbus) /\ pending
  BY <1>1, WorkAsked
<1>3. pending => xbus_cyc /\ ~xbus_ack
  BY Phases DEF Selected, Taken
<1>4. ASSUME Acked', Answered'
      PROVE  ~computing' /\ ~lut_load_active'
  <2>1. Taken /\ xbus' = xbus /\ xbus_dat_r' = rdata(xbus)
    BY <1>1, <1>4, AnswerTaken
  <2>2. IsStatus(xbus) /\ rdata(xbus).done = done /\ rdata(xbus).busy = lut_load_active
    BY <1>4, <2>1 DEF Answered, IsStatus, rdata, ZeroData
  <2>3. ~IsStart(xbus) /\ ~IsLoad(xbus)
    BY <2>2 DEF IsStatus, IsStart, IsLoad
  <2>4. polling' = polling
    BY <1>1, <2>1 DEF Client, Idle, ClientAsk, Ask, Await, ClientFinish, Finish, Taken
  <2>5. IF polling = "done" THEN done ELSE ~lut_load_active
    BY <1>4, <2>1, <2>2, <2>4 DEF Answered
  <2>6. ~computing /\ ~lut_load_active
    BY <2>5 DEF BusInv, QuietInv
  <2> QED BY <1>2, <2>3, <2>6
<1>5. CASE Idle /\ UNCHANGED polling
  BY <1>2, <1>3, <1>4, <1>5 DEF Idle, xbusVars, IsStart, IsLoad, IsStatus
<1>6. CASE Await /\ UNCHANGED polling
  BY <1>2, <1>3, <1>4, <1>6 DEF Await, IsStart, IsLoad, IsStatus
<1>7. CASE ClientFinish
  <2>1. Acked /\ ~pending
    BY <1>7, Phases DEF ClientFinish, Finish, Acked
  <2>2. xbus_cyc' = FALSE /\ xbus' = xbus /\ polling' = IF Answered THEN "no" ELSE polling
    BY <1>7 DEF ClientFinish, Finish
  <2> QED BY <1>2, <1>4, <2>1, <2>2
<1>8. CASE \E q \in Requests : ClientAsk(q)
  <2> PICK q \in Requests : ClientAsk(q)
    BY <1>8
  <2>1. ~xbus_cyc /\ xbus' = q /\ (polling # "no" => IsStatus(q))
        /\ polling' = IF IsStart(q) THEN "done" ELSE IF IsLoad(q) THEN "load" ELSE polling
    BY DEF ClientAsk, Ask
  <2>2. ~(IsStart(q) /\ IsLoad(q)) /\ (IsStatus(q) => ~IsStart(q) /\ ~IsLoad(q))
    BY SystemAssumption DEF IsStart, IsLoad, IsStatus
  <2>3. ~pending
    BY <1>3, <2>1
  <2>4. IsStart(xbus)' = IsStart(q) /\ IsLoad(xbus)' = IsLoad(q) /\ IsStatus(xbus)' = IsStatus(q)
    BY <2>1 DEF IsStart, IsLoad, IsStatus
  <2> QED BY <1>2, <1>4, <2>1, <2>2, <2>3, <2>4
<1> QED BY <1>1, <1>5, <1>6, <1>7, <1>8 DEF Client

LEMMA ReadKept ==
    ASSUME SysInv, Tick
    PROVE  ReadInv'
<1> SUFFICES ASSUME Taken', ~xbus'.we, xbus'.reg = "LUT"
             PROVE  lut_rdata_r' = lut_mem'[xbus'.idx]
  BY DEF ReadInv
<1>1. TpuClock /\ Cpu /\ LutStep(pending, xbus)
  BY Disciplined DEF Discipline, TpuClock, TpuStep
<1>2. Selected /\ xbus' = xbus /\ ~xbus.we /\ xbus.reg = "LUT"
  BY <1>1, PhaseBack DEF SysInv, BusInv
<1>3. ~lut_load_active
  BY <1>2 DEF SysInv, PollInv, IsStatus, IsStart, IsLoad, Selected
<1>4. lut_mem' = lut_mem
  BY <1>1, <1>2 DEF LutStep, Writes
<1> QED BY <1>1, <1>2, <1>3, <1>4 DEF LutStep, lut_rd_addr_mux

LEMMA SysInit == Init => SysInv
<1> SUFFICES ASSUME Init PROVE SysInv
  OBVIOUS
<1>1. BusInv /\ DataInv
  BY BusInitInv, DataInit, SystemAssumption DEF Init
<1>2. PollType /\ PollInv /\ ReadInv
  BY DEF Init, BusInit, TpuInit, PollType, PollInv, ReadInv, computing, Acked, Taken
<1> QED BY <1>1, <1>2 DEF SysInv

LEMMA SysTick == SysInv /\ Tick => SysInv'
BY Disciplined, BusKept, DataKept, PollKept, ReadKept DEF SysInv

LEMMA SysReset == SysInv /\ Reset => SysInv'
<1> SUFFICES ASSUME SysInv, Reset PROVE SysInv'
  OBVIOUS
<1>1. BusInv' /\ DataInv'
  BY BusResetKept, DataResetKept DEF Reset, SysInv
<1>2. PollType' /\ PollInv' /\ ReadInv'
  BY DEF Reset, BusReset, TpuReset, SysInv, PollType, PollInv, ReadInv, computing, Acked, Taken
<1> QED BY <1>1, <1>2 DEF SysInv

LEMMA SysStutter == SysInv /\ UNCHANGED vars => SysInv'
<1> SUFFICES ASSUME SysInv, UNCHANGED vars PROVE SysInv'
  OBVIOUS
<1> USE DEF vars, busVars, tpuVars, peVars, computeVars, weightVars, bulkVars, loadVars,
        loaderVars, lutVars, bridgeVars, xbusVars, SysInv
<1>1. BusInv' /\ PollType' /\ PollInv' /\ ReadInv'
  BY DEF BusInv, PollType, PollInv, ReadInv, BusTypeOK, TpuTypeOK, Handshake, RowInv, QuietInv,
     Free, Asked, Selected, Taken, Acked, computing, Answered, OneOrder, IsStart, IsLoad, IsStatus
<1>2. ArrayInv'
  BY DEF DataInv, ArrayInv, OnDiagonal, Partial
<1>3. WrittenInv' /\ PortInv'
  BY DEF DataInv, WrittenInv, PortInv, Taken
<1> QED BY <1>1, <1>2, <1>3 DEF DataInv

(***************************************************************************)
(* The program, its waits and the accelerator's work stay in step.         *)
(***************************************************************************)
THEOREM InvCorrect == Spec => []SysInv
<1>1. SysInv /\ [Next]_vars => SysInv'
  BY SysTick, SysReset, SysStutter DEF Next
<1> QED BY SysInit, <1>1, PTL DEF Spec

(***************************************************************************)
(* Every register of the accelerator and of the bus keeps to its range.    *)
(***************************************************************************)
THEOREM TypeCorrect == Spec => []TypeOK
<1>1. SysInv => TypeOK
  BY DEF SysInv, BusInv, PollType, TypeOK
<1> QED BY InvCorrect, <1>1, PTL

(***************************************************************************)
(* A write that reaches the accelerator is never dropped: no loader holds  *)
(* the gate closed and a start or load finds the array at rest.            *)
(***************************************************************************)
THEOREM AlwaysTaken == Spec => []NothingLost
<1>1. SysInv => NothingLost
  <2> SUFFICES ASSUME SysInv, pending, ~ready_r, xbus.we
               PROVE  ~bulk_active /\ ~lut_load_active /\ ~computing
    BY DEF NothingLost
  <2>1. Selected
    BY Phases DEF SysInv, Taken
  <2> QED BY <2>1, PhasesApart DEF SysInv, BusInv, RowInv, QuietInv
<1> QED BY InvCorrect, <1>1, PTL

(***************************************************************************)
(* Weights and vector hold still while the array computes.                 *)
(***************************************************************************)
THEOREM AlwaysQuiet == Spec => []QuietArray
<1>1. SysInv => QuietArray
  BY DEF SysInv, BusInv, QuietInv, QuietArray
<1> QED BY InvCorrect, <1>1, PTL
-----------------------------------------------------------------------------
(***************************************************************************)
(* The refinement.  Every clock but the first of a write leaves the mapped *)
(* accelerator as it is or ends its work; that first clock performs the    *)
(* write.                                                                  *)
(***************************************************************************)
LEMMA Same ==
    /\ Accelerator!Index = Index /\ Accelerator!Cell = Cell /\ Accelerator!LutIndex = LutIndex
    /\ Accelerator!NoWeights = NoWeights /\ Accelerator!NoSums = NoSums
    /\ Accelerator!ZeroData = ZeroData
    /\ \A n : Accelerator!Signed(n) = Signed(n)
    /\ \A m, x, r : Accelerator!Dot(m, x, r) = Dot(m, x, r)
    /\ \A p : Accelerator!EntryOf(p) = EntryOf(p)
    /\ \A w : Accelerator!WeightIn(w) = WeightIn(w)
<1>1. Accelerator!Index = Index /\ Accelerator!Cell = Cell /\ Accelerator!LutIndex = LutIndex
  BY DEF Accelerator!Index, Index, Accelerator!Cell, Cell, Accelerator!LutIndex, LutIndex
<1>2. Accelerator!NoWeights = NoWeights /\ Accelerator!NoSums = NoSums
  BY <1>1 DEF Accelerator!NoWeights, NoWeights, Accelerator!NoSums, NoSums
<1>3. Accelerator!ZeroData = ZeroData
  BY DEF Accelerator!ZeroData, ZeroData, Accelerator!ZeroWord, ZeroWord
<1>4. \A n : Accelerator!Signed(n) = Signed(n)
  BY DEF Accelerator!Signed, Signed
<1>5. \A m, x, r : Accelerator!Dot(m, x, r) = Dot(m, x, r)
  BY DEF Accelerator!Dot, Dot, Accelerator!Partial, Partial
<1>6. /\ \A p : Accelerator!EntryOf(p) = EntryOf(p)
      /\ \A w : Accelerator!WeightIn(w) = WeightIn(w)
  BY DEF Accelerator!EntryOf, EntryOf, Accelerator!WeightIn, WeightIn
<1> QED BY <1>1, <1>2, <1>3, <1>4, <1>5, <1>6

\* What a clock without a new pulse leaves in an element.
Settled(p) == IF LoadsWeight(p) THEN sa_w.data ELSE w_reg[p]

LEMMA WeightTaken ==
    ASSUME TpuClock, NEW p \in Cell
    PROVE  w_reg'[p] = Settled(p)
BY DEF TpuClock, TpuStep, ArrayStep, Settled

\* A row write under way and a LUT load under way go on as promised.
LEMMA WeightsKept ==
    ASSUME SysInv, TpuClock, Nothing, NEW p \in Cell
    PROVE  FinalWeight(p)' = FinalWeight(p)
<1> USE DEF SysInv, DataInv, BusInv
<1>1. w_reg'[p] = Settled(p)
  BY WeightTaken
<1>2. /\ bulk_active => BulkLoad
      /\ lut_load_active => LutAddress \/ LutWeight
      /\ ~bulk_active /\ ~lut_load_active =>
            /\ ~bulk_active' /\ ~lut_load_active'
            /\ sa_w' = sa_w /\ (sa_load_weight' => sa_load_weight)
      /\ lut_mem' = lut_mem
  BY NothingLoads
<1>t. bulk_phase \in 0 .. N - 2 /\ lut_load_idx \in 0 .. N * N - 1
  BY DEF BusTypeOK, TpuTypeOK
<1>3. p[1] \in Index /\ p[2] \in Index /\ p = <<p[1], p[2]>>
  BY Cells
<1>4. FinalWeight(p)' =
          IF bulk_active' /\ p[1] = bulk_row' /\ p[2] > bulk_phase' THEN bulk_data'[p[2]]
          ELSE IF lut_load_active' /\ EntryOf(p) >= lut_load_idx' THEN WeightIn(lut_mem'[EntryOf(p)])
          ELSE IF sa_load_weight' /\ p = <<sa_w'.row, sa_w'.col>> THEN sa_w'.data
          ELSE w_reg'[p]
  BY DEF FinalWeight, LoadsWeight, EntryOf, WeightIn
<1>5. CASE bulk_active
  <2>0. BulkLoad /\ ~lut_load_active
    BY <1>2, <1>5 DEF RowInv
  <2>1. BulkLoad /\ ~lut_load_active /\ ~lut_load_active'
    BY <2>0 DEF BulkLoad, loadVars
  <2>2. FinalWeight(p) = IF p[1] = bulk_row /\ p[2] > bulk_phase THEN bulk_data[p[2]] ELSE Settled(p)
    BY <1>5, <2>1 DEF FinalWeight, Settled
  <2>3. /\ sa_load_weight' /\ sa_w'.row = bulk_row /\ sa_w'.col = bulk_phase + 1
        /\ sa_w'.data = bulk_data[bulk_phase + 1]
        /\ bulk_row' = bulk_row /\ bulk_data' = bulk_data
    BY <2>1 DEF BulkLoad, Pulse
  <2>4. p = <<sa_w'.row, sa_w'.col>> <=> p[1] = bulk_row /\ p[2] = bulk_phase + 1
    BY <1>3, <2>3
  <2>5. p[2] \in 0 .. N - 1 /\ bulk_phase \in 0 .. N - 2 /\ N \in {2, 3, 4}
    BY <1>t, <1>3, Sizes DEF Index
  <2>6. CASE bulk_phase = N - 2
    <3>1. ~bulk_active'
      BY <2>1, <2>6 DEF BulkLoad
    <3>2. p[2] > bulk_phase <=> p[2] = bulk_phase + 1
      BY <2>5, <2>6
    <3> QED BY <1>1, <1>4, <2>1, <2>2, <2>3, <2>4, <3>1, <3>2
  <2>7. CASE bulk_phase # N - 2
    <3>1. bulk_active' /\ bulk_phase' = bulk_phase + 1
      BY <1>5, <2>1, <2>7 DEF BulkLoad
    <3>2. p[2] > bulk_phase <=> p[2] > bulk_phase + 1 \/ p[2] = bulk_phase + 1
      BY <2>5
    <3> QED BY <1>1, <1>4, <2>1, <2>2, <2>3, <2>4, <3>1, <3>2
  <2> QED BY <2>6, <2>7
<1>6. CASE lut_load_active
  <2>0. (LutAddress \/ LutWeight) /\ ~bulk_active
    BY <1>2, <1>6 DEF RowInv
  <2>1. ~bulk_active /\ ~bulk_active'
    BY <2>0 DEF LutAddress, LutWeight, bulkVars
  <2>2. FinalWeight(p) = IF EntryOf(p) >= lut_load_idx THEN WeightIn(lut_mem[EntryOf(p)])
                         ELSE Settled(p)
    BY <1>6, <2>1 DEF FinalWeight, Settled
  <2>3. CASE LutAddress
    <3>1. /\ lut_load_active' /\ lut_load_idx' = lut_load_idx
          /\ sa_load_weight' = sa_load_weight /\ sa_w' = sa_w
      BY <1>6, <2>3 DEF LutAddress, weightVars
    <3> QED BY <1>1, <1>2, <1>4, <2>1, <2>2, <3>1 DEF Settled, LoadsWeight
  <2>4. CASE LutWeight
    <3> DEFINE e == EntryOf(p)
               i == lut_load_idx
    <3>1. /\ sa_load_weight' /\ sa_w'.row = i \div N /\ sa_w'.col = i % N
          /\ sa_w'.data = WeightIn(lut_mem[i])
      BY <1>6, <2>4 DEF LutWeight, Pulse, PortInv
    <3>2. p = <<sa_w'.row, sa_w'.col>> <=> e = i
      <4>1. e \div N = p[1] /\ e % N = p[2]
        BY CellEntry
      <4>2. EntryOf(<<i \div N, i % N>>) = i
        BY <1>t, EntryCell
      <4>3. e = i => p = <<i \div N, i % N>>
        BY <1>3, <4>1, Zenon
      <4>4. p = <<i \div N, i % N>> => e = i
        BY <4>2
      <4> QED BY <3>1, <4>3, <4>4
    <3>3. e \in 0 .. N * N - 1 /\ i \in 0 .. N * N - 1 /\ N * N \in Int
      BY <1>t, CellEntry, Sizes
    <3>4. CASE i = N * N - 1
      <4>1. ~lut_load_active'
        BY <2>4, <3>4 DEF LutWeight
      <4>2. e >= i <=> e = i
        BY <3>3, <3>4
      <4> HIDE DEF e, i
      <4>3. FinalWeight(p)' = IF e = i THEN WeightIn(lut_mem[i]) ELSE Settled(p)
        BY <1>1, <1>4, <2>1, <3>1, <3>2, <4>1
      <4>4. FinalWeight(p) = IF e = i THEN WeightIn(lut_mem[e]) ELSE Settled(p)
        BY <2>2, <4>2 DEF e, i
      <4> QED BY <4>3, <4>4
    <3>5. CASE i # N * N - 1
      <4>1. lut_load_active' /\ lut_load_idx' = i + 1
        BY <1>6, <2>4, <3>5 DEF LutWeight
      <4>2. e >= i <=> e >= i + 1 \/ e = i
        BY <3>3
      <4>3. ~(e >= i + 1 /\ e = i)
        BY <3>3
      <4>4. FinalWeight(p)' = IF e >= i + 1 THEN WeightIn(lut_mem[e])
                              ELSE IF e = i THEN WeightIn(lut_mem[i]) ELSE Settled(p)
        BY <1>1, <1>2, <1>4, <2>1, <3>1, <3>2, <4>1
      <4>5. FinalWeight(p) = IF e >= i THEN WeightIn(lut_mem[e]) ELSE Settled(p)
        BY <2>2
      <4> HIDE DEF e, i
      <4> QED BY <4>2, <4>3, <4>4, <4>5
    <3> QED BY <3>4, <3>5
  <2> QED BY <1>2, <1>6, <2>3, <2>4
<1>7. CASE ~bulk_active /\ ~lut_load_active
  BY <1>1, <1>2, <1>4, <1>7 DEF FinalWeight, Settled, LoadsWeight
<1> QED BY <1>5, <1>6, <1>7

LEMMA SumsAre == \A r \in Index : FinalSums[r] = Promised(r)
BY DEF FinalSums, Promised

\* Every clock but the first of a write: the accelerator's work goes on or ends.
LEMMA WorkGoesOn ==
    ASSUME SysInv, Tick, Nothing
    PROVE  Accelerator!Work
<1> USE DEF SysInv, DataInv
<1>1. TpuClock
  BY Disciplined
<1>2. FinalWeights' = FinalWeights
  <2>1. FinalWeights' = [p \in Cell |-> FinalWeight(p)']
    BY DEF FinalWeights, Cell, Index
  <2> QED BY <1>1, <2>1, WeightsKept DEF FinalWeights
<1>3. FinalSums' = FinalSums
  <2>1. FinalSums' = [r \in Index |-> Promised(r)'] /\ FinalSums = [r \in Index |-> Promised(r)]
    BY DEF FinalSums, Promised, Index
  <2> QED BY <1>1, <2>1, NothingSums
<1>4. /\ bulk_active => BulkLoad
      /\ lut_load_active => LutAddress \/ LutWeight
      /\ ~bulk_active /\ ~lut_load_active =>
            /\ ~bulk_active' /\ ~lut_load_active'
            /\ w_addr' = w_addr /\ x_in_reg' = x_in_reg
      /\ lut_mem' = lut_mem
  BY <1>1, NothingLoads
<1>5. x_in_reg' = x_in_reg /\ FinalAddr' = FinalAddr /\ (lut_load_active' => lut_load_active)
  <2>1. CASE bulk_active
    <3>0. BulkLoad
      BY <1>4, <2>1
    <3>1. BulkLoad /\ x_in_reg' = x_in_reg /\ (lut_load_active' => lut_load_active)
          /\ bulk_row' = bulk_row
      BY <3>0 DEF BulkLoad, loadVars
    <3>2. CASE bulk_phase = N - 2
      BY <2>1, <3>1, <3>2 DEF FinalAddr, BulkLoad
    <3>3. CASE bulk_phase # N - 2
      BY <2>1, <3>1, <3>3 DEF FinalAddr, BulkLoad
    <3> QED BY <3>1, <3>2, <3>3
  <2>2. CASE lut_load_active
    <3>1. LutAddress \/ LutWeight
      BY <1>4, <2>2
    <3>2. ~bulk_active /\ ~bulk_active' /\ w_addr' = w_addr /\ x_in_reg' = x_in_reg
      BY <3>1 DEF LutAddress, LutWeight, bulkVars
    <3> QED BY <2>2, <3>2 DEF FinalAddr
  <2>3. CASE ~bulk_active /\ ~lut_load_active
    BY <1>4, <2>3 DEF FinalAddr
  <2> QED BY <2>1, <2>2, <2>3
<1>6. (computing' => computing) /\ done' = (done \/ (computing /\ ~computing'))
  BY <1>1, NothingSums
<1>7. done \in BOOLEAN /\ ~(computing /\ lut_load_active)
  BY DEF BusInv, BusTypeOK, TpuTypeOK, QuietInv
<1>8. Busy' = IF computing' THEN "compute" ELSE IF lut_load_active' THEN "load" ELSE "no"
  BY DEF Busy, computing
<1>9. CASE Busy' = Busy
  <2>1. done' = done
    BY <1>6, <1>7, <1>8, <1>9 DEF Busy
  <2> QED BY <1>2, <1>3, <1>4, <1>5, <1>9, <2>1 DEF Accelerator!Work, Accelerator!deviceVars
<1>10. CASE Busy' # Busy
  <2>1. Busy # "no" /\ Busy' = "no" /\ done' = (done \/ Busy = "compute")
    BY <1>5, <1>6, <1>7, <1>8, <1>10 DEF Busy
  <2> QED BY <1>2, <1>3, <1>4, <1>5, <2>1 DEF Accelerator!Work, Accelerator!EndWork
<1> QED BY <1>9, <1>10

\* What the mapped accelerator is asked.
LEMMA AskedOf ==
    /\ \A reg : Accelerator!Writes(reg) <=> xbus.we /\ xbus.reg = reg
    /\ \A bit : Accelerator!Control(bit) <=> xbus.we /\ xbus.reg = "CTRL" /\ bit \in xbus.bits
BY DEF Accelerator!Writes, Accelerator!Control

LEMMA WeightsWritten ==
    ASSUME SysInv, TpuClock, Selected, xbus.we, NEW p \in Cell
    PROVE  FinalWeight(p)' =
               IF xbus.reg = "W_DATA"
               THEN IF p = <<FinalAddr.row, FinalAddr.col>> THEN xbus.word[0] ELSE FinalWeight(p)
               ELSE IF xbus.reg = "W_DATA4"
               THEN IF p[1] = FinalAddr.row THEN xbus.word[p[2]] ELSE FinalWeight(p)
               ELSE IF xbus.reg = "CTRL" /\ "load" \in xbus.bits
               THEN WeightIn(lut_mem[EntryOf(p)])
               ELSE FinalWeight(p)
<1> USE DEF SysInv, BusInv
<1>1. ~computing /\ ~lut_load_active /\ ~bulk_active
  BY AtRest
<1>2. FinalAddr = w_addr /\ FinalWeight(p) = Settled(p) /\ w_reg'[p] = Settled(p)
  BY <1>1, WeightTaken DEF FinalAddr, FinalWeight, Settled
<1>3. FinalWeight(p)' =
          IF bulk_active' /\ p[1] = bulk_row' /\ p[2] > bulk_phase' THEN bulk_data'[p[2]]
          ELSE IF lut_load_active' /\ EntryOf(p) >= lut_load_idx' THEN WeightIn(lut_mem'[EntryOf(p)])
          ELSE IF sa_load_weight' /\ p = <<sa_w'.row, sa_w'.col>> THEN sa_w'.data
          ELSE Settled(p)
  BY <1>2 DEF FinalWeight, LoadsWeight, EntryOf, WeightIn
<1>4. p[1] \in Index /\ p[2] \in Index /\ p = <<p[1], p[2]>>
  BY Cells
<1>5. CASE xbus.reg = "W_DATA"
  <2>1. WriteData(pending, xbus)
    BY <1>5, WritePerforms
  <2>2. /\ ~bulk_active' /\ ~lut_load_active' /\ sa_load_weight'
        /\ sa_w' = [row |-> w_addr.row, col |-> w_addr.col, data |-> xbus.word[0]]
    BY <1>1, <2>1 DEF WriteData, Pulse, bulkVars, loadVars
  <2> QED BY <1>2, <1>3, <1>5, <2>2
<1>6. CASE xbus.reg = "W_DATA4"
  <2>1. WriteData4(pending, xbus)
    BY <1>6, WritePerforms
  <2>2. /\ bulk_active' /\ bulk_phase' = 0 /\ bulk_data' = xbus.word /\ bulk_row' = w_addr.row
        /\ ~lut_load_active' /\ sa_load_weight'
        /\ sa_w' = [row |-> w_addr.row, col |-> 0, data |-> xbus.word[0]]
    BY <1>1, <2>1 DEF WriteData4, Pulse, loadVars
  <2>3. p[2] \in Nat
    BY <1>4, Sizes
  <2>4. p = <<w_addr.row, 0>> <=> p[1] = w_addr.row /\ ~(p[2] > 0)
    BY <1>4, <2>3
  <2>5. ~(p[2] > 0) => p[2] = 0
    BY <2>3
  <2> QED BY <1>2, <1>3, <1>6, <2>2, <2>4, <2>5
<1>7. CASE xbus.reg = "CTRL" /\ "load" \in xbus.bits
  <2>1. WriteLoad(pending, xbus) /\ lut_mem' = lut_mem
    BY <1>7, WritePerforms
  <2>2. ~bulk_active' /\ lut_load_active' /\ lut_load_idx' = 0
    BY <1>1, <2>1 DEF WriteLoad, bulkVars
  <2>3. EntryOf(p) \in 0 .. N * N - 1
    BY CellEntry
  <2>4. EntryOf(p) >= 0
    BY <2>3
  <2> QED BY <1>3, <1>7, <2>1, <2>2, <2>4
<1>8. CASE xbus.reg \notin {"W_DATA", "W_DATA4"} /\ ~(xbus.reg = "CTRL" /\ "load" \in xbus.bits)
  <2>1. WriteAddr(pending, xbus) \/ WriteX(pending, xbus) \/ NoLoad(pending, xbus)
    BY <1>8, WritePerforms
  <2>2. ~bulk_active' /\ ~lut_load_active' /\ ~sa_load_weight'
    BY <1>1, <2>1 DEF WriteAddr, WriteX, NoLoad, EndPulse, bulkVars, loadVars
  <2> QED BY <1>2, <1>3, <1>8, <2>2
<1> QED BY <1>5, <1>6, <1>7, <1>8

\* The first clock of a write performs it, whole.
LEMMA Performs ==
    ASSUME SysInv, Tick, Selected, xbus.we
    PROVE  Busy = "no" /\ Accelerator!Perform
<1> USE DEF SysInv
<1>1. TpuClock /\ Cpu
  BY Disciplined DEF Discipline
<1>2. /\ ~computing /\ ~lut_load_active /\ ~bulk_active /\ compute_cnt = 0
      /\ Control(pending, xbus, "start") <=> xbus.reg = "CTRL" /\ "start" \in xbus.bits
      /\ Control(pending, xbus, "clear") <=> xbus.reg = "CTRL" /\ "clear" \in xbus.bits
      /\ compute_cnt' = IF Starts(pending, xbus) THEN 1 ELSE 0
      /\ done' = (done /\ ~Starts(pending, xbus) /\ ~Clears(pending, xbus))
      /\ acc' = [r \in Index |-> IF Clears(pending, xbus) THEN 0 ELSE acc[r]]
  BY <1>1, AtRest DEF CtrlBit
<1>3. /\ xbus.reg = "W_ADDR" => WriteAddr(pending, xbus)
      /\ xbus.reg = "X_IN" => WriteX(pending, xbus)
      /\ xbus.reg = "W_DATA" => WriteData(pending, xbus)
      /\ xbus.reg = "W_DATA4" => WriteData4(pending, xbus)
      /\ xbus.reg = "CTRL" /\ "load" \in xbus.bits => WriteLoad(pending, xbus)
      /\ \/ xbus.reg \in {"W_ADDR", "X_IN", "W_DATA", "W_DATA4"}
         \/ xbus.reg = "CTRL" /\ "load" \in xbus.bits
         \/ NoLoad(pending, xbus)
      /\ lut_mem' = IF xbus.reg = "LUT" THEN [lut_mem EXCEPT ![xbus.idx] = xbus.word] ELSE lut_mem
  BY <1>1, WritePerforms
<1>4. Starts(pending, xbus) <=> Accelerator!Control("start")
  BY <1>2, AskedOf DEF Starts
<1>5. Clears(pending, xbus) <=> Accelerator!Control("clear")
  BY <1>2, AskedOf DEF Clears
<1>6. Busy = "no"
  BY <1>2 DEF Busy
<1>7. Taken' /\ xbus' = xbus
  BY <1>1, HandshakeStep, PhasesApart DEF BusInv
<1>8. Phase = "asked" /\ Phase' = "done" /\ Reply' = None /\ Accelerator!Answer = None
  BY <1>7 DEF Phase, Performed, Reply, Selected, Taken, Accelerator!Answer
<1>9. x_in_reg' = IF Accelerator!Writes("X_IN") THEN xbus.word ELSE x_in_reg
  <2>1. CASE xbus.reg = "X_IN"
    BY <1>3, <2>1, AskedOf DEF WriteX
  <2>2. CASE xbus.reg # "X_IN"
    <3>1. x_in_reg' = x_in_reg
      BY <1>3, <2>2 DEF WriteAddr, WriteData, WriteData4, WriteLoad, NoLoad
    <3> QED BY <2>2, <3>1, AskedOf
  <2> QED BY <2>1, <2>2
<1>10. lut_mem' = IF Accelerator!Writes("LUT") THEN [lut_mem EXCEPT ![xbus.idx] = xbus.word]
                  ELSE lut_mem
  BY <1>3, AskedOf
<1>11. FinalAddr' = CASE Accelerator!Writes("W_ADDR")  -> [row |-> xbus.row, col |-> xbus.col]
                      [] Accelerator!Writes("W_DATA4") -> [FinalAddr EXCEPT !.row = (@ + 1) % N]
                      [] OTHER                         -> FinalAddr
  <2>1. FinalAddr = w_addr
    BY <1>2 DEF FinalAddr
  <2>2. CASE xbus.reg = "W_ADDR"
    BY <1>2, <1>3, <2>2, AskedOf DEF WriteAddr, bulkVars, FinalAddr
  <2>3. CASE xbus.reg = "W_DATA4"
    <3>1. FinalAddr' = [w_addr EXCEPT !.row = (w_addr.row + 1) % N]
      BY <1>3, <2>3 DEF WriteData4, FinalAddr
    <3>2. ~Accelerator!Writes("W_ADDR") /\ Accelerator!Writes("W_DATA4")
      BY <2>3, AskedOf
    <3> QED BY <2>1, <3>1, <3>2
  <2>4. CASE xbus.reg \notin {"W_ADDR", "W_DATA4"}
    <3>1. FinalAddr' = w_addr
      BY <1>2, <1>3, <2>4 DEF WriteX, WriteData, WriteLoad, NoLoad, bulkVars, FinalAddr
    <3> QED BY <2>1, <2>4, <3>1, AskedOf
  <2> QED BY <2>2, <2>3, <2>4
<1>12. FinalWeights' =
           CASE Accelerator!Writes("W_DATA")  ->
                    [FinalWeights EXCEPT ![<<FinalAddr.row, FinalAddr.col>>] = xbus.word[0]]
             [] Accelerator!Writes("W_DATA4") ->
                    [p \in Cell |-> IF p[1] = FinalAddr.row THEN xbus.word[p[2]] ELSE FinalWeights[p]]
             [] Accelerator!Control("load")   -> [p \in Cell |-> WeightIn(lut_mem[EntryOf(p)])]
             [] OTHER                         -> FinalWeights
  <2>1. FinalWeights' = [p \in Cell |-> FinalWeight(p)']
    BY DEF FinalWeights, Cell, Index
  <2>2. CASE xbus.reg = "W_DATA"
    <3>1. /\ Accelerator!Writes("W_DATA") /\ ~Accelerator!Writes("W_DATA4")
          /\ ~Accelerator!Control("load")
      BY <2>2, AskedOf
    <3>2. \A p \in Cell : FinalWeight(p)' = IF p = <<FinalAddr.row, FinalAddr.col>>
                                            THEN xbus.word[0] ELSE FinalWeight(p)
      BY <1>1, <2>2, WeightsWritten
    <3>3. FinalWeights' = [FinalWeights EXCEPT ![<<FinalAddr.row, FinalAddr.col>>] = xbus.word[0]]
      BY <2>1, <3>2 DEF FinalWeights
    <3> QED BY <3>1, <3>3
  <2>3. CASE xbus.reg = "W_DATA4"
    <3>1. /\ Accelerator!Writes("W_DATA4") /\ ~Accelerator!Writes("W_DATA")
          /\ ~Accelerator!Control("load")
      BY <2>3, AskedOf
    <3>2. \A p \in Cell : FinalWeight(p)' = IF p[1] = FinalAddr.row
                                            THEN xbus.word[p[2]] ELSE FinalWeight(p)
      BY <1>1, <2>3, WeightsWritten
    <3>3. FinalWeights' = [p \in Cell |-> IF p[1] = FinalAddr.row THEN xbus.word[p[2]]
                                          ELSE FinalWeights[p]]
      BY <2>1, <3>2 DEF FinalWeights
    <3> QED BY <3>1, <3>3
  <2>4. CASE xbus.reg = "CTRL" /\ "load" \in xbus.bits
    <3>1. /\ ~Accelerator!Writes("W_DATA4") /\ ~Accelerator!Writes("W_DATA")
          /\ Accelerator!Control("load")
      BY <2>4, AskedOf
    <3>2. \A p \in Cell : FinalWeight(p)' = WeightIn(lut_mem[EntryOf(p)])
      BY <1>1, <2>4, WeightsWritten
    <3>3. FinalWeights' = [p \in Cell |-> WeightIn(lut_mem[EntryOf(p)])]
      BY <2>1, <3>2
    <3> QED BY <3>1, <3>3
  <2>5. CASE xbus.reg \notin {"W_DATA", "W_DATA4"} /\ ~(xbus.reg = "CTRL" /\ "load" \in xbus.bits)
    <3>1. /\ ~Accelerator!Writes("W_DATA4") /\ ~Accelerator!Writes("W_DATA")
          /\ ~Accelerator!Control("load")
      BY <2>5, AskedOf
    <3>2. \A p \in Cell : FinalWeight(p)' = FinalWeight(p)
      BY <1>1, <2>5, WeightsWritten
    <3>3. FinalWeights' = FinalWeights
      BY <2>1, <3>2 DEF FinalWeights
    <3> QED BY <3>1, <3>3
  <2> QED BY <2>2, <2>3, <2>4, <2>5
<1>13. LET kept == IF Accelerator!Control("clear") THEN NoSums ELSE FinalSums
       IN  FinalSums' = IF Accelerator!Control("start")
                        THEN [r \in Index |-> Signed(kept[r] + Dot(FinalWeights, x_in_reg, r))]
                        ELSE kept
  <2> DEFINE kept == IF Accelerator!Control("clear") THEN NoSums ELSE FinalSums
  <2>1. FinalSums = acc
    BY <1>2 DEF FinalSums, computing, BusInv, BusTypeOK, TpuTypeOK
  <2>2. acc' = kept
    <3>1. acc' = IF Clears(pending, xbus) THEN NoSums ELSE acc
      BY <1>2 DEF NoSums, BusInv, BusTypeOK, TpuTypeOK
    <3> QED BY <1>5, <2>1, <3>1
  <2>3. CASE ~Starts(pending, xbus)
    <3>1. FinalSums' = acc'
      <4>1. FinalSums' = [r \in Index |-> acc'[r]]
        BY <1>2, <2>3 DEF FinalSums, computing, Index
      <4>2. acc' = [r \in Index |-> acc'[r]]
        BY <1>2
      <4> QED BY <4>1, <4>2
    <3> QED BY <1>4, <2>2, <2>3, <3>1
  <2>4. CASE Starts(pending, xbus)
    <3>1. w_reg' = FinalWeights /\ x_in_reg' = x_in_reg
      <4>1. x_in_reg' = x_in_reg
        BY <1>2, <1>3, <2>4 DEF Starts, WriteLoad, NoLoad
      <4>2. \A p \in Cell : w_reg'[p] = FinalWeight(p)
        BY <1>1, <1>2, WeightTaken DEF FinalWeight, Settled
      <4>3. w_reg' \in [Cell -> Byte]
        BY <1>1, ArrayType DEF TpuClock, TpuStep, BusInv, BusTypeOK
      <4>4. w_reg' = FinalWeights
        BY <4>2, <4>3 DEF FinalWeights
      <4> QED BY <4>1, <4>4
    <3>2. \A r \in Index : 1 <= N + 1 + r
      BY Sizes DEF Index
    <3>3. FinalSums' = [r \in Index |-> Signed(acc'[r] + Dot(w_reg', x_in_reg', r))]
      BY <1>2, <2>4, <3>2 DEF FinalSums, computing, Index, Signed, Dot, Partial
    <3> QED BY <1>4, <2>2, <2>4, <3>1, <3>3
  <2> QED BY <2>3, <2>4
<1>14. Accelerator!Effect
  <2>1. FinalSums' = IF Accelerator!Control("start")
                     THEN [r \in Accelerator!Index |->
                             Accelerator!Signed((IF Accelerator!Control("clear")
                                                 THEN Accelerator!NoSums ELSE FinalSums)[r]
                                                + Accelerator!Dot(FinalWeights, x_in_reg, r))]
                     ELSE IF Accelerator!Control("clear") THEN Accelerator!NoSums ELSE FinalSums
    BY <1>13, Same
  <2>2. FinalWeights' =
           CASE Accelerator!Writes("W_DATA")  ->
                    [FinalWeights EXCEPT ![<<FinalAddr.row, FinalAddr.col>>] = xbus.word[0]]
             [] Accelerator!Writes("W_DATA4") ->
                    [p \in Accelerator!Cell |-> IF p[1] = FinalAddr.row THEN xbus.word[p[2]]
                                                ELSE FinalWeights[p]]
             [] Accelerator!Control("load")   ->
                    [p \in Accelerator!Cell |->
                        Accelerator!WeightIn(lut_mem[Accelerator!EntryOf(p)])]
             [] OTHER                         -> FinalWeights
    BY <1>12, Same
  <2> QED BY <1>9, <1>10, <1>11, <2>1, <2>2 DEF Accelerator!Effect
<1>15. Busy' = CASE Accelerator!Control("start") -> "compute"
                 [] Accelerator!Control("load") -> "load"
                 [] OTHER -> Busy
  <2>1. lut_load_active' <=> Accelerator!Control("load")
    <3>1. Accelerator!Control("load") => lut_load_active'
      BY <1>3, AskedOf DEF WriteLoad
    <3>2. ~Accelerator!Control("load") => ~lut_load_active'
      BY <1>2, <1>3, AskedOf DEF WriteAddr, WriteX, WriteData, WriteData4, NoLoad, loadVars
    <3> QED BY <3>1, <3>2
  <2>2. computing' <=> Accelerator!Control("start")
    BY <1>2, <1>4 DEF computing
  <2>3. ~(Accelerator!Control("start") /\ Accelerator!Control("load"))
    BY AskedOf DEF BusInv, QuietInv, OneOrder, Selected
  <2> QED BY <1>6, <2>1, <2>2, <2>3 DEF Busy
<1> QED BY <1>2, <1>4, <1>5, <1>6, <1>7, <1>8, <1>14, <1>15 DEF Accelerator!Perform

\* The bus of every other clock.
LEMMA BusGoesOn ==
    ASSUME SysInv, Tick, Nothing
    PROVE  Accelerator!Bus
<1> USE DEF SysInv
<1>1. TpuClock /\ Cpu
  BY Disciplined DEF Discipline
<1>2. /\ Free <=> ~xbus_cyc
      /\ Acked <=> xbus_cyc /\ xbus_ack
      /\ Taken <=> pending /\ ready_r
      /\ xbus_cyc \in BOOLEAN /\ xbus_ack \in BOOLEAN
  BY Phases DEF BusInv, BusTypeOK
<1>3. /\ Free => Free' \/ Asked'
      /\ Asked => Selected'
      /\ Selected => Taken'
      /\ Taken => Acked'
      /\ Acked => Free'
      /\ xbus' = xbus \/ (Free /\ Asked')
  BY <1>1, HandshakeStep DEF BusInv
<1>4. CASE Free
  <2>1. Phase = "idle" /\ Reply = None
    BY <1>4, <1>2 DEF Phase, Reply
  <2>2. CASE Free'
    <3>1. Phase' = "idle" /\ Reply' = None
      BY <2>2 DEF Phase, Reply, Free
    <3>2. xbus' = xbus
      BY <1>3, <2>2 DEF Free, Asked
    <3> QED BY <2>1, <3>1, <3>2 DEF Accelerator!Bus
  <2>3. CASE Asked'
    <3>1. Phase' = "asked" /\ Reply' = None
      BY <2>3 DEF Phase, Reply, Asked, Performed
    <3>2. xbus' \in Requests
      BY PollKept DEF PollType
    <3> QED BY <2>1, <3>1, <3>2 DEF Accelerator!Bus, Accelerator!Ask
  <2> QED BY <1>3, <1>4, <2>2, <2>3
<1>5. CASE Asked
  <2>1. Phase = "asked" /\ Reply = None
    BY <1>5 DEF Phase, Reply, Asked, Performed
  <2>2. Phase' = "asked" /\ Reply' = None
    BY <1>3, <1>5 DEF Phase, Reply, Selected, Performed
  <2>3. xbus' = xbus
    BY <1>3, <1>5, PhasesApart
  <2> QED BY <2>1, <2>2, <2>3 DEF Accelerator!Bus
<1>6. CASE Selected
  <2>1. ~xbus.we /\ xbus' = xbus
    BY <1>3, <1>6, PhasesApart DEF Nothing
  <2>2. Phase = "asked" /\ Reply = None
    BY <1>6 DEF Phase, Reply, Selected, Performed
  <2>3. Phase' = "asked" /\ Reply' = None
    BY <1>3, <1>6, <2>1 DEF Phase, Reply, Taken, Performed
  <2> QED BY <2>1, <2>2, <2>3 DEF Accelerator!Bus
<1>7. CASE Taken
  <2>1. Acked' /\ xbus' = xbus /\ xbus_dat_r' = rdata(xbus)
    BY <1>1, <1>3, <1>7, AnswerTaken
  <2>2. Phase' = "done"
    BY <2>1 DEF Phase, Performed, Acked
  <2>3. CASE xbus.we
    <3>1. Phase = "done" /\ Reply = None /\ Reply' = None
      BY <1>7, <2>1, <2>3 DEF Phase, Performed, Reply, Taken
    <3> QED BY <2>1, <2>2, <3>1 DEF Accelerator!Bus
  <2>4. CASE ~xbus.we
    <3>1. Phase = "asked" /\ Reply' = rdata(xbus)
      BY <1>7, <2>1, <2>4 DEF Phase, Performed, Reply, Taken, Acked
    <3>2. rdata(xbus) = Accelerator!Answer
      <4>1. CASE xbus.reg = "LUT"
        <5>1. lut_rdata_r = lut_mem[xbus.idx]
          BY <1>7, <2>4, <4>1 DEF ReadInv
        <5> QED BY <2>4, <4>1, <5>1, Same DEF rdata, Accelerator!Answer
      <4>2. CASE xbus.reg = "STATUS"
        <5>1. Busy = "load" <=> lut_load_active
          BY DEF Busy, BusInv, QuietInv
        <5>2. (Busy = "load") = lut_load_active
          BY <5>1 DEF BusInv, BusTypeOK, TpuTypeOK
        <5> QED BY <2>4, <4>2, <5>2, Same DEF rdata, Accelerator!Answer
      <4>3. CASE xbus.reg = "RES"
        <5>1. ~computing
          BY <1>7, <2>4, <4>3 DEF PollInv, IsStatus, IsStart, IsLoad, Taken
        <5>2. xbus.row \in Index
          BY DEF BusInv, BusTypeOK, Request
        <5>3. FinalSums[xbus.row] = acc[xbus.row]
          BY <5>1, <5>2 DEF FinalSums
        <5> QED BY <2>4, <4>3, <5>3, Same DEF rdata, Accelerator!Answer
      <4>4. CASE xbus.reg \notin {"LUT", "STATUS", "RES"}
        BY <2>4, <4>4, Same DEF rdata, Accelerator!Answer
      <4> QED BY <4>1, <4>2, <4>3, <4>4
    <3> QED BY <2>1, <2>2, <2>4, <3>1, <3>2 DEF Accelerator!Bus, Accelerator!Look
  <2> QED BY <2>3, <2>4
<1>8. CASE Acked
  <2>1. Phase = "done" /\ Free' /\ xbus' = xbus
    BY <1>3, <1>8, PhasesApart DEF Phase, Performed, Acked
  <2>2. Phase' = "idle" /\ Reply' = None
    BY <2>1 DEF Phase, Reply, Free
  <2> QED BY <2>1, <2>2 DEF Accelerator!Bus, Accelerator!Finish
<1> QED BY <1>4, <1>5, <1>6, <1>7, <1>8 DEF BusInv, Handshake

LEMMA ResetMaps ==
    ASSUME Reset
    PROVE  Accelerator!Reset
<1> USE DEF Reset, BusReset, TpuReset
<1>1. FinalWeights' = Accelerator!NoWeights
  <2>1. FinalWeights' = [p \in Cell |-> FinalWeight(p)']
    BY DEF FinalWeights, Cell, Index
  <2>2. \A p \in Cell : FinalWeight(p)' = 0
    BY DEF FinalWeight, LoadsWeight, NoWeights
  <2> QED BY <2>1, <2>2, Same DEF NoWeights
<1>2. FinalSums' = Accelerator!NoSums
  <2>1. FinalSums' = [r \in Index |-> 0]
    BY DEF FinalSums, computing, NoSums, Index
  <2> QED BY <2>1, Same DEF NoSums
<1>3. /\ Busy' = "no" /\ FinalAddr' = [row |-> 0, col |-> 0] /\ Phase' = "idle" /\ Reply' = None
      /\ UNCHANGED <<x_in_reg, lut_mem, xbus>>
  BY DEF Busy, computing, FinalAddr, Phase, Reply, lutVars
<1> QED BY <1>1, <1>2, <1>3 DEF Accelerator!Reset

LEMMA StutterMaps ==
    ASSUME UNCHANGED vars
    PROVE  UNCHANGED Accelerator!vars
<1> USE DEF vars, busVars, tpuVars, peVars, computeVars, weightVars, bulkVars, loadVars,
        loaderVars, lutVars, bridgeVars, xbusVars
<1>1. FinalWeights' = FinalWeights
  BY DEF FinalWeights, FinalWeight, Cell, Index, LoadsWeight, EntryOf, WeightIn
<1>2. FinalSums' = FinalSums
  BY DEF FinalSums, computing, Index, Signed, Dot, Partial
<1>3. Busy' = Busy /\ FinalAddr' = FinalAddr /\ Phase' = Phase /\ Reply' = Reply
  BY DEF Busy, computing, FinalAddr, Phase, Performed, Reply
<1> QED BY <1>1, <1>2, <1>3 DEF Accelerator!vars, Accelerator!deviceVars

LEMMA InitMaps ==
    ASSUME Init
    PROVE  Accelerator!Init
<1> USE DEF Init, BusInit, TpuInit
<1>1. FinalWeights = Accelerator!NoWeights
  BY Same DEF FinalWeights, FinalWeight, LoadsWeight, NoWeights
<1>2. FinalSums = Accelerator!NoSums
  BY Same DEF FinalSums, computing, NoSums
<1>3. Busy = "no" /\ FinalAddr = [row |-> 0, col |-> 0] /\ Phase = "idle" /\ Reply = None
  BY DEF Busy, computing, FinalAddr, Phase, Reply
<1>4. \E w \in PowerUpWords : lut_mem = [i \in Accelerator!LutIndex |-> w]
  BY Same
<1> QED BY <1>1, <1>2, <1>3, <1>4 DEF Accelerator!Init

(***************************************************************************)
(* Bridge, loaders and skewed array are the atomic accelerator: every      *)
(* write of polling firmware acts exactly once and whole, a start adds     *)
(* exactly W times x, STATUS never shows done early (tpu_accel.v,          *)
(* wb_tpu_accel.v, systolic_array_4x4.v).                                  *)
(***************************************************************************)
THEOREM ArrayIsAtomic == Spec => Refinement
<1>1. Init => Accelerator!Init
  BY InitMaps
<1>2. SysInv /\ [Next]_vars => [Accelerator!Next]_Accelerator!vars
  <2> SUFFICES ASSUME SysInv, [Next]_vars
               PROVE  [Accelerator!Next]_Accelerator!vars
    OBVIOUS
  <2>1. CASE Tick /\ Selected /\ xbus.we
    BY <2>1, Performs DEF Accelerator!Next
  <2>2. CASE Tick /\ Nothing
    BY <2>2, BusGoesOn, WorkGoesOn DEF Accelerator!Next
  <2>3. CASE Reset
    BY <2>3, ResetMaps DEF Accelerator!Next
  <2>4. CASE UNCHANGED vars
    BY <2>4, StutterMaps
  <2> QED BY <2>1, <2>2, <2>3, <2>4 DEF Next, Nothing
<1> QED BY InvCorrect, <1>1, <1>2, PTL DEF Spec, Refinement, Accelerator!Spec
=============================================================================
