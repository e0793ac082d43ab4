---------------------------- MODULE TpuBusProofs ----------------------------
(***************************************************************************)
(* The accelerator behind its bridge, for every size of the array, width   *)
(* of the accumulators and set of bytes: types, the handshake, the loaders *)
(* against it, what the skewed array computes, and what the second clock   *)
(* of a write finds, for any program that only reads a busy accelerator    *)
(* (Discipline).  The proofs about the two programs rest on these lemmas.  *)
(***************************************************************************)
EXTENDS TpuBus, TLAPS

-----------------------------------------------------------------------------
(***************************************************************************)
(* Arithmetic.                                                             *)
(***************************************************************************)
LEMMA Sizes ==
    /\ N \in {2, 3, 4} /\ AccMod \in Nat /\ AccMod > 0 /\ LutSize \in Nat /\ N * N <= LutSize
    /\ AccMod \div 2 \in Nat /\ AccMod = 2 * (AccMod \div 2) /\ AccMod \div 2 > 0
    /\ Byte \subseteq Int /\ 0 \in Byte /\ Index \subseteq 0 .. 3 /\ 0 \in Index /\ N - 1 \in Index
BY TpuAssumption DEF Index

LEMMA ModInt ==
    ASSUME NEW a \in Int, NEW m \in Nat, m > 0
    PROVE  a % m \in 0 .. m - 1 /\ a \div m \in Int /\ a = (a \div m) * m + (a % m)
OBVIOUS

\* The remainder is the only one in its range.
LEMMA ModUnique ==
    ASSUME NEW m \in Nat, m > 0, NEW q \in Int, NEW r \in 0 .. m - 1
    PROVE  (q * m + r) % m = r
<1> DEFINE a == q * m + r
<1>1. a \in Int /\ q * m \in Int
  OBVIOUS
<1>2. a % m \in 0 .. m - 1 /\ a \div m \in Int /\ a = (a \div m) * m + (a % m)
  BY <1>1, ModInt
<1>3. PICK d \in Int : a \div m = q + d
  <2>1. (a \div m) - q \in Int /\ a \div m = q + ((a \div m) - q)
    BY <1>2
  <2> QED BY <2>1
<1>4. a = q * m + d * m + (a % m) /\ d * m \in Int
  BY <1>2, <1>3
<1>5. d * m + (a % m) = r
  BY <1>1, <1>2, <1>4
<1> DEFINE z == d * m
           w == a % m
<1>6. z \in Int /\ w \in 0 .. m - 1 /\ z + w = r
  BY <1>2, <1>4, <1>5
<1>7. d >= 1 => z >= m
  <2> SUFFICES ASSUME d >= 1 PROVE d * m >= m
    OBVIOUS
  <2>1. d - 1 \in Nat
    OBVIOUS
  <2>2. d * m = m + (d - 1) * m /\ (d - 1) * m \in Nat
    BY <2>1
  <2> QED BY <2>2
<1>8. d <= -1 => z <= -m
  <2> SUFFICES ASSUME d <= -1 PROVE d * m <= -m
    OBVIOUS
  <2>1. (-1) - d \in Nat
    OBVIOUS
  <2>2. d * m = (-m) - ((-1) - d) * m /\ ((-1) - d) * m \in Nat
    BY <2>1
  <2> QED BY <2>2
<1>9. d = 0 => z = 0
  OBVIOUS
<1> HIDE DEF a, z, w
<1>10. d = 0
  BY <1>6, <1>7, <1>8
<1> QED BY <1>6, <1>9, <1>10 DEF w, a

LEMMA SignedType ==
    ASSUME NEW n \in Int
    PROVE  Signed(n) \in Sums /\ Signed(n) \in Int
<1>1. n + AccMod \div 2 \in Int
  BY Sizes
<1>2. (n + AccMod \div 2) % AccMod \in 0 .. AccMod - 1
  BY <1>1, ModInt, Sizes
<1> QED BY <1>2, Sizes DEF Signed, Sums

\* A value in range is its own.
LEMMA SignedSame ==
    ASSUME NEW n \in Sums
    PROVE  Signed(n) = n
<1>1. n \in Int /\ n + AccMod \div 2 \in 0 .. AccMod - 1
  BY Sizes DEF Sums
<1>2. (0 * AccMod + (n + AccMod \div 2)) % AccMod = n + AccMod \div 2
  BY <1>1, ModUnique, Sizes
<1> QED BY <1>1, <1>2, Sizes DEF Signed

LEMMA SignedZero == 0 \in Sums /\ Signed(0) = 0
BY Sizes, SignedSame DEF Sums

\* Overflow on the way does not show in the sum.
LEMMA SignedSum ==
    ASSUME NEW a \in Int, NEW b \in Int
    PROVE  Signed(Signed(a) + b) = Signed(a + b) /\ Signed(a + Signed(b)) = Signed(a + b)
<1>1. ASSUME NEW c \in Int, NEW d \in Int
      PROVE  Signed(Signed(c) + d) = Signed(c + d)
  <2> DEFINE h == AccMod \div 2
             q == (c + h) \div AccMod
             e == (Signed(c) + d + h) \div AccMod
             t == (Signed(c) + d + h) % AccMod
  <2>1. h \in Nat /\ c + h \in Int
    BY Sizes
  <2>2. q \in Int /\ c + h = q * AccMod + ((c + h) % AccMod) /\ (c + h) % AccMod \in Int
    BY <2>1, ModInt, Sizes
  <2>3. Signed(c) = ((c + h) % AccMod) - h
    BY DEF Signed
  <2>4. Signed(c) + d + h \in Int
    BY <2>1, <2>2, <2>3
  <2>5. e \in Int /\ t \in 0 .. AccMod - 1 /\ Signed(c) + d + h = e * AccMod + t
    BY <2>4, ModInt, Sizes
  <2>6. Signed(Signed(c) + d) = t - h
    BY DEF Signed
  <2>7. Signed(c + d) = ((c + d + h) % AccMod) - h
    BY DEF Signed
  <2> HIDE DEF h, q, e, t
  <2>8. c + d + h = q * AccMod + e * AccMod + t
    <3> DEFINE y == q * AccMod
               z == e * AccMod
               w == (c + h) % AccMod
               v == Signed(c)
    <3>1. y \in Int /\ z \in Int /\ w \in Int /\ v \in Int
      BY <2>2, <2>5, Sizes, SignedType
    <3>2. c + h = y + w /\ v = w - h /\ v + d + h = z + t /\ t \in Int
      BY <2>2, <2>3, <2>5, Sizes
    <3> HIDE DEF y, z, w, v
    <3>3. c + d + h = y + z + t
      BY <2>1, <3>1, <3>2
    <3> QED BY <3>3 DEF y, z
  <2>9. q * AccMod + e * AccMod = (q + e) * AccMod
    BY <2>2, <2>5, Sizes
  <2>10. (c + d + h) % AccMod = t
    <3>1. ((q + e) * AccMod + t) % AccMod = t
      <4> DEFINE g == q + e
      <4>1. g \in Int /\ t \in 0 .. AccMod - 1
        BY <2>2, <2>5
      <4> HIDE DEF g
      <4>2. (g * AccMod + t) % AccMod = t
        BY <4>1, ModUnique, Sizes
      <4> QED BY <4>2 DEF g
    <3> QED BY <2>8, <2>9, <3>1
  <2> QED BY <2>6, <2>7, <2>10
<1>2. a + Signed(b) = Signed(b) + a /\ a + b = b + a
  BY SignedType
<1> QED BY <1>1, <1>2
-----------------------------------------------------------------------------
(***************************************************************************)
(* Every register keeps to its range.                                      *)
(***************************************************************************)
LEMMA Cells ==
    /\ \A p \in Cell : p[1] \in Index /\ p[2] \in Index /\ p = <<p[1], p[2]>>
    /\ \A r \in Index, c \in Index : <<r, c>> \in Cell
BY DEF Cell

\* What enters an element is a byte and a sum.
LEMMA Inputs ==
    ASSUME TpuTypeOK, NEW p \in Cell
    PROVE  XIn(p) \in Byte /\ PsumIn(p) \in Sums /\ XIn(p) \in Int /\ PsumIn(p) \in Int
           /\ w_reg[p] \in Int
<1>1. p[1] \in Index /\ p[2] \in Index
  BY Cells
<1>2. p[1] = 0 \/ <<p[1] - 1, p[2]>> \in Cell
  BY <1>1, Cells, Sizes DEF Index
<1>3. p[2] = 0 \/ <<p[1], p[2] - 1>> \in Cell
  BY <1>1, Cells, Sizes DEF Index
<1>4. x_in_reg[p[2]] \in Byte
  BY <1>1, Sizes DEF TpuTypeOK, Word
<1>5. XIn(p) \in Byte
  BY <1>2, <1>4, Sizes DEF XIn, sa_x_in, TpuTypeOK
<1>6. PsumIn(p) \in Sums
  BY <1>3, SignedZero DEF PsumIn, TpuTypeOK
<1>7. w_reg[p] \in Byte
  BY DEF TpuTypeOK
<1>8. \A b \in Byte : b \in Int
  BY Sizes
<1>9. \A n \in Sums : n \in Int
  BY DEF Sums
<1> QED BY <1>5, <1>6, <1>7, <1>8, <1>9

LEMMA ArrayType ==
    ASSUME TpuTypeOK, ArrayStep
    PROVE  w_reg' \in [Cell -> Byte] /\ x_out' \in [Cell -> Byte] /\ psum' \in [Cell -> Sums]
<1>1. ASSUME NEW p \in Cell
      PROVE  Signed(PsumIn(p) + w_reg[p] * XIn(p)) \in Sums
  <2>1. PsumIn(p) + w_reg[p] * XIn(p) \in Int
    BY Inputs
  <2> QED BY <2>1, SignedType
<1>2. w_reg' \in [Cell -> Byte]
  BY DEF ArrayStep, TpuTypeOK
<1>3. x_out' \in [Cell -> Byte]
  BY Inputs DEF ArrayStep, TpuTypeOK
<1>4. psum' \in [Cell -> Sums]
  BY <1>1 DEF ArrayStep, TpuTypeOK
<1> QED BY <1>2, <1>3, <1>4

LEMMA ComputeType ==
    ASSUME TpuTypeOK, NEW sel, NEW q, ComputeStep(sel, q)
    PROVE  acc' \in [Index -> Sums] /\ done' \in BOOLEAN /\ compute_cnt' \in 0 .. LastCount
<1>1. ASSUME NEW r \in Index
      PROVE  Signed(acc[r] + result(r)) \in Sums
  <2>1. acc[r] \in Int /\ result(r) \in Int
    BY Cells, Sizes DEF TpuTypeOK, result, Sums
  <2> QED BY <2>1, SignedType
<1>2. acc' \in [Index -> Sums]
  BY <1>1, SignedZero DEF ComputeStep, Accumulating, TpuTypeOK
<1>3. compute_cnt' \in 0 .. LastCount
  BY Sizes DEF ComputeStep, Counting, TpuTypeOK, LastCount, computing
<1> QED BY <1>2, <1>3 DEF ComputeStep, Finishing

\* Where the loads put a weight.
LEMMA EntryCell ==
    ASSUME NEW i \in 0 .. N * N - 1
    PROVE  /\ i \div N \in Index /\ i % N \in Index /\ i \in LutIndex
           /\ EntryOf(<<i \div N, i % N>>) = i
           /\ i # N * N - 1 => i + 1 \in 0 .. N * N - 1
<1>1. CASE N = 2
  BY <1>1, Sizes DEF Index, EntryOf, LutIndex
<1>2. CASE N = 3
  BY <1>2, Sizes DEF Index, EntryOf, LutIndex
<1>3. CASE N = 4
  BY <1>3, Sizes DEF Index, EntryOf, LutIndex
<1> QED BY <1>1, <1>2, <1>3, Sizes

LEMMA CellEntry ==
    ASSUME NEW p \in Cell
    PROVE  /\ EntryOf(p) \in 0 .. N * N - 1
           /\ EntryOf(p) \div N = p[1] /\ EntryOf(p) % N = p[2]
<1>0. p[1] \in Index /\ p[2] \in Index
  BY Cells
<1>1. CASE N = 2
  BY <1>0, <1>1, Sizes DEF Index, EntryOf
<1>2. CASE N = 3
  BY <1>0, <1>2, Sizes DEF Index, EntryOf
<1>3. CASE N = 4
  BY <1>0, <1>3, Sizes DEF Index, EntryOf
<1> QED BY <1>1, <1>2, <1>3, Sizes

LoaderTypeOK ==
    /\ x_in_reg \in Word /\ w_addr \in [row : Index, col : Index]
    /\ sa_load_weight \in BOOLEAN /\ sa_w \in [row : Index, col : Index, data : Byte]
    /\ bulk_active \in BOOLEAN /\ bulk_phase \in 0 .. N - 2
    /\ bulk_data \in Word /\ bulk_row \in Index
    /\ lut_load_active \in BOOLEAN /\ lut_load_idx \in 0 .. N * N - 1
    /\ lut_load_phase \in BOOLEAN

LEMMA LoaderType ==
    ASSUME TpuTypeOK, NEW sel, NEW q \in Request, LoaderStep(sel, q)
    PROVE  LoaderTypeOK'
<1> USE DEF LoaderTypeOK, TpuTypeOK, EndPulse, weightVars, bulkVars, loadVars, Pulse
<1>0. q.row \in Index /\ q.col \in Index /\ q.word \in Word /\ q.word[0] \in Byte
  BY DEF Request, Word
<1>z. 0 \in Index /\ 0 \in 0 .. N - 2 /\ 0 \in 0 .. N * N - 1
  BY Sizes
<1>1. CASE BulkLoad
  <2>1. bulk_phase + 1 \in Index /\ bulk_data[bulk_phase + 1] \in Byte
    BY Sizes DEF Index, Word
  <2>2. (bulk_row + 1) % N \in Index
    BY Sizes DEF Index
  <2>3. bulk_phase # N - 2 => bulk_phase + 1 \in 0 .. N - 2
    BY Sizes
  <2>4. w_addr' \in [row : Index, col : Index]
    BY <1>1, <2>2 DEF BulkLoad
  <2> QED BY <1>1, <2>1, <2>3, <2>4 DEF BulkLoad
<1>2. CASE LutAddress
  BY <1>2 DEF LutAddress
<1>3. CASE LutWeight
  <2>1. WeightIn(lut_rdata_r) \in Byte
    BY DEF WeightIn, Word
  <2>2. lut_load_idx \div N \in Index /\ lut_load_idx % N \in Index
        /\ (lut_load_idx # N * N - 1 => lut_load_idx + 1 \in 0 .. N * N - 1)
    BY EntryCell
  <2> QED BY <1>3, <2>1, <2>2 DEF LutWeight
<1>4. CASE WriteAddr(sel, q)
  BY <1>4, <1>0 DEF WriteAddr
<1>5. CASE WriteX(sel, q)
  BY <1>5, <1>0 DEF WriteX
<1>6. CASE WriteData(sel, q)
  BY <1>6, <1>0 DEF WriteData
<1>7. CASE WriteData4(sel, q)
  BY <1>7, <1>0, <1>z DEF WriteData4
<1>8. CASE WriteLoad(sel, q)
  BY <1>8, <1>z DEF WriteLoad
<1>9. CASE NoLoad(sel, q)
  BY <1>9 DEF NoLoad
<1> QED BY <1>1, <1>2, <1>3, <1>4, <1>5, <1>6, <1>7, <1>8, <1>9 DEF LoaderStep

LEMMA TpuType ==
    ASSUME TpuTypeOK, NEW sel, NEW q \in Request, TpuStep(sel, q)
    PROVE  TpuTypeOK'
<1>1. w_reg' \in [Cell -> Byte] /\ x_out' \in [Cell -> Byte] /\ psum' \in [Cell -> Sums]
  BY ArrayType DEF TpuStep
<1>2. acc' \in [Index -> Sums] /\ done' \in BOOLEAN /\ compute_cnt' \in 0 .. LastCount
  BY ComputeType DEF TpuStep
<1>3. LoaderTypeOK'
  BY LoaderType DEF TpuStep
<1>4. lut_mem' \in [LutIndex -> Word] /\ lut_rdata_r' \in Word
  <2>1. q.word \in Word /\ q.idx \in LutIndex /\ lut_load_idx \in LutIndex
    BY EntryCell DEF Request, TpuTypeOK
  <2>2. lut_mem' \in [LutIndex -> Word]
    BY <2>1 DEF TpuStep, LutStep, TpuTypeOK
  <2>3. lut_rd_addr_mux(q) \in LutIndex
    BY <2>1 DEF lut_rd_addr_mux
  <2> QED BY <2>2, <2>3 DEF TpuStep, LutStep, TpuTypeOK
<1>5. ready_r' \in BOOLEAN
  BY DEF TpuStep, ReadyStep
<1>6. LastCount' = LastCount
  BY DEF LastCount
<1> QED BY <1>1, <1>2, <1>3, <1>4, <1>5, <1>6 DEF TpuTypeOK, LoaderTypeOK

LEMMA ReadType ==
    ASSUME TpuTypeOK, NEW q \in Request
    PROVE  rdata(q) \in ReadData /\ ZeroData \in ReadData
<1>1. ZeroData \in ReadData
  BY SignedZero, Sizes DEF ZeroData, ReadData, ZeroWord, Word
<1>2. q.row \in Index
  BY DEF Request
<1>3. CASE q.reg = "LUT"
  BY <1>1, <1>3 DEF rdata, ReadData, TpuTypeOK
<1>4. CASE q.reg = "STATUS"
  BY <1>1, <1>4 DEF rdata, ReadData, TpuTypeOK
<1>5. CASE q.reg = "RES"
  BY <1>1, <1>2, <1>5 DEF rdata, ReadData, TpuTypeOK
<1>6. CASE q.reg \notin {"LUT", "STATUS", "RES"}
  BY <1>1, <1>6 DEF rdata
<1> QED BY <1>1, <1>3, <1>4, <1>5, <1>6

\* The CPU's side of a clock.
Cpu == Idle \/ (\E q \in Request : Ask(q)) \/ Await \/ Finish

LEMMA BusType ==
    ASSUME BusTypeOK, TpuClock, Cpu
    PROVE  BusTypeOK'
<1>1. TpuTypeOK'
  BY TpuType DEF BusTypeOK, TpuClock
<1>2. xbus_dat_r' \in ReadData
  BY ReadType DEF BusTypeOK, TpuClock, Bridge
<1>3. pending' \in BOOLEAN /\ xbus_ack' \in BOOLEAN
  BY DEF BusTypeOK, TpuClock, Bridge, Completed, TpuTypeOK
<1>4. xbus' \in Request /\ xbus_stb' \in BOOLEAN /\ xbus_cyc' \in BOOLEAN
  BY DEF BusTypeOK, Cpu, Idle, Ask, Await, Finish, xbusVars
<1> QED BY <1>1, <1>2, <1>3, <1>4 DEF BusTypeOK

LEMMA BusResetType ==
    ASSUME BusTypeOK, BusReset
    PROVE  BusTypeOK'
<1>1. NoWeights \in [Cell -> Byte] /\ NoSums \in [Index -> Sums] /\ ZeroWord \in Word
      /\ 0 \in Index /\ 0 \in 0 .. N - 2 /\ 0 \in 0 .. N * N - 1 /\ 0 \in Sums
      /\ 0 \in 0 .. LastCount /\ ZeroData \in ReadData
  BY Sizes, SignedZero DEF NoWeights, NoSums, ZeroWord, Word, ZeroData, ReadData, LastCount
<1>2. NoWeights \in [Cell -> Sums]
  BY <1>1 DEF NoWeights
<1>3. TpuTypeOK'
  BY <1>1, <1>2 DEF BusTypeOK, TpuTypeOK, BusReset, TpuReset, lutVars, LastCount
<1> QED BY <1>1, <1>3 DEF BusTypeOK, BusReset

LEMMA BusInitType ==
    ASSUME NEW requests \in SUBSET Request, BusInit(requests)
    PROVE  BusTypeOK
<1>1. NoWeights \in [Cell -> Byte] /\ NoSums \in [Index -> Sums] /\ ZeroWord \in Word
      /\ 0 \in Index /\ 0 \in 0 .. N - 2 /\ 0 \in 0 .. N * N - 1 /\ 0 \in Sums /\ 0 \in Byte
      /\ 0 \in 0 .. LastCount /\ ZeroData \in ReadData
  BY Sizes, SignedZero DEF NoWeights, NoSums, ZeroWord, Word, ZeroData, ReadData, LastCount
<1>2. NoWeights \in [Cell -> Sums]
  BY <1>1 DEF NoWeights
<1>3. TpuTypeOK
  <2>1. x_in_reg \in Word /\ lut_mem \in [LutIndex -> Word]
    BY BusAssumption DEF BusInit, TpuInit
  <2> QED BY <1>1, <1>2, <2>1 DEF TpuTypeOK, BusInit, TpuInit
<1> QED BY <1>1, <1>3 DEF BusTypeOK, BusInit
-----------------------------------------------------------------------------
(***************************************************************************)
(* The handshake, and the loaders against it.                              *)
(***************************************************************************)
Asked == xbus_cyc /\ xbus_stb /\ ~pending /\ ~ready_r /\ ~xbus_ack
Selected == xbus_cyc /\ ~xbus_stb /\ pending /\ ~ready_r /\ ~xbus_ack
Taken == xbus_cyc /\ ~xbus_stb /\ pending /\ ready_r /\ ~xbus_ack
Acked == xbus_cyc /\ ~xbus_stb /\ ~pending /\ ~ready_r /\ xbus_ack
Free == ~xbus_cyc /\ ~xbus_stb /\ ~pending /\ ~ready_r /\ ~xbus_ack

Handshake == Free \/ Asked \/ Selected \/ Taken \/ Acked

\* A row write starts as its request is taken and is over before the next request
\* reaches the accelerator.
RowInv ==
    /\ bulk_active => /\ ~lut_load_active
                      /\ \/ Taken /\ bulk_phase = 0
                         \/ Acked /\ bulk_phase = 1
                         \/ Free /\ bulk_phase = 2
    /\ Taken /\ xbus.we /\ xbus.reg = "W_DATA4" => bulk_active

\* What the CPU does on the bus: one request after the other, no order for both
\* a computation and a load, and only reads of a busy accelerator.
OneOrder(q) == q.we /\ q.reg = "CTRL" => ~({"start", "load"} \subseteq q.bits)
Discipline ==
    /\ Cpu
    /\ ~xbus_cyc /\ xbus_cyc' => OneOrder(xbus') /\ (computing \/ lut_load_active => ~xbus'.we)

\* What the discipline gains.
QuietInv ==
    /\ xbus_cyc => OneOrder(xbus)
    /\ computing => ~done /\ ~sa_load_weight /\ ~bulk_active /\ ~lut_load_active
    /\ computing \/ lut_load_active => (Asked \/ Selected => ~xbus.we)
    /\ Taken /\ xbus.we => /\ computing => xbus.reg = "CTRL" /\ "start" \in xbus.bits
                           /\ lut_load_active <=> xbus.reg = "CTRL" /\ "load" \in xbus.bits

BusInv == BusTypeOK /\ Handshake /\ RowInv /\ QuietInv

LEMMA RowOver ==
    ASSUME BusTypeOK, RowInv, LoaderStep(pending, xbus), Free, bulk_active
    PROVE  ~bulk_active'
<1>1. bulk_phase = 2 /\ ~lut_load_active
  BY DEF RowInv, Free, Taken, Acked
<1>2. bulk_phase = N - 2
  <2>1. bulk_phase \in 0 .. N - 2
    BY DEF BusTypeOK, TpuTypeOK
  <2> QED BY <1>1, <2>1, Sizes
<1>3. BulkLoad
  BY <1>1 DEF LoaderStep, LutAddress, LutWeight, WriteAddr, WriteX, WriteData, WriteData4,
     WriteLoad, NoLoad, Writes, Control, StartsLoad
<1> QED BY <1>2, <1>3 DEF BulkLoad

\* One clock of the handshake.
LEMMA HandshakeStep ==
    ASSUME BusTypeOK, Handshake, RowInv, TpuClock, Cpu
    PROVE  /\ Free => (Free' \/ Asked') /\ ~bulk_active'
           /\ Asked => Selected' /\ ~bulk_active'
           /\ Selected => Taken'
           /\ Taken => Acked'
           /\ Acked => Free'
           /\ xbus' = xbus \/ (Free /\ Asked' /\ ~xbus_cyc /\ xbus_cyc')
<1> USE DEF Free, Asked, Selected, Taken, Acked
<1>1. pending' = (IF Completed THEN FALSE ELSE pending \/ (xbus_cyc /\ xbus_stb))
      /\ xbus_ack' = Completed /\ ready_r' = (pending /\ ~ready_r /\ ~bulk_active)
  BY DEF TpuClock, Bridge, TpuStep, ReadyStep
<1>2. xbus_cyc \in BOOLEAN /\ xbus_stb \in BOOLEAN /\ pending \in BOOLEAN /\ ready_r \in BOOLEAN
      /\ xbus_ack \in BOOLEAN
  BY DEF BusTypeOK, TpuTypeOK
<1>3. LoaderStep(pending, xbus)
  BY DEF TpuClock, TpuStep
<1>4. Free /\ bulk_active => ~bulk_active'
  BY <1>3, RowOver
<1>5. ~pending /\ ~bulk_active => ~bulk_active'
  BY <1>3 DEF LoaderStep, BulkLoad, LutAddress, LutWeight, WriteAddr, WriteX,
     WriteData, WriteData4, WriteLoad, NoLoad, Writes, Control, StartsLoad, bulkVars
<1>6. Asked \/ Selected => ~bulk_active
  BY <1>2 DEF RowInv
<1>7. CASE Idle
  BY <1>1, <1>2, <1>4, <1>5, <1>7 DEF Idle, xbusVars, Completed, Handshake
<1>8. CASE \E q \in Request : Ask(q)
  BY <1>1, <1>2, <1>4, <1>5, <1>8 DEF Ask, Completed, Handshake
<1>9. CASE Await
  BY <1>1, <1>2, <1>5, <1>6, <1>9 DEF Await, Completed, Handshake
<1>10. CASE Finish
  BY <1>1, <1>2, <1>5, <1>10 DEF Finish, Completed, Handshake
<1> QED BY <1>7, <1>8, <1>9, <1>10 DEF Cpu

\* Only one phase at a time.
LEMMA PhasesApart ==
    /\ Free => ~Asked /\ ~Selected /\ ~Taken /\ ~Acked /\ ~pending
    /\ Asked => ~Selected /\ ~Taken /\ ~Acked /\ ~pending
    /\ Selected => ~Taken /\ ~Acked /\ pending
    /\ Taken => ~Acked /\ pending
    /\ Acked => ~pending
BY DEF Free, Asked, Selected, Taken, Acked

\* Which loader is at work.
LEMMA LoaderSplit ==
    ASSUME RowInv, NEW sel, NEW q, LoaderStep(sel, q)
    PROVE  /\ bulk_active => BulkLoad
           /\ lut_load_active => LutAddress \/ LutWeight
           /\ ~bulk_active /\ ~lut_load_active =>
                 \/ WriteAddr(sel, q) \/ WriteX(sel, q) \/ WriteData(sel, q) \/ WriteData4(sel, q)
                 \/ WriteLoad(sel, q) \/ NoLoad(sel, q)
BY DEF RowInv, LoaderStep, BulkLoad, LutAddress, LutWeight, WriteAddr, WriteX, WriteData,
   WriteData4, WriteLoad, NoLoad, Writes, Control, StartsLoad

\* No request reaches the accelerator while nothing is selected.
LEMMA Unselected ==
    ASSUME RowInv, LoaderStep(FALSE, xbus), NEW q, ComputeStep(FALSE, q)
    PROVE  /\ lut_load_active' => lut_load_active
           /\ compute_cnt' # 0 => computing
           /\ bulk_active' => bulk_active
           /\ ~lut_load_active /\ ~bulk_active => ~sa_load_weight'
BY LoaderSplit DEF ComputeStep, Counting, Starts, Control, computing, BulkLoad, LutAddress,
   LutWeight, WriteAddr, WriteX, WriteData, WriteData4, WriteLoad, NoLoad, Writes, Control,
   StartsLoad, bulkVars, loadVars, EndPulse

\* The next phase tells the phase.
LEMMA PhaseBack ==
    ASSUME BusTypeOK, Handshake, RowInv, TpuClock, Cpu
    PROVE  /\ Handshake'
           /\ Free' \/ Asked' => Free \/ Acked
           /\ Asked' => Free
           /\ Selected' => Asked /\ xbus' = xbus
           /\ Taken' => Selected /\ xbus' = xbus
           /\ Acked' => Taken
           /\ Selected \/ Taken => pending
           /\ Free \/ Asked \/ Acked => ~pending
<1>1. /\ Free => (Free' \/ Asked') /\ ~bulk_active'
      /\ Asked => Selected' /\ ~bulk_active'
      /\ Selected => Taken'
      /\ Taken => Acked'
      /\ Acked => Free'
      /\ xbus' = xbus \/ (Free /\ Asked' /\ ~xbus_cyc /\ xbus_cyc')
  BY HandshakeStep
<1>2. /\ Free' => ~Asked' /\ ~Selected' /\ ~Taken' /\ ~Acked'
      /\ Asked' => ~Selected' /\ ~Taken' /\ ~Acked'
      /\ Selected' => ~Taken' /\ ~Acked'
      /\ Taken' => ~Acked'
  BY DEF Free, Asked, Selected, Taken, Acked
<1>3. Handshake' <=> (Free' \/ Asked' \/ Selected' \/ Taken' \/ Acked')
  BY DEF Handshake
<1> QED BY <1>1, <1>2, <1>3, PhasesApart DEF Handshake

LEMMA RowKept ==
    ASSUME BusInv, TpuClock, Discipline
    PROVE  RowInv'
<1> USE DEF BusInv
<1>1. LoaderStep(pending, xbus) /\ Cpu
  BY DEF TpuClock, TpuStep, Discipline
<1>2. /\ Free => ~bulk_active'
      /\ Asked => ~bulk_active'
      /\ Taken => Acked' /\ ~Taken'
      /\ Acked => Free' /\ ~Taken'
      /\ Selected => Taken'
  BY <1>1, HandshakeStep DEF Free, Asked, Taken, Acked, Selected
<1>3. Taken' => Selected /\ xbus' = xbus
  BY <1>1, PhaseBack
<1>4. Free \/ Asked => ~Taken'
  BY <1>3, PhasesApart
<1>5. CASE bulk_active
  <2>1. BulkLoad /\ ~lut_load_active'
    BY <1>1, <1>5, LoaderSplit DEF BulkLoad, loadVars, RowInv
  <2>2. bulk_active' => bulk_phase' = bulk_phase + 1
    BY <2>1 DEF BulkLoad
  <2> QED BY <1>2, <1>3, <1>4, <1>5, <2>1, <2>2, PhasesApart DEF RowInv
<1>6. CASE ~bulk_active
  <2>1. Selected /\ xbus.we => ~lut_load_active
    BY DEF QuietInv
  <2>2. bulk_active' => WriteData4(pending, xbus) /\ ~lut_load_active
    BY <1>1, <1>6, LoaderSplit DEF LutAddress, LutWeight, WriteAddr, WriteX, WriteData,
       WriteLoad, NoLoad, bulkVars
  <2>3. WriteData4(pending, xbus) => pending /\ ~lut_load_active' /\ bulk_phase' = 0
                                     /\ xbus.we /\ xbus.reg = "W_DATA4"
    BY <2>2 DEF WriteData4, loadVars, Writes
  <2>4. Selected /\ xbus.we /\ xbus.reg = "W_DATA4" => bulk_active'
    <3> SUFFICES ASSUME Selected, xbus.we, xbus.reg = "W_DATA4"
                 PROVE  bulk_active'
      OBVIOUS
    <3>1. Writes(pending, xbus, "W_DATA4")
      BY <1>6, <2>1, PhasesApart DEF Writes
    <3> QED BY <1>1, <1>6, <2>1, <3>1, LoaderSplit DEF WriteAddr, WriteX, WriteData, WriteData4,
       WriteLoad, NoLoad, Writes, StartsLoad, Control
  <2>5. Taken /\ xbus.we /\ xbus.reg = "W_DATA4" => bulk_active
    BY DEF RowInv
  <2>6. bulk_active' => Selected
    BY <1>6, <2>2, <2>3, <2>5, PhasesApart DEF Handshake
  <2> QED BY <1>2, <1>3, <2>2, <2>3, <2>4, <2>6 DEF RowInv
<1> QED BY <1>5, <1>6

\* A started computation stops the pulses, and nothing starts one until it is over.
LEMMA QuietKept ==
    ASSUME BusInv, TpuClock, Discipline
    PROVE  QuietInv'
<1> USE DEF BusInv
<1>1. LoaderStep(pending, xbus) /\ ComputeStep(pending, xbus) /\ Cpu
  BY DEF TpuClock, TpuStep, Discipline
<1>2. /\ Asked' => Free
      /\ Selected' => Asked /\ xbus' = xbus
      /\ Taken' => Selected /\ xbus' = xbus
      /\ Free \/ Asked \/ Acked => ~pending
      /\ Selected \/ Taken => pending
      /\ Free \/ Asked \/ Selected \/ Taken \/ Acked
  BY <1>1, PhaseBack DEF Handshake
<1>3. ~pending => (lut_load_active' => lut_load_active) /\ (computing' => computing)
  <2> SUFFICES ASSUME pending = FALSE
               PROVE  (lut_load_active' => lut_load_active) /\ (computing' => computing)
    BY DEF BusTypeOK
  <2> QED BY <1>1, Unselected DEF computing
<1>4. xbus_cyc' => OneOrder(xbus')
  <2>1. xbus' = xbus \/ (~xbus_cyc /\ xbus_cyc')
    BY <1>1, HandshakeStep
  <2>2. xbus_cyc' => xbus_cyc \/ (~xbus_cyc /\ xbus_cyc')
    OBVIOUS
  <2> QED BY <2>1, <2>2 DEF Discipline, QuietInv, OneOrder
<1>5. computing' \/ lut_load_active' => (Asked' \/ Selected' => ~xbus'.we)
  <2>1. Asked' => ~xbus_cyc /\ xbus_cyc'
    BY <1>2 DEF Free, Asked
  <2>2. Asked' => (computing \/ lut_load_active => ~xbus'.we)
    BY <2>1 DEF Discipline
  <2> QED BY <1>2, <1>3, <2>2 DEF QuietInv
<1>6. pending => xbus_cyc
  BY <1>2 DEF Free, Asked, Selected, Taken, Acked
<1>7. CASE computing
  <2>1. ~bulk_active /\ ~lut_load_active /\ ~done /\ (Selected => ~xbus.we)
    BY <1>7 DEF QuietInv
  <2>2. pending /\ xbus.we => Taken /\ xbus.reg = "CTRL"
    BY <1>2, <1>7, <2>1 DEF QuietInv
  <2>3. NoLoad(pending, xbus)
    BY <1>1, <1>7, <2>1, <2>2, LoaderSplit DEF WriteAddr, WriteX, WriteData, WriteData4,
       WriteLoad, Writes, StartsLoad, Control
  <2>4. ~sa_load_weight' /\ ~bulk_active' /\ ~lut_load_active'
    BY <2>1, <2>3 DEF NoLoad, EndPulse, bulkVars, loadVars
  <2>5. computing' => ~done'
    <3>1. compute_cnt = LastCount => compute_cnt' = 0
      BY <1>1, <1>7 DEF ComputeStep, Counting
    <3> QED BY <1>1, <2>1, <3>1 DEF ComputeStep, Finishing, computing
  <2>6. Taken' => ~xbus'.we
    BY <1>2, <2>1
  <2> QED BY <1>4, <1>5, <2>4, <2>5, <2>6 DEF QuietInv
<1>8. CASE ~computing
  <2>1. computing' => Starts(pending, xbus)
    BY <1>1, <1>8 DEF ComputeStep, Counting, computing
  <2>2. Starts(pending, xbus) => pending /\ xbus.we /\ xbus.reg = "CTRL"
                                 /\ "start" \in xbus.bits /\ "load" \notin xbus.bits
                                 /\ ~bulk_active /\ ~lut_load_active
    BY <1>6 DEF Starts, Control, Writes, QuietInv, OneOrder
  <2>3. computing' => NoLoad(pending, xbus)
    BY <1>1, <2>1, <2>2, LoaderSplit DEF WriteAddr, WriteX, WriteData, WriteData4,
       WriteLoad, Writes, StartsLoad, Control
  <2>4. computing' => ~done' /\ ~sa_load_weight' /\ ~bulk_active' /\ ~lut_load_active'
    <3>1. computing' => ~done'
      BY <1>1, <2>1 DEF ComputeStep, Finishing
    <3> QED BY <2>1, <2>2, <2>3, <3>1 DEF NoLoad, EndPulse, bulkVars, loadVars
  <2>5. Taken' => (computing' => xbus'.reg = "CTRL" /\ "start" \in xbus'.bits)
    BY <1>2, <2>1, <2>2
  <2>6. Taken' /\ xbus'.we => (lut_load_active' <=> xbus'.reg = "CTRL" /\ "load" \in xbus'.bits)
    <3> SUFFICES ASSUME Taken', xbus'.we
                 PROVE  lut_load_active' <=> xbus'.reg = "CTRL" /\ "load" \in xbus'.bits
      OBVIOUS
    <3>1. Selected /\ xbus' = xbus /\ pending /\ ~lut_load_active
      BY <1>2 DEF QuietInv
    <3>2. ~bulk_active
      BY <3>1, PhasesApart DEF RowInv
    <3>3. lut_load_active' => WriteLoad(pending, xbus)
      BY <1>1, <3>1, <3>2, LoaderSplit DEF WriteAddr, WriteX, WriteData, WriteData4, NoLoad,
         loadVars
    <3>4. StartsLoad(pending, xbus) => lut_load_active'
      BY <1>1, <3>1, <3>2, LoaderSplit DEF WriteAddr, WriteX, WriteData, WriteData4, WriteLoad,
         NoLoad, Writes, StartsLoad, Control
    <3>5. StartsLoad(pending, xbus) <=> xbus.reg = "CTRL" /\ "load" \in xbus.bits
      BY <1>8, <3>1, <3>2 DEF StartsLoad, Control, Writes
    <3> QED BY <3>1, <3>3, <3>4, <3>5 DEF WriteLoad
  <2> QED BY <1>4, <1>5, <2>4, <2>5, <2>6 DEF QuietInv
<1> QED BY <1>7, <1>8

LEMMA BusKept ==
    ASSUME BusInv, TpuClock, Discipline
    PROVE  BusInv'
<1>1. Cpu
  BY DEF Discipline
<1>2. BusTypeOK' /\ Handshake'
  BY <1>1, BusType, PhaseBack DEF BusInv
<1> QED BY <1>2, RowKept, QuietKept DEF BusInv

LEMMA BusResetKept ==
    ASSUME BusInv, BusReset
    PROVE  BusInv'
<1>1. BusTypeOK'
  BY BusResetType DEF BusInv
<1>2. Handshake'
  BY DEF BusReset, TpuReset, Handshake, Free
<1>3. RowInv'
  BY DEF BusReset, TpuReset, RowInv, Taken
<1>4. QuietInv'
  BY DEF BusReset, TpuReset, QuietInv, Taken, computing
<1> QED BY <1>1, <1>2, <1>3, <1>4 DEF BusInv

LEMMA BusInitInv ==
    ASSUME NEW requests \in SUBSET Request, BusInit(requests)
    PROVE  BusInv
<1>1. BusTypeOK
  BY BusInitType
<1>2. Handshake
  BY DEF BusInit, TpuInit, Handshake, Free
<1>3. RowInv
  BY DEF BusInit, TpuInit, RowInv, Taken
<1>4. QuietInv
  BY DEF BusInit, TpuInit, QuietInv, Taken, computing
<1> QED BY <1>1, <1>2, <1>3, <1>4 DEF BusInv
-----------------------------------------------------------------------------
(***************************************************************************)
(* What the skewed array computes.  At count k the elements on the         *)
(* diagonal r + c + 2 = k hold the inputs of their columns and the sums of *)
(* their rows so far, and all others hold zero.                            *)
(***************************************************************************)
OnDiagonal(p) == compute_cnt = p[1] + p[2] + 2

ArrayInv ==
    \A p \in Cell :
        /\ x_out[p] = IF OnDiagonal(p) THEN x_in_reg[p[2]] ELSE 0
        /\ psum[p] = IF OnDiagonal(p) THEN Signed(Partial(w_reg, x_in_reg, p[1], p[2])) ELSE 0

\* A row's accumulator with what it has yet to take from the array.
Promised(r) ==
    IF computing /\ compute_cnt <= N + 1 + r THEN Signed(acc[r] + Dot(w_reg, x_in_reg, r))
    ELSE acc[r]

LEMMA PartialStep ==
    ASSUME NEW m \in [Cell -> Byte], NEW x \in Word, NEW r \in Index, NEW c \in Index
    PROVE  /\ Partial(m, x, r, c) \in Int
           /\ m[<<r, c>>] * x[c] \in Int
           /\ c = 0 => Partial(m, x, r, c) = m[<<r, c>>] * x[c]
           /\ c # 0 => /\ Partial(m, x, r, c - 1) \in Int
                       /\ Partial(m, x, r, c) = Partial(m, x, r, c - 1) + m[<<r, c>>] * x[c]
<1> DEFINE t(i) == m[<<r, i>>] * x[i]
<1>1. \A i \in 0 .. 3 : i \in Index => t(i) \in Int
  <2> SUFFICES ASSUME NEW i \in 0 .. 3, i \in Index PROVE t(i) \in Int
    OBVIOUS
  <2>1. m[<<r, i>>] \in Byte /\ x[i] \in Byte
    BY Cells DEF Word
  <2>2. m[<<r, i>>] \in Int /\ x[i] \in Int
    BY <2>1, Sizes
  <2> QED BY <2>2
<1>2. \A i \in 0 .. 3 : i <= c => i \in Index
  BY Sizes DEF Index
<1>3. \A d \in 0 .. 3 : Partial(m, x, r, d) = (IF 0 <= d THEN t(0) ELSE 0) + (IF 1 <= d THEN t(1) ELSE 0)
                              + (IF 2 <= d THEN t(2) ELSE 0) + (IF 3 <= d THEN t(3) ELSE 0)
  BY DEF Partial
<1>4. m[<<r, c>>] * x[c] = t(c) /\ c \in 0 .. 3 /\ t(c) \in Int
  BY <1>1, Sizes
<1>5. \A i \in 0 .. 3 : i <= c => t(i) \in Int
  BY <1>1, <1>2
<1> HIDE DEF t
<1>6. /\ Partial(m, x, r, c) \in Int
      /\ c = 0 => Partial(m, x, r, c) = t(c)
      /\ c # 0 => /\ Partial(m, x, r, c - 1) \in Int
                  /\ Partial(m, x, r, c) = Partial(m, x, r, c - 1) + t(c)
  <2>1. CASE c = 0
    BY <2>1, <1>3, <1>5
  <2>2. CASE c = 1
    BY <2>2, <1>3, <1>5
  <2>3. CASE c = 2
    BY <2>3, <1>3, <1>5
  <2>4. CASE c = 3
    BY <2>4, <1>3, <1>5
  <2> QED BY <1>4, <2>1, <2>2, <2>3, <2>4
<1> QED BY <1>4, <1>6

\* Nothing moves under a running computation.
LEMMA Steady ==
    ASSUME BusInv, TpuClock, computing
    PROVE  /\ x_in_reg' = x_in_reg /\ w_reg' = w_reg
           /\ \A p \in Cell : ~LoadsWeight(p)
<1> USE DEF BusInv
<1>1. ~bulk_active /\ ~lut_load_active /\ ~sa_load_weight /\ (Selected => ~xbus.we)
      /\ (Taken /\ xbus.we => xbus.reg = "CTRL")
  BY DEF QuietInv
<1>2. pending /\ xbus.we => xbus.reg = "CTRL"
  BY <1>1, PhasesApart DEF Handshake
<1>3. x_in_reg' = x_in_reg
  <2>1. LoaderStep(pending, xbus)
    BY DEF TpuClock, TpuStep
  <2> QED BY <1>1, <1>2, <2>1, LoaderSplit DEF WriteAddr, WriteX, WriteData, WriteData4,
     WriteLoad, NoLoad, Writes
<1>4. \A p \in Cell : ~LoadsWeight(p)
  BY <1>1 DEF LoadsWeight
<1>5. w_reg' = w_reg
  BY <1>4 DEF TpuClock, TpuStep, ArrayStep, BusTypeOK, TpuTypeOK
<1> QED BY <1>3, <1>4, <1>5

LEMMA ArrayKept ==
    ASSUME BusInv, ArrayInv, TpuClock
    PROVE  ArrayInv'
<1> USE DEF BusInv, BusTypeOK, OnDiagonal
<1>1. ArrayStep /\ ComputeStep(pending, xbus)
  BY DEF TpuClock, TpuStep
<1> SUFFICES ASSUME NEW p \in Cell
             PROVE  /\ x_out'[p] = IF compute_cnt' = p[1] + p[2] + 2 THEN x_in_reg'[p[2]] ELSE 0
                    /\ psum'[p] = IF compute_cnt' = p[1] + p[2] + 2
                                  THEN Signed(Partial(w_reg', x_in_reg', p[1], p[2])) ELSE 0
  BY DEF ArrayInv, Partial
<1>2. p[1] \in Index /\ p[2] \in Index /\ p = <<p[1], p[2]>>
  BY Cells
<1>3. p[1] \in 0 .. N - 1 /\ p[2] \in 0 .. N - 1 /\ N \in {2, 3, 4}
  BY <1>2, Sizes DEF Index
<1>4. CASE ~computing
  <2>1. x_out'[p] = x_out[p] /\ psum'[p] = psum[p]
    BY <1>1, <1>4 DEF ArrayStep, Moves
  <2>2. compute_cnt' \in {0, 1} /\ compute_cnt = 0
    BY <1>1, <1>4 DEF ComputeStep, Counting, computing
  <2>3. x_out[p] = 0 /\ psum[p] = 0
    BY <1>3, <2>2 DEF ArrayInv
  <2> QED BY <1>3, <2>1, <2>2, <2>3
<1>5. CASE computing
  <2> DEFINE k == compute_cnt
             now == k = p[1] + p[2] + 1
             w == w_reg[p]
             x == x_in_reg[p[2]]
             before == Partial(w_reg, x_in_reg, p[1], p[2] - 1)
  <2>1. x_in_reg' = x_in_reg /\ w_reg' = w_reg /\ ~LoadsWeight(p)
    BY <1>5, Steady
  <2>2. x_out'[p] = XIn(p) /\ psum'[p] = Signed(PsumIn(p) + w * XIn(p))
    BY <1>1, <1>5, <2>1 DEF ArrayStep, Moves
  <2>3. (compute_cnt' = p[1] + p[2] + 2) <=> now
    <3>1. compute_cnt \in 1 .. LastCount
          /\ compute_cnt' = IF compute_cnt = LastCount THEN 0 ELSE compute_cnt + 1
      BY <1>1, <1>5, <1>3 DEF ComputeStep, Counting, computing, TpuTypeOK, LastCount
    <3> QED BY <1>3, <3>1 DEF LastCount
  <2>4. XIn(p) = IF now THEN x ELSE 0
    <3>1. CASE p[1] = 0
      BY <1>3, <3>1 DEF XIn, sa_x_in, TpuTypeOK
    <3>2. CASE p[1] # 0
      <4> DEFINE u == <<p[1] - 1, p[2]>>
      <4>1. u \in Cell /\ u[1] = p[1] - 1 /\ u[2] = p[2]
        BY <1>3, <3>2 DEF Cell, Index
      <4>2. XIn(p) = x_out[u]
        BY <3>2 DEF XIn
      <4>3. (k = u[1] + u[2] + 2) <=> now
        BY <1>3, <4>1 DEF TpuTypeOK
      <4> HIDE DEF u
      <4> QED BY <4>1, <4>2, <4>3 DEF ArrayInv
    <3> QED BY <3>1, <3>2
  <2>5. PsumIn(p) = IF now /\ p[2] # 0 THEN Signed(before) ELSE 0
    <3>1. CASE p[2] = 0
      BY <3>1 DEF PsumIn
    <3>2. CASE p[2] # 0
      <4> DEFINE u == <<p[1], p[2] - 1>>
      <4>1. u \in Cell /\ u[1] = p[1] /\ u[2] = p[2] - 1
        BY <1>3, <3>2 DEF Cell, Index
      <4>2. PsumIn(p) = psum[u]
        BY <3>2 DEF PsumIn
      <4>3. (k = u[1] + u[2] + 2) <=> now
        BY <1>3, <4>1 DEF TpuTypeOK
      <4> HIDE DEF u
      <4> QED BY <3>2, <4>1, <4>2, <4>3 DEF ArrayInv
    <3> QED BY <3>1, <3>2
  <2>6. w \in Int /\ x \in Int
    BY <1>2, <1>3, Sizes DEF TpuTypeOK, Word
  <2>7. CASE now
    <3>1. Partial(w_reg, x_in_reg, p[1], p[2]) \in Int /\ w * x \in Int
          /\ (p[2] = 0 => Partial(w_reg, x_in_reg, p[1], p[2]) = w * x)
          /\ (p[2] # 0 => before \in Int
                          /\ Partial(w_reg, x_in_reg, p[1], p[2]) = before + w * x)
      BY <1>2, PartialStep DEF TpuTypeOK
    <3> DEFINE y == w * x
               whole == Partial(w_reg, x_in_reg, p[1], p[2])
    <3>2. psum'[p] = Signed(PsumIn(p) + y)
      BY <2>2, <2>4, <2>7
    <3>3. y \in Int /\ (p[2] = 0 => whole = y) /\ (p[2] # 0 => before \in Int /\ whole = before + y)
      BY <3>1
    <3> HIDE DEF y, whole, before
    <3>4. psum'[p] = Signed(whole)
      <4>1. CASE p[2] = 0
        <5>1. PsumIn(p) + y = y
          BY <2>5, <3>3, <4>1
        <5> QED BY <3>2, <3>3, <4>1, <5>1
      <4>2. CASE p[2] # 0
        <5>1. Signed(Signed(before) + y) = Signed(before + y)
          BY <3>3, <4>2, SignedSum
        <5> QED BY <2>5, <2>7, <3>2, <3>3, <4>2, <5>1
      <4> QED BY <4>1, <4>2
    <3>5. psum'[p] = Signed(Partial(w_reg, x_in_reg, p[1], p[2]))
      BY <3>4 DEF whole
    <3> QED BY <2>1, <2>2, <2>3, <2>4, <2>7, <3>5
  <2>8. CASE ~now
    <3>1. XIn(p) = 0 /\ PsumIn(p) = 0 /\ w * 0 = 0
      BY <2>4, <2>5, <2>6, <2>8
    <3>2. psum'[p] = Signed(0)
      BY <2>2, <3>1
    <3> QED BY <2>2, <2>3, <2>8, <3>1, <3>2, SignedZero
  <2> QED BY <2>7, <2>8
<1> QED BY <1>4, <1>5

\* Each row's sum arrives whole, at its own count.
LEMMA RowSum ==
    ASSUME BusInv, ArrayInv, NEW r \in Index
    PROVE  /\ compute_cnt = N + 1 + r => result(r) = Signed(Dot(w_reg, x_in_reg, r))
           /\ Dot(w_reg, x_in_reg, r) \in Int
<1> DEFINE p == <<r, N - 1>>
<1>1. p \in Cell /\ p[1] = r /\ p[2] = N - 1 /\ N - 1 \in Index
  BY Sizes DEF Cell
<1>2. N + 1 + r = p[1] + p[2] + 2
  BY <1>1, Sizes DEF Index
<1>3. Dot(w_reg, x_in_reg, r) \in Int
  BY <1>1, PartialStep DEF Dot, BusInv, BusTypeOK, TpuTypeOK
<1> HIDE DEF p
<1>4. compute_cnt = N + 1 + r => psum[p] = Signed(Partial(w_reg, x_in_reg, r, N - 1))
  BY <1>1, <1>2 DEF ArrayInv, OnDiagonal
<1> QED BY <1>3, <1>4 DEF result, Dot, p

\* A clock without a clear or a start keeps every promise.
LEMMA PromiseKept ==
    ASSUME BusInv, ArrayInv, TpuClock, ~Clears(pending, xbus), ~Starts(pending, xbus),
           NEW r \in Index
    PROVE  Promised(r)' = Promised(r)
<1> USE DEF BusInv, BusTypeOK
<1>1. ComputeStep(pending, xbus)
  BY DEF TpuClock, TpuStep
<1>2. acc'[r] = IF compute_cnt = N + 1 + r THEN Signed(acc[r] + result(r)) ELSE acc[r]
  BY <1>1 DEF ComputeStep, Accumulating
<1>3. r \in 0 .. N - 1 /\ N \in {2, 3, 4}
  BY Sizes DEF Index
<1>4. CASE ~computing
  <2>1. compute_cnt = 0 /\ compute_cnt' = 0
    BY <1>1, <1>4 DEF ComputeStep, Counting, computing
  <2> QED BY <1>2, <1>3, <2>1 DEF Promised, computing
<1>5. CASE computing
  <2> DEFINE d == Dot(w_reg, x_in_reg, r)
  <2>1. Dot(w_reg', x_in_reg', r) = d
    BY <1>5, Steady
  <2>2. compute_cnt \in 1 .. LastCount
        /\ compute_cnt' = IF compute_cnt = LastCount THEN 0 ELSE compute_cnt + 1
    BY <1>1, <1>5, <1>3 DEF ComputeStep, Counting, computing, TpuTypeOK, LastCount
  <2>3. d \in Int /\ acc[r] \in Int
    BY RowSum DEF TpuTypeOK, Sums
  <2>4. Promised(r)' = IF compute_cnt' # 0 /\ compute_cnt' <= N + 1 + r
                       THEN Signed(acc'[r] + d) ELSE acc'[r]
    BY <2>1 DEF Promised, computing, Dot, Partial
  <2>5. Promised(r) = IF compute_cnt <= N + 1 + r THEN Signed(acc[r] + d) ELSE acc[r]
    BY <1>5 DEF Promised
  <2>6. compute_cnt = N + 1 + r => acc'[r] = Signed(acc[r] + d)
    <3>1. compute_cnt = N + 1 + r => result(r) = Signed(d)
      BY RowSum
    <3>2. Signed(acc[r] + Signed(d)) = Signed(acc[r] + d)
      BY <2>3, SignedSum
    <3> QED BY <1>2, <3>1, <3>2
  <2> HIDE DEF d
  <2>7. CASE compute_cnt < N + 1 + r
    BY <1>2, <1>3, <2>2, <2>4, <2>5, <2>7 DEF LastCount
  <2>8. CASE compute_cnt = N + 1 + r
    BY <1>3, <2>2, <2>4, <2>5, <2>6, <2>8 DEF LastCount
  <2>9. CASE compute_cnt > N + 1 + r
    BY <1>2, <1>3, <2>2, <2>4, <2>5, <2>9 DEF LastCount
  <2> QED BY <1>3, <2>2, <2>7, <2>8, <2>9 DEF LastCount
<1> QED BY <1>4, <1>5

LEMMA ArrayStart ==
    ASSUME w_reg = NoWeights, x_out = NoWeights, psum = NoWeights, compute_cnt = 0
    PROVE  ArrayInv
<1> SUFFICES ASSUME NEW p \in Cell
             PROVE  x_out[p] = 0 /\ psum[p] = 0 /\ ~OnDiagonal(p)
  BY DEF ArrayInv
<1>1. p[1] \in 0 .. 3 /\ p[2] \in 0 .. 3
  BY Cells, Sizes
<1> QED BY <1>1 DEF NoWeights, OnDiagonal
-----------------------------------------------------------------------------
(***************************************************************************)
(* Every write reaches the accelerator twice.  The first clock performs    *)
(* it, and this is what the second one finds, so that it changes nothing.  *)
(***************************************************************************)
WrittenInv ==
    Taken /\ xbus.we =>
        /\ xbus.reg = "W_ADDR" => w_addr = [row |-> xbus.row, col |-> xbus.col]
        /\ xbus.reg = "X_IN" => x_in_reg = xbus.word
        /\ xbus.reg = "W_DATA" =>
              sa_load_weight /\ sa_w = [row |-> w_addr.row, col |-> w_addr.col, data |-> xbus.word[0]]
        /\ xbus.reg = "LUT" => lut_mem[xbus.idx] = xbus.word
        /\ xbus.reg = "CTRL" => /\ "start" \in xbus.bits => compute_cnt = 1
                                /\ "clear" \in xbus.bits => acc = NoSums
                                /\ {"start", "clear"} \cap xbus.bits # {} => ~done

\* The load's entry is on the port when it is used.
PortInv == lut_load_active /\ lut_load_phase => lut_rdata_r = lut_mem[lut_load_idx]

\* The first clock of a write finds everything at rest.
LEMMA AtRest ==
    ASSUME BusInv, TpuClock, Selected, xbus.we
    PROVE  /\ ~computing /\ ~lut_load_active /\ ~bulk_active /\ compute_cnt = 0
           /\ \A reg \in Register : Writes(pending, xbus, reg) <=> xbus.reg = reg
           /\ \A bit \in CtrlBit : Control(pending, xbus, bit) <=> xbus.reg = "CTRL" /\ bit \in xbus.bits
           /\ compute_cnt' = IF Starts(pending, xbus) THEN 1 ELSE 0
           /\ done' = (done /\ ~Starts(pending, xbus) /\ ~Clears(pending, xbus))
           /\ acc' = [r \in Index |-> IF Clears(pending, xbus) THEN 0 ELSE acc[r]]
<1>1. ~computing /\ ~lut_load_active /\ ~bulk_active /\ compute_cnt = 0
  BY PhasesApart DEF BusInv, QuietInv, RowInv, computing
<1>2. pending
  BY PhasesApart
<1>3. \A reg \in Register : Writes(pending, xbus, reg) <=> xbus.reg = reg
  BY <1>1, <1>2 DEF Writes
<1>4. Writes(pending, xbus, "CTRL") <=> xbus.reg = "CTRL"
  BY <1>3 DEF Register
<1>5. \A bit \in CtrlBit : Control(pending, xbus, bit) <=> xbus.reg = "CTRL" /\ bit \in xbus.bits
  BY <1>4 DEF Control
<1>6. ComputeStep(pending, xbus) /\ LastCount # 0 /\ \A r \in Index : N + 1 + r # 0
  BY Sizes DEF TpuClock, TpuStep, LastCount
<1>7. compute_cnt' = IF Starts(pending, xbus) THEN 1 ELSE 0
  BY <1>1, <1>6 DEF ComputeStep, Counting
<1>8. done' = (done /\ ~Starts(pending, xbus) /\ ~Clears(pending, xbus))
  BY <1>1, <1>6 DEF ComputeStep, Finishing
<1>9. acc' = [r \in Index |-> IF Clears(pending, xbus) THEN 0 ELSE acc[r]]
  BY <1>1, <1>6 DEF ComputeStep, Accumulating
<1> QED BY <1>1, <1>3, <1>5, <1>7, <1>8, <1>9

\* Each write performs its own action.
LEMMA WritePerforms ==
    ASSUME BusInv, TpuClock, Selected, xbus.we
    PROVE  /\ xbus.reg = "W_ADDR" => WriteAddr(pending, xbus)
           /\ xbus.reg = "X_IN" => WriteX(pending, xbus)
           /\ xbus.reg = "W_DATA" => WriteData(pending, xbus)
           /\ xbus.reg = "W_DATA4" => WriteData4(pending, xbus)
           /\ xbus.reg = "CTRL" /\ "load" \in xbus.bits => WriteLoad(pending, xbus)
           /\ \/ xbus.reg \in {"W_ADDR", "X_IN", "W_DATA", "W_DATA4"}
              \/ xbus.reg = "CTRL" /\ "load" \in xbus.bits
              \/ NoLoad(pending, xbus)
           /\ lut_mem' = IF xbus.reg = "LUT" THEN [lut_mem EXCEPT ![xbus.idx] = xbus.word] ELSE lut_mem
<1>1. ~computing /\ ~lut_load_active /\ ~bulk_active
  BY AtRest
<1>2. \A reg \in {"W_ADDR", "X_IN", "W_DATA", "W_DATA4", "CTRL", "LUT"} :
          Writes(pending, xbus, reg) <=> xbus.reg = reg
  BY AtRest DEF Register
<1>3. StartsLoad(pending, xbus) <=> xbus.reg = "CTRL" /\ "load" \in xbus.bits
  BY <1>1, <1>2 DEF StartsLoad, Control
<1>4. \/ WriteAddr(pending, xbus) \/ WriteX(pending, xbus) \/ WriteData(pending, xbus)
      \/ WriteData4(pending, xbus) \/ WriteLoad(pending, xbus) \/ NoLoad(pending, xbus)
  BY <1>1, LoaderSplit DEF TpuClock, TpuStep, BusInv
<1>5. /\ WriteAddr(pending, xbus) => xbus.reg = "W_ADDR"
      /\ WriteX(pending, xbus) => xbus.reg = "X_IN"
      /\ WriteData(pending, xbus) => xbus.reg = "W_DATA"
      /\ WriteData4(pending, xbus) => xbus.reg = "W_DATA4"
      /\ WriteLoad(pending, xbus) => xbus.reg = "CTRL" /\ "load" \in xbus.bits
      /\ NoLoad(pending, xbus) => xbus.reg \notin {"W_ADDR", "X_IN", "W_DATA", "W_DATA4"}
                                  /\ ~(xbus.reg = "CTRL" /\ "load" \in xbus.bits)
  BY <1>2, <1>3 DEF WriteAddr, WriteX, WriteData, WriteData4, WriteLoad, NoLoad
<1>6. LutStep(pending, xbus)
  BY DEF TpuClock, TpuStep
<1>7. lut_mem' = IF xbus.reg = "LUT" THEN [lut_mem EXCEPT ![xbus.idx] = xbus.word] ELSE lut_mem
  BY <1>2, <1>6 DEF LutStep
<1> QED BY <1>4, <1>5, <1>7

LEMMA WrittenKept ==
    ASSUME BusInv, TpuClock, Discipline
    PROVE  WrittenInv'
<1>1. Cpu
  BY DEF Discipline
<1> SUFFICES ASSUME Taken', xbus'.we
             PROVE  /\ xbus.reg = "W_ADDR" => w_addr' = [row |-> xbus.row, col |-> xbus.col]
                    /\ xbus.reg = "X_IN" => x_in_reg' = xbus.word
                    /\ xbus.reg = "W_DATA" =>
                          /\ sa_load_weight'
                          /\ sa_w' = [row |-> w_addr'.row, col |-> w_addr'.col, data |-> xbus.word[0]]
                    /\ xbus.reg = "LUT" => lut_mem'[xbus.idx] = xbus.word
                    /\ xbus.reg = "CTRL" => /\ "start" \in xbus.bits => compute_cnt' = 1
                                            /\ "clear" \in xbus.bits => acc' = NoSums
                                            /\ {"start", "clear"} \cap xbus.bits # {} => ~done'
  <2>1. Taken' => xbus' = xbus
    BY <1>1, PhaseBack DEF BusInv
  <2> QED BY <2>1, Zenon DEF WrittenInv
<1>2. Selected /\ xbus.we
  BY <1>1, PhaseBack DEF BusInv
<1>3. /\ xbus.reg = "W_ADDR" => WriteAddr(pending, xbus)
      /\ xbus.reg = "X_IN" => WriteX(pending, xbus)
      /\ xbus.reg = "W_DATA" => WriteData(pending, xbus)
      /\ lut_mem' = IF xbus.reg = "LUT" THEN [lut_mem EXCEPT ![xbus.idx] = xbus.word] ELSE lut_mem
  BY <1>2, WritePerforms
<1>4. xbus.reg = "W_ADDR" => w_addr' = [row |-> xbus.row, col |-> xbus.col]
  BY <1>3 DEF WriteAddr
<1>5. xbus.reg = "X_IN" => x_in_reg' = xbus.word
  BY <1>3 DEF WriteX
<1>6. xbus.reg = "W_DATA" =>
          /\ sa_load_weight'
          /\ sa_w' = [row |-> w_addr'.row, col |-> w_addr'.col, data |-> xbus.word[0]]
  BY <1>3 DEF WriteData, Pulse
<1>7. xbus.reg = "LUT" => lut_mem'[xbus.idx] = xbus.word
  BY <1>3 DEF BusInv, BusTypeOK, TpuTypeOK, Request
<1>8. ASSUME xbus.reg = "CTRL"
      PROVE  /\ "start" \in xbus.bits => compute_cnt' = 1
             /\ "clear" \in xbus.bits => acc' = NoSums
             /\ {"start", "clear"} \cap xbus.bits # {} => ~done'
  <2>1. /\ Control(pending, xbus, "start") <=> "start" \in xbus.bits
        /\ Control(pending, xbus, "clear") <=> "clear" \in xbus.bits
        /\ ~computing
        /\ compute_cnt' = IF Starts(pending, xbus) THEN 1 ELSE 0
        /\ done' = (done /\ ~Starts(pending, xbus) /\ ~Clears(pending, xbus))
        /\ acc' = [r \in Index |-> IF Clears(pending, xbus) THEN 0 ELSE acc[r]]
    BY <1>2, <1>8, AtRest DEF CtrlBit
  <2>2. "clear" \in xbus.bits => acc' = NoSums
    BY <2>1 DEF Clears, NoSums
  <2> QED BY <2>1, <2>2 DEF Clears, Starts
<1> QED BY <1>4, <1>5, <1>6, <1>7, <1>8

LEMMA PortKept ==
    ASSUME BusInv, TpuClock
    PROVE  PortInv'
<1>1. LutStep(pending, xbus) /\ LoaderStep(pending, xbus)
  BY DEF TpuClock, TpuStep
<1> SUFFICES ASSUME lut_load_active', lut_load_phase'
             PROVE  lut_rdata_r' = lut_mem'[lut_load_idx']
  BY DEF PortInv
<1>2. lut_load_active /\ lut_load_idx' = lut_load_idx
  <2>1. CASE bulk_active
    BY <1>1, <2>1, LoaderSplit DEF BulkLoad, loadVars, RowInv, BusInv
  <2>2. CASE ~bulk_active /\ ~lut_load_active
    <3>1. ~WriteLoad(pending, xbus)
      BY DEF WriteLoad
    <3> QED BY <1>1, <2>2, <3>1, LoaderSplit DEF WriteAddr, WriteX, WriteData, WriteData4,
       NoLoad, loadVars, BusInv
  <2>3. CASE lut_load_active
    BY <1>1, <2>3, LoaderSplit DEF LutAddress, LutWeight, BusInv
  <2> QED BY <2>1, <2>2, <2>3
<1>3. lut_mem' = lut_mem
  BY <1>1, <1>2 DEF LutStep, Writes
<1> QED BY <1>1, <1>2, <1>3 DEF LutStep, lut_rd_addr_mux

\* The second clock of a write, a read, or no request: no start and no clear that is news.
Nothing == ~(Selected /\ xbus.we)

\* Which loader actions that leaves.
LEMMA NothingLoads ==
    ASSUME BusInv, WrittenInv, TpuClock, Nothing
    PROVE  /\ bulk_active => BulkLoad
           /\ lut_load_active => LutAddress \/ LutWeight
           /\ ~bulk_active /\ ~lut_load_active =>
                 /\ ~bulk_active' /\ ~lut_load_active'
                 /\ w_addr' = w_addr /\ x_in_reg' = x_in_reg
                 /\ sa_w' = sa_w /\ (sa_load_weight' => sa_load_weight)
           /\ lut_mem' = lut_mem
<1>1. LutStep(pending, xbus) /\ LoaderStep(pending, xbus)
  BY DEF TpuClock, TpuStep
<1>2. pending /\ xbus.we => Taken
  BY PhasesApart DEF BusInv, Handshake, Nothing
<1>3. \A reg : Writes(pending, xbus, reg) => Taken /\ xbus.we /\ xbus.reg = reg
  BY <1>2 DEF Writes
<1>4. lut_mem' = lut_mem
  <2>1. CASE Writes(pending, xbus, "LUT")
    <3>1. lut_mem[xbus.idx] = xbus.word
      BY <1>3, <2>1 DEF WrittenInv
    <3>2. lut_mem' = [lut_mem EXCEPT ![xbus.idx] = xbus.word]
      BY <1>1, <2>1 DEF LutStep
    <3> QED BY <3>1, <3>2 DEF BusInv, BusTypeOK, TpuTypeOK
  <2>2. CASE ~Writes(pending, xbus, "LUT")
    BY <1>1, <2>2 DEF LutStep
  <2> QED BY <2>1, <2>2
<1>5. ASSUME ~bulk_active, ~lut_load_active
      PROVE  /\ ~bulk_active' /\ ~lut_load_active'
             /\ w_addr' = w_addr /\ x_in_reg' = x_in_reg
             /\ sa_w' = sa_w /\ (sa_load_weight' => sa_load_weight)
  <2> USE <1>5 DEF bulkVars, loadVars, EndPulse
  <2>1. CASE WriteAddr(pending, xbus)
    BY <1>3, <2>1 DEF WriteAddr, WrittenInv
  <2>2. CASE WriteX(pending, xbus)
    BY <1>3, <2>2 DEF WriteX, WrittenInv
  <2>3. CASE WriteData(pending, xbus)
    BY <1>3, <2>3 DEF WriteData, WrittenInv, Pulse
  <2>4. ~WriteData4(pending, xbus)
    BY <1>3 DEF WriteData4, BusInv, RowInv
  <2>5. ~WriteLoad(pending, xbus)
    BY <1>3 DEF WriteLoad, StartsLoad, Control, BusInv, QuietInv
  <2>6. CASE NoLoad(pending, xbus)
    BY <2>6 DEF NoLoad
  <2> QED BY <1>1, <2>1, <2>2, <2>3, <2>4, <2>5, <2>6, LoaderSplit DEF BusInv
<1> QED BY <1>1, <1>4, <1>5, LoaderSplit DEF BusInv

\* Sums and done change only as the computation goes on.
LEMMA NothingSums ==
    ASSUME BusInv, ArrayInv, WrittenInv, TpuClock, Nothing
    PROVE  /\ \A r \in Index : Promised(r)' = Promised(r)
           /\ computing' => computing
           /\ done' = (done \/ (computing /\ ~computing'))
<1>1. ComputeStep(pending, xbus)
  BY DEF TpuClock, TpuStep
<1>2. pending /\ xbus.we => Taken
  BY PhasesApart DEF BusInv, Handshake, Nothing
<1>3. \A bit : Control(pending, xbus, bit) =>
                  Taken /\ xbus.we /\ xbus.reg = "CTRL" /\ bit \in xbus.bits
  BY <1>2 DEF Control, Writes
<1>4. ~Starts(pending, xbus)
  BY <1>3 DEF Starts, WrittenInv, computing
<1>5. Clears(pending, xbus) => /\ acc = NoSums /\ ~done
                               /\ computing => compute_cnt = 1
  BY <1>3 DEF Clears, WrittenInv, BusInv, QuietInv
<1>6. N \in {2, 3, 4} /\ LastCount = 2 * N + 1
  BY Sizes DEF LastCount
<1>7. computing' => computing
  BY <1>1, <1>4 DEF ComputeStep, Counting, computing
<1>8. done' = (done \/ (computing /\ ~computing'))
  <2>1. (computing /\ ~computing') <=> compute_cnt = LastCount
    BY <1>1, <1>6 DEF ComputeStep, Counting, computing, BusInv, BusTypeOK, TpuTypeOK
  <2>2. done' = ((done \/ compute_cnt = LastCount) /\ ~Clears(pending, xbus)) /\ done \in BOOLEAN
    BY <1>1, <1>4 DEF ComputeStep, Finishing, BusInv, BusTypeOK, TpuTypeOK
  <2>3. Clears(pending, xbus) => compute_cnt # LastCount
    BY <1>5, <1>6 DEF computing
  <2> QED BY <1>5, <2>1, <2>2, <2>3
<1>9. ASSUME NEW r \in Index
      PROVE  Promised(r)' = Promised(r)
  <2>1. CASE ~Clears(pending, xbus)
    BY <1>4, <2>1, PromiseKept
  <2>2. CASE Clears(pending, xbus)
    <3>1. acc'[r] = 0 /\ acc[r] = 0
      BY <1>1, <1>5, <2>2 DEF ComputeStep, Accumulating, NoSums
    <3>2. CASE ~computing
      BY <1>7, <3>1, <3>2 DEF Promised
    <3>3. CASE computing
      <4>1. compute_cnt = 1 /\ compute_cnt' = 2
        BY <1>1, <1>5, <1>6, <2>2, <3>3 DEF ComputeStep, Counting
      <4>2. Dot(w_reg', x_in_reg', r) = Dot(w_reg, x_in_reg, r)
        BY <3>3, Steady
      <4>3. 1 <= N + 1 + r /\ 2 <= N + 1 + r
        BY <1>6 DEF Index
      <4>4. Promised(r) = Signed(0 + Dot(w_reg, x_in_reg, r))
        BY <3>1, <4>1, <4>3 DEF Promised, computing
      <4>5. Promised(r)' = Signed(0 + Dot(w_reg', x_in_reg', r))
        BY <3>1, <4>1, <4>3 DEF Promised, computing, Dot, Partial
      <4> QED BY <4>2, <4>4, <4>5
    <3> QED BY <3>2, <3>3
  <2> QED BY <2>1, <2>2
<1> QED BY <1>7, <1>8, <1>9

\* The invariant of the data.
DataInv == ArrayInv /\ WrittenInv /\ PortInv

LEMMA DataKept ==
    ASSUME BusInv, DataInv, TpuClock, Discipline
    PROVE  DataInv'
BY ArrayKept, WrittenKept, PortKept DEF DataInv

LEMMA DataResetKept ==
    ASSUME BusReset
    PROVE  DataInv'
<1>1. NoWeights' = NoWeights
  BY DEF NoWeights
<1>2. ArrayInv'
  <2> SUFFICES ASSUME NEW p \in Cell
               PROVE  x_out'[p] = 0 /\ psum'[p] = 0 /\ compute_cnt' # p[1] + p[2] + 2
    BY DEF ArrayInv, OnDiagonal
  <2>1. p[1] \in 0 .. 3 /\ p[2] \in 0 .. 3
    BY Cells, Sizes
  <2> QED BY <2>1 DEF NoWeights, BusReset, TpuReset
<1>3. WrittenInv' /\ PortInv'
  BY DEF BusReset, TpuReset, WrittenInv, PortInv, Taken
<1> QED BY <1>2, <1>3 DEF DataInv

LEMMA DataInit ==
    ASSUME NEW requests, BusInit(requests)
    PROVE  DataInv
<1>1. ArrayInv
  BY ArrayStart DEF BusInit, TpuInit
<1>2. WrittenInv /\ PortInv
  BY DEF BusInit, TpuInit, WrittenInv, PortInv, Taken
<1> QED BY <1>1, <1>2 DEF DataInv
=============================================================================
