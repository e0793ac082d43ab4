------------------------------ MODULE TpuAccel ------------------------------
(***************************************************************************)
(* rtl/tpu/tpu_accel.v with its systolic array (systolic_array_4x4.v,      *)
(* pe.v): one step per clock, made of the processes that run side by side  *)
(* in the source.  The constants the source derives from 4 are written     *)
(* with N.                                                                 *)
(***************************************************************************)
EXTENDS TpuTypes

VARIABLES
    w_reg, x_out, psum,                 \* the processing elements
    acc, done, compute_cnt,
    x_in_reg, w_addr,                   \* w_addr holds w_addr_row and w_addr_col
    sa_load_weight, sa_w,               \* the weight pulse: [row, col, data]
    bulk_active, bulk_phase, bulk_data, bulk_row,
    lut_load_active, lut_load_idx, lut_load_phase,
    lut_mem, lut_rdata_r,
    ready_r

peVars == <<w_reg, x_out, psum>>
computeVars == <<acc, done, compute_cnt>>
weightVars == <<sa_load_weight, sa_w>>
bulkVars == <<bulk_active, bulk_phase, bulk_data, bulk_row>>
loadVars == <<lut_load_active, lut_load_idx, lut_load_phase>>
loaderVars == <<x_in_reg, w_addr, weightVars, bulkVars, loadVars>>
lutVars == <<lut_mem, lut_rdata_r>>
tpuVars == <<peVars, computeVars, loaderVars, lutVars, ready_r>>

computing == compute_cnt # 0
-----------------------------------------------------------------------------
\* A write reaches its register only while no loader runs.
Writes(sel, q, reg) == sel /\ q.we /\ ~bulk_active /\ ~lut_load_active /\ q.reg = reg
Control(sel, q, bit) == Writes(sel, q, "CTRL") /\ bit \in q.bits

\* Slip: the busy bit is not wired to STATUS.
rdataWithoutBusy(q) ==
    CASE q.reg = "LUT"    -> [ZeroData EXCEPT !.word = lut_rdata_r]
      [] q.reg = "STATUS" -> [ZeroData EXCEPT !.done = done]
      [] q.reg = "RES"    -> [ZeroData EXCEPT !.sum = acc[q.row]]
      [] OTHER            -> ZeroData

rdata(q) ==
    CASE q.reg = "LUT"    -> [ZeroData EXCEPT !.word = lut_rdata_r]
      [] q.reg = "STATUS" -> [ZeroData EXCEPT !.done = done, !.busy = lut_load_active]
      [] q.reg = "RES"    -> [ZeroData EXCEPT !.sum = acc[q.row]]
      [] OTHER            -> ZeroData
-----------------------------------------------------------------------------
(***************************************************************************)
(* The array: x enters at the top, skewed by one clock per column, and     *)
(* moves down; partial sums move right.  A weight pulse stops its element  *)
(* for the clock.                                                          *)
(***************************************************************************)
sa_x_in(c) == IF compute_cnt = c + 1 THEN x_in_reg[c] ELSE 0

XIn(p) == IF p[1] = 0 THEN sa_x_in(p[2]) ELSE x_out[<<p[1] - 1, p[2]>>]
PsumIn(p) == IF p[2] = 0 THEN 0 ELSE psum[<<p[1], p[2] - 1>>]
result(r) == psum[<<r, N - 1>>]

LoadsWeight(p) == sa_load_weight /\ p = <<sa_w.row, sa_w.col>>
Moves(p) == computing /\ ~LoadsWeight(p)

ArrayStep ==
    /\ w_reg' = [p \in Cell |-> IF LoadsWeight(p) THEN sa_w.data ELSE w_reg[p]]
    /\ x_out' = [p \in Cell |-> IF Moves(p) THEN XIn(p) ELSE x_out[p]]
    /\ psum' = [p \in Cell |-> IF Moves(p) THEN Signed(PsumIn(p) + w_reg[p] * XIn(p))
                               ELSE psum[p]]
-----------------------------------------------------------------------------
(***************************************************************************)
(* The compute counter: row r leaves the array, and is accumulated, at     *)
(* count N + 1 + r.  A clear on the same clock wins.                       *)
(***************************************************************************)
LastCount == 2 * N + 1

Clears(sel, q) == Control(sel, q, "clear")
Starts(sel, q) == Control(sel, q, "start") /\ ~computing

\* Parts of the step, and two slips: rows taken a clock early, a done that is never set.
Counting(sel, q) ==
    compute_cnt' = IF computing THEN IF compute_cnt = LastCount THEN 0 ELSE compute_cnt + 1
                   ELSE IF Starts(sel, q) THEN 1 ELSE 0
Finishing(sel, q) ==
    done' = ((done \/ compute_cnt = LastCount) /\ ~Starts(sel, q) /\ ~Clears(sel, q))
Accumulating(sel, q, first) ==
    acc' = [r \in Index |-> IF Clears(sel, q) THEN 0
                            ELSE IF compute_cnt = first + r THEN Signed(acc[r] + result(r))
                            ELSE acc[r]]

ComputeStepEarly(sel, q) == Counting(sel, q) /\ Finishing(sel, q) /\ Accumulating(sel, q, N)

ComputeStepUnfinished(sel, q) ==
    /\ Counting(sel, q) /\ Accumulating(sel, q, N + 1)
    /\ done' = (done /\ ~Starts(sel, q) /\ ~Clears(sel, q))

ComputeStep(sel, q) == Counting(sel, q) /\ Finishing(sel, q) /\ Accumulating(sel, q, N + 1)
-----------------------------------------------------------------------------
(***************************************************************************)
(* The weight loaders.  A pulse lasts one clock unless a loader renews it. *)
(***************************************************************************)
Pulse(r, c, data) == sa_load_weight' = TRUE /\ sa_w' = [row |-> r, col |-> c, data |-> data]

\* Slip: the pulse is left standing.
EndPulseMissing == UNCHANGED weightVars
EndPulse == sa_load_weight' = FALSE /\ UNCHANGED sa_w

\* W_DATA4 in progress: columns 1 to N - 1, one a clock, then the next row.
BulkLoad ==
    /\ bulk_active /\ ~lut_load_active
    /\ Pulse(bulk_row, bulk_phase + 1, bulk_data[bulk_phase + 1])
    /\ IF bulk_phase = N - 2
       THEN /\ bulk_active' = FALSE
            /\ w_addr' = [w_addr EXCEPT !.row = (bulk_row + 1) % N]
            /\ UNCHANGED bulk_phase
       ELSE /\ bulk_phase' = bulk_phase + 1
            /\ UNCHANGED <<bulk_active, w_addr>>
    /\ UNCHANGED <<x_in_reg, bulk_data, bulk_row, loadVars>>

\* The LUT load, two clocks an entry: the address is presented, then byte 2 of the entry
\* goes to its cell in row-major order.
LutAddress ==
    /\ lut_load_active /\ ~bulk_active /\ ~lut_load_phase
    /\ lut_load_phase' = TRUE
    /\ UNCHANGED <<x_in_reg, w_addr, weightVars, bulkVars, lut_load_active, lut_load_idx>>

\* Slip: the load stops an entry late.
LutWeightOneMore ==
    /\ lut_load_active /\ ~bulk_active /\ lut_load_phase
    /\ Pulse(lut_load_idx \div N, lut_load_idx % N, WeightIn(lut_rdata_r))
    /\ IF lut_load_idx = N * N
       THEN lut_load_active' = FALSE /\ UNCHANGED <<lut_load_idx, lut_load_phase>>
       ELSE /\ lut_load_idx' = lut_load_idx + 1 /\ lut_load_phase' = FALSE
            /\ UNCHANGED lut_load_active
    /\ UNCHANGED <<x_in_reg, w_addr, bulkVars>>

LutWeight ==
    /\ lut_load_active /\ ~bulk_active /\ lut_load_phase
    /\ Pulse(lut_load_idx \div N, lut_load_idx % N, WeightIn(lut_rdata_r))
    /\ IF lut_load_idx = N * N - 1
       THEN lut_load_active' = FALSE /\ UNCHANGED <<lut_load_idx, lut_load_phase>>
       ELSE /\ lut_load_idx' = lut_load_idx + 1 /\ lut_load_phase' = FALSE
            /\ UNCHANGED lut_load_active
    /\ UNCHANGED <<x_in_reg, w_addr, bulkVars>>

WriteAddr(sel, q) ==
    /\ Writes(sel, q, "W_ADDR")
    /\ w_addr' = [row |-> q.row, col |-> q.col]
    /\ EndPulse
    /\ UNCHANGED <<x_in_reg, bulkVars, loadVars>>

WriteX(sel, q) ==
    /\ Writes(sel, q, "X_IN")
    /\ x_in_reg' = q.word
    /\ EndPulse
    /\ UNCHANGED <<w_addr, bulkVars, loadVars>>

WriteData(sel, q) ==
    /\ Writes(sel, q, "W_DATA")
    /\ Pulse(w_addr.row, w_addr.col, q.word[0])
    /\ UNCHANGED <<x_in_reg, w_addr, bulkVars, loadVars>>

WriteData4(sel, q) ==
    /\ Writes(sel, q, "W_DATA4")
    /\ Pulse(w_addr.row, 0, q.word[0])
    /\ bulk_active' = TRUE /\ bulk_phase' = 0
    /\ bulk_data' = q.word /\ bulk_row' = w_addr.row
    /\ UNCHANGED <<x_in_reg, w_addr, loadVars>>

\* A load request while the array computes is dropped.
StartsLoad(sel, q) == Control(sel, q, "load") /\ ~computing

WriteLoad(sel, q) ==
    /\ StartsLoad(sel, q)
    /\ lut_load_active' = TRUE /\ lut_load_idx' = 0 /\ lut_load_phase' = FALSE
    /\ EndPulse
    /\ UNCHANGED <<x_in_reg, w_addr, bulkVars>>

NoLoad(sel, q) ==
    /\ ~bulk_active /\ ~lut_load_active
    /\ \A reg \in {"W_ADDR", "X_IN", "W_DATA", "W_DATA4"} : ~Writes(sel, q, reg)
    /\ ~StartsLoad(sel, q)
    /\ EndPulse
    /\ UNCHANGED <<x_in_reg, w_addr, bulkVars, loadVars>>

\* The loaders are never both active: a write starts one of them, and only reaches its
\* register while neither runs.
LoaderStep(sel, q) ==
    \/ BulkLoad \/ LutAddress \/ LutWeight
    \/ WriteAddr(sel, q) \/ WriteX(sel, q) \/ WriteData(sel, q) \/ WriteData4(sel, q)
    \/ WriteLoad(sel, q) \/ NoLoad(sel, q)

(***************************************************************************)
(* The LUT memory: one read port, which the load takes over.               *)
(***************************************************************************)
lut_rd_addr_mux(q) == IF lut_load_active THEN lut_load_idx ELSE q.idx

LutStep(sel, q) ==
    /\ lut_mem' = IF Writes(sel, q, "LUT") THEN [lut_mem EXCEPT ![q.idx] = q.word] ELSE lut_mem
    /\ lut_rdata_r' = lut_mem[lut_rd_addr_mux(q)]

ReadyStep(sel) == ready_r' = (sel /\ ~ready_r /\ ~bulk_active)

TpuStep(sel, q) ==
    /\ ArrayStep
    /\ ComputeStep(sel, q)
    /\ LoaderStep(sel, q)
    /\ LutStep(sel, q)
    /\ ReadyStep(sel)
-----------------------------------------------------------------------------
TpuInit(powerUpWords) ==
    /\ w_reg = NoWeights /\ x_out = NoWeights /\ psum = NoWeights
    /\ acc = NoSums /\ done = FALSE /\ compute_cnt = 0
    /\ w_addr = [row |-> 0, col |-> 0]
    /\ sa_load_weight = FALSE
    /\ bulk_active = FALSE /\ bulk_phase = 0 /\ bulk_data = ZeroWord /\ bulk_row = 0
    /\ lut_load_active = FALSE /\ lut_load_idx = 0 /\ lut_load_phase = FALSE
    /\ ready_r = FALSE
    \* The registers without a reset.
    /\ sa_w = [row |-> 0, col |-> 0, data |-> 0]
    /\ x_in_reg \in powerUpWords
    /\ \E w \in powerUpWords : lut_mem = [i \in LutIndex |-> w]
    /\ lut_rdata_r = ZeroWord

\* The asynchronous reset.
TpuReset ==
    /\ w_reg' = NoWeights /\ x_out' = NoWeights /\ psum' = NoWeights
    /\ acc' = NoSums /\ done' = FALSE /\ compute_cnt' = 0
    /\ w_addr' = [row |-> 0, col |-> 0]
    /\ sa_load_weight' = FALSE
    /\ bulk_active' = FALSE /\ bulk_phase' = 0 /\ bulk_data' = ZeroWord /\ bulk_row' = 0
    /\ lut_load_active' = FALSE /\ lut_load_idx' = 0 /\ lut_load_phase' = FALSE
    /\ ready_r' = FALSE
    /\ UNCHANGED <<sa_w, x_in_reg, lutVars>>
-----------------------------------------------------------------------------
TpuTypeOK ==
    /\ w_reg \in [Cell -> Byte] /\ x_out \in [Cell -> Byte] /\ psum \in [Cell -> Sums]
    /\ acc \in [Index -> Sums] /\ done \in BOOLEAN /\ compute_cnt \in 0 .. LastCount
    /\ x_in_reg \in Word /\ w_addr \in [row : Index, col : Index]
    /\ sa_load_weight \in BOOLEAN /\ sa_w \in [row : Index, col : Index, data : Byte]
    /\ bulk_active \in BOOLEAN /\ bulk_phase \in 0 .. N - 2
    /\ bulk_data \in Word /\ bulk_row \in Index
    /\ lut_load_active \in BOOLEAN /\ lut_load_idx \in 0 .. N * N - 1
    /\ lut_load_phase \in BOOLEAN
    /\ lut_mem \in [LutIndex -> Word] /\ lut_rdata_r \in Word
    /\ ready_r \in BOOLEAN
==============================================================================
