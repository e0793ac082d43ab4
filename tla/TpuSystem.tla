----------------------------- MODULE TpuSystem -----------------------------
(***************************************************************************)
(* The accelerator on its bus with firmware that follows the rule both     *)
(* users keep (cmd_tpu in initramfs/init.c, mode_compute in the RoT): once *)
(* it has started a computation or a LUT load it only reads STATUS until   *)
(* that says done, or no longer busy.                                      *)
(***************************************************************************)
EXTENDS TpuBus

CONSTANTS
    Requests,   \* what the firmware asks
    None        \* no answer on the bus

\* One CTRL write never starts both a computation and a load.
ASSUME SystemAssumption ==
    /\ Requests \subseteq Request
    /\ \A q \in Requests : q.we /\ q.reg = "CTRL" => ~({"start", "load"} \subseteq q.bits)

VARIABLE polling        \* what the firmware waits for: "no", "done", "load"

vars == <<busVars, polling>>

IsStart(q) == q.we /\ q.reg = "CTRL" /\ "start" \in q.bits
IsLoad(q) == q.we /\ q.reg = "CTRL" /\ "load" \in q.bits
IsStatus(q) == ~q.we /\ q.reg = "STATUS"

\* The answer on the bus ends the poll.
Answered ==
    /\ IsStatus(xbus)
    /\ IF polling = "done" THEN xbus_dat_r.done ELSE ~xbus_dat_r.busy

ClientAsk(q) ==
    /\ Ask(q)
    /\ polling # "no" => IsStatus(q)
    /\ polling' = IF IsStart(q) THEN "done" ELSE IF IsLoad(q) THEN "load" ELSE polling

ClientFinish ==
    /\ Finish
    /\ polling' = IF Answered THEN "no" ELSE polling

Client ==
    \/ Idle /\ UNCHANGED polling
    \/ \E q \in Requests : ClientAsk(q)
    \/ Await /\ UNCHANGED polling
    \/ ClientFinish

Tick == TpuClock /\ Client
Reset == BusReset /\ polling' = "no"

Init == BusInit(Requests) /\ polling = "no"
Next == Tick \/ Reset

(***************************************************************************)
(* The clock runs, and firmware that waits for the accelerator keeps       *)
(* reading STATUS: both loops spin without doing anything else.            *)
(***************************************************************************)
Poll == Tick /\ polling # "no" /\ \E q \in Requests : ClientAsk(q)

Spec == Init /\ [][Next]_vars /\ WF_vars(Tick) /\ WF_vars(Poll)
-----------------------------------------------------------------------------
TypeOK == BusTypeOK /\ xbus \in Requests /\ polling \in {"no", "done", "load"}

(***************************************************************************)
(* No write is lost.  When a write reaches the accelerator, on the first   *)
(* clock of sel, no loader is running and a start or load finds the array  *)
(* at rest; otherwise the accelerator acknowledges the write and drops it. *)
(* (The gate on bus writes in tpu_accel.v against the bridge's latency.)   *)
(***************************************************************************)
NothingLost ==
    pending /\ ~ready_r /\ xbus.we =>
        /\ ~bulk_active /\ ~lut_load_active
        /\ xbus.bits \cap {"start", "load"} # {} => ~computing

(***************************************************************************)
(* Weights and vector hold still while the array computes: no weight pulse *)
(* stops an element in mid-sum and no loader is at work.                   *)
(***************************************************************************)
QuietArray == computing => ~sa_load_weight /\ ~bulk_active /\ ~lut_load_active

(***************************************************************************)
(* Every poll loop ends: a start is followed by a STATUS read that shows   *)
(* done, a load by one that shows it is over.                              *)
(***************************************************************************)
PollEnds == polling # "no" ~> polling = "no"
-----------------------------------------------------------------------------
(***************************************************************************)
(* The refinement.  A cell's weight is the one a pulse or a running loader *)
(* will still put there; a row's sum includes the product it has yet to    *)
(* take from the array.                                                    *)
(***************************************************************************)
FinalWeight(p) ==
    IF bulk_active /\ p[1] = bulk_row /\ p[2] > bulk_phase THEN bulk_data[p[2]]
    ELSE IF lut_load_active /\ EntryOf(p) >= lut_load_idx THEN WeightIn(lut_mem[EntryOf(p)])
    ELSE IF LoadsWeight(p) THEN sa_w.data
    ELSE w_reg[p]

FinalWeights == [p \in Cell |-> FinalWeight(p)]

FinalSums == [r \in Index |-> IF computing /\ compute_cnt <= N + 1 + r
                              THEN Signed(acc[r] + Dot(w_reg, x_in_reg, r)) ELSE acc[r]]

FinalAddr == IF bulk_active THEN [w_addr EXCEPT !.row = (bulk_row + 1) % N] ELSE w_addr

Busy == IF computing THEN "compute" ELSE IF lut_load_active THEN "load" ELSE "no"

\* A write is performed on the first clock of sel, a read when its answer is on the bus.
Performed == xbus_ack \/ (xbus.we /\ pending /\ ready_r)
Phase == IF ~xbus_cyc THEN "idle" ELSE IF Performed THEN "done" ELSE "asked"

Reply == IF xbus_cyc /\ xbus_ack /\ ~xbus.we THEN xbus_dat_r ELSE None

Accelerator == INSTANCE AtomicTpu WITH
    weights <- FinalWeights, x <- x_in_reg, sums <- FinalSums, done <- done, busy <- Busy,
    addr <- FinalAddr, lut <- lut_mem, phase <- Phase, req <- xbus, reply <- Reply

(***************************************************************************)
(* Bridge, loaders and systolic array together are the atomic accelerator: *)
(* the skewed pipeline adds exactly W times x, a load copies exactly the   *)
(* first N * N entries, a row write one row, in spite of every write       *)
(* reaching the accelerator twice, and STATUS never shows done early.      *)
(***************************************************************************)
Refinement == Accelerator!Spec
==============================================================================
