------------------------------- MODULE TpuBus -------------------------------
(***************************************************************************)
(* The accelerator behind its Wishbone bridge, rtl/tpu/wb_tpu_accel.v, and *)
(* the bus lines the CPU drives.  The bridge holds sel (pending) for two   *)
(* clocks, until it has seen ready, so every write reaches the accelerator *)
(* twice.                                                                  *)
(***************************************************************************)
EXTENDS TpuAccel

CONSTANT PowerUpWords   \* what the registers without a reset may hold at power-up

ASSUME BusAssumption == PowerUpWords \subseteq Word

VARIABLES
    pending, xbus_ack, xbus_dat_r,  \* wb_tpu_accel
    xbus, xbus_stb, xbus_cyc        \* the CPU's request lines

bridgeVars == <<pending, xbus_ack, xbus_dat_r>>
xbusVars == <<xbus, xbus_stb, xbus_cyc>>
busVars == <<tpuVars, bridgeVars, xbusVars>>

Completed == pending /\ ready_r

\* Slip: the acknowledge is given only while the strobe lasts.
BridgeStrobed ==
    /\ pending' = IF Completed THEN FALSE ELSE pending \/ (xbus_cyc /\ xbus_stb)
    /\ xbus_ack' = (Completed /\ xbus_stb)
    /\ xbus_dat_r' = IF Completed THEN rdata(xbus) ELSE xbus_dat_r

Bridge ==
    /\ pending' = IF Completed THEN FALSE ELSE pending \/ (xbus_cyc /\ xbus_stb)
    /\ xbus_ack' = Completed
    /\ xbus_dat_r' = IF Completed THEN rdata(xbus) ELSE xbus_dat_r

TpuClock == TpuStep(pending, xbus) /\ Bridge
-----------------------------------------------------------------------------
(***************************************************************************)
(* The CPU's side of a transaction: the request stays on the bus until it  *)
(* is acknowledged, the strobe lasts one clock.                            *)
(***************************************************************************)
Idle == ~xbus_cyc /\ UNCHANGED xbusVars

Ask(q) ==
    /\ ~xbus_cyc
    /\ xbus' = q /\ xbus_stb' = TRUE /\ xbus_cyc' = TRUE

Await ==
    /\ xbus_cyc /\ ~xbus_ack
    /\ xbus_stb' = FALSE
    /\ UNCHANGED <<xbus, xbus_cyc>>

Finish ==
    /\ xbus_cyc /\ xbus_ack
    /\ xbus_stb' = FALSE /\ xbus_cyc' = FALSE
    /\ UNCHANGED xbus

BusInit(requests) ==
    /\ TpuInit(PowerUpWords)
    /\ pending = FALSE /\ xbus_ack = FALSE /\ xbus_dat_r = ZeroData
    /\ xbus \in requests /\ xbus_stb = FALSE /\ xbus_cyc = FALSE

BusReset ==
    /\ TpuReset
    /\ pending' = FALSE /\ xbus_ack' = FALSE /\ xbus_dat_r' = ZeroData
    /\ xbus_stb' = FALSE /\ xbus_cyc' = FALSE /\ UNCHANGED xbus

BusTypeOK ==
    /\ TpuTypeOK
    /\ pending \in BOOLEAN /\ xbus_ack \in BOOLEAN /\ xbus_dat_r \in ReadData
    /\ xbus \in Request /\ xbus_stb \in BOOLEAN /\ xbus_cyc \in BOOLEAN
==============================================================================
