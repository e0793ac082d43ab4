----------------------------- MODULE SdramSystem -----------------------------
(***************************************************************************)
(* The SDRAM path of the SoC: the XBUS master, the Wishbone bridge         *)
(* rtl/wb_sdram_ctrl.v, the controller and the chip, all on one clock.     *)
(*                                                                         *)
(* The bridge keeps no copy of a request: the controller samples the       *)
(* address and data from the bus itself when it takes the request, which   *)
(* is why they must stay put until the acknowledge.  The master raises     *)
(* xbus_stb for one clock, holds cyc and the other lines, and gives up     *)
(* after XBUS_TIMEOUT clocks (generic of neorv32_top in rtl/ax301_top.vhd).*)
(***************************************************************************)
EXTENDS SdramCtrl

CONSTANTS
    Requests,       \* what the master may ask
    XBUS_TIMEOUT,   \* clocks the master waits for an acknowledge
    EarlyAccess     \* may the master use the SDRAM before it is initialized

\* The longest a request waits for its acknowledge once the part is up: behind two refreshes,
\* the second raised during the first.
MaxAnswerDelay == 3 * TRP + 2 * TRC + TRCD + (IF TWR > 5 THEN 17 + TWR ELSE 22)

\* The master waits that long, and no third refresh falls due during the second.
ASSUME SystemAssumption ==
    /\ Requests \subseteq [addr : Address, wdata : Word, wstrb : SUBSET Lane, in_sdram : BOOLEAN]
    /\ XBUS_TIMEOUT \in Nat /\ MaxAnswerDelay <= XBUS_TIMEOUT
    /\ TRP + 2 * TRC + 4 < REF_INTERVAL
    /\ EarlyAccess \in BOOLEAN

VARIABLES
    pending, xbus_ack, xbus_dat_r,  \* wb_sdram_ctrl
    xbus, xbus_stb, xbus_cyc,       \* the master's request lines
    waited,                         \* clocks since the request
    early                           \* the request came before initialization

bridgeVars == <<pending, xbus_ack, xbus_dat_r>>
masterVars == <<xbus, xbus_stb, xbus_cyc, waited, early>>
vars == <<chipVars, ctrlVars, bridgeVars, masterVars>>

Zero == LET none == [i \in Pair |-> PowerUpByte] IN <<none, none>>
-----------------------------------------------------------------------------
(***************************************************************************)
(* The bridge: pending is the controller's sel.                            *)
(***************************************************************************)
NewRequest == xbus_cyc /\ xbus_stb /\ ~pending
Completed == pending /\ ready
Unmapped == NewRequest /\ ~xbus.in_sdram

Bridge ==
    /\ pending' = IF Completed THEN FALSE ELSE pending \/ (NewRequest /\ xbus.in_sdram)
    /\ xbus_ack' = (Completed \/ Unmapped)
    /\ xbus_dat_r' = IF Completed THEN rdata ELSE IF Unmapped THEN Zero ELSE xbus_dat_r

OnBus == [addr |-> xbus.addr, wdata |-> xbus.wdata, wstrb |-> xbus.wstrb]

SdramClock == /\ ChipStep(bus, dq_out)
              /\ CtrlStep(pending, OnBus)
              /\ Bridge
-----------------------------------------------------------------------------
(***************************************************************************)
(* The master: one request at a time.                                      *)
(***************************************************************************)
Rest ==
    /\ ~xbus_cyc
    /\ UNCHANGED masterVars

Ask(q) ==
    /\ ~xbus_cyc
    /\ initialized \/ EarlyAccess
    /\ xbus' = q /\ xbus_stb' = TRUE /\ xbus_cyc' = TRUE
    /\ waited' = 0
    /\ early' = ~initialized

Finish ==
    /\ xbus_cyc /\ xbus_ack
    /\ xbus_stb' = FALSE /\ xbus_cyc' = FALSE
    /\ waited' = 0
    /\ UNCHANGED <<xbus, early>>

Expire ==
    /\ xbus_cyc /\ ~xbus_ack /\ waited >= XBUS_TIMEOUT
    /\ xbus_stb' = FALSE /\ xbus_cyc' = FALSE
    /\ waited' = 0
    /\ UNCHANGED <<xbus, early>>

Await ==
    /\ xbus_cyc /\ ~xbus_ack /\ waited < XBUS_TIMEOUT
    /\ xbus_stb' = FALSE
    /\ waited' = waited + 1
    /\ UNCHANGED <<xbus, xbus_cyc, early>>

Master == Rest \/ (\E q \in Requests : Ask(q)) \/ Finish \/ Expire \/ Await
-----------------------------------------------------------------------------
BridgeInit == pending = FALSE /\ xbus_ack = FALSE /\ xbus_dat_r = Zero
MasterInit == /\ xbus \in Requests /\ xbus_stb = FALSE /\ xbus_cyc = FALSE
              /\ waited = 0 /\ early = FALSE

Init == ChipInit /\ CtrlInit /\ BridgeInit /\ MasterInit

Tick == SdramClock /\ Master

\* The reset button: every register but the chip's own state goes back to its reset value.
Reset ==
    /\ CtrlReset
    /\ pending' = FALSE /\ xbus_ack' = FALSE /\ xbus_dat_r' = Zero
    /\ xbus_stb' = FALSE /\ xbus_cyc' = FALSE /\ waited' = 0 /\ early' = FALSE
    /\ UNCHANGED <<chipVars, xbus>>

Next == Tick \/ Reset

Spec == Init /\ [][Next]_vars
-----------------------------------------------------------------------------
TypeOK ==
    /\ ChipTypeOK /\ CtrlTypeOK
    /\ pending \in BOOLEAN /\ xbus_ack \in BOOLEAN
    /\ xbus \in Requests /\ xbus_stb \in BOOLEAN /\ xbus_cyc \in BOOLEAN
    /\ xbus_dat_r \in (HalfWord \cup {HiZ}) \X (HalfWord \cup {HiZ})
    /\ waited \in 0 .. XBUS_TIMEOUT
    /\ early \in BOOLEAN

(***************************************************************************)
(* The controller never sends the chip a command the chip cannot take: an  *)
(* access needs its bank's row open, an ACT a closed and precharged bank,  *)
(* a refresh all banks closed, and every minimum distance is kept, through *)
(* refreshes, row changes, resets and whatever the master does             *)
(* (rtl/sdram_ctrl.v, the FSM and its localparams).                        *)
(***************************************************************************)
BusLegal == LegalCommand(bus)

(***************************************************************************)
(* The open-row registers are the chip's own state: once the command on    *)
(* the bus has been sampled, the one open row is the one that row_open,    *)
(* open_ba and open_row (or an ACT under way) name, so that a page hit     *)
(* reaches the row it means (S_IDLE's dispatch, S_ACT_W, S_REF_PRE,        *)
(* S_PRE_OLD).                                                             *)
(***************************************************************************)
Only(b, r) == [x \in Bank |-> IF x = b THEN r ELSE Closed]
NoneOpen == [x \in Bank |-> Closed]

RowTracking ==
    /\ initialized => Opened(bus) = IF state = "S_ACT_W" THEN Only(lat.addr.ba, lat.addr.row)
                                    ELSE IF row_open THEN Only(open_ba, open_row)
                                    ELSE NoneOpen
    /\ state \in ReadState \cup WriteState =>
           row_open /\ open_ba = lat.addr.ba /\ open_row = lat.addr.row

(***************************************************************************)
(* DQ has one driver: the controller drives it exactly while a WRITE is on *)
(* the bus, and the chip has no read data in flight then (dq_oe in the     *)
(* write states against the two pipelined READs).                          *)
(***************************************************************************)
DqOwnership ==
    /\ dq_oe <=> bus.cmd = "WRITE"
    /\ dq_oe => ~ReadInFlight

(***************************************************************************)
(* A refresh request waits for no more than the access it just missed: it  *)
(* is served before MaxRefreshDelay clocks have passed, whatever the       *)
(* traffic, so the timer never raises the next one while it is pending and *)
(* S_REF_AR never clears a fresh request (the refresh counter process).    *)
(***************************************************************************)
RefreshDelay == ref_req => ref_cnt <= MaxRefreshDelay

(***************************************************************************)
(* The master's timeout cannot race an answer once the part is up: only a  *)
(* request made during the power-up sequence can expire                    *)
(* (XBUS_TIMEOUT of rtl/ax301_top.vhd against the longest row miss behind  *)
(* a refresh; INIT_CYCLES alone exceeds it).                               *)
(***************************************************************************)
NoLateTimeout == [][Expire => early]_vars

(***************************************************************************)
(* The refinement: an access takes effect when the chip samples the first  *)
(* of its two WRITEs, the second being certain by then, or when its        *)
(* answer reaches the bus.                                                 *)
(***************************************************************************)
Contents == IF bus.cmd = "WRITE" /\ bus.half = 1 THEN Stored(bus, dq_out) ELSE cells

Performed ==
    \/ xbus_ack
    \/ is_write /\ state \in {"S_WR_REC", "S_DONE", "S_DONE_W"}

IsRead(q) == q.wstrb = {}
Assemble(d) == [l \in Lane |-> d[1 + l \div 2][l % 2]]

Phase == IF ~xbus_cyc THEN "idle" ELSE IF Performed THEN "done" ELSE "asked"
Reply == IF xbus_cyc /\ xbus_ack /\ IsRead(xbus)
         THEN IF HiZ \in {xbus_dat_r[1], xbus_dat_r[2]} THEN HiZ ELSE Assemble(xbus_dat_r)
         ELSE HiZ

Memory == INSTANCE AtomicMemory WITH
              None <- HiZ, mem <- Contents, phase <- Phase, req <- xbus, reply <- Reply

(***************************************************************************)
(* Bridge, controller and chip together are the atomic memory: every       *)
(* acknowledged write changed just its lanes of its own word, every read   *)
(* returns what the completed writes left there, and a reset can spoil     *)
(* only the word under write.                                              *)
(***************************************************************************)
Refinement == Memory!Spec
==============================================================================
