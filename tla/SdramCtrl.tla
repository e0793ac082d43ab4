------------------------------ MODULE SdramCtrl ------------------------------
(***************************************************************************)
(* rtl/sdram_ctrl.v, one action per FSM state and one step per clock.      *)
(*                                                                         *)
(* The registers keep the source's names; addr_lat, wdata_lat, wstrb_lat   *)
(* are the fields of lat, and the command, address and DQM output          *)
(* registers are the record bus.  The wait states of the source leave when *)
(* cnt reaches the parameter, so each lasts one clock more than it.        *)
(***************************************************************************)
EXTENDS SdramChip

CONSTANTS
    INIT_CYCLES,    \* clocks before the first precharge
    REF_INTERVAL    \* clocks between refresh requests

\* The longest a refresh request waits: the access taken the clock it was raised, on
\* another row, then the precharge.
MaxRefreshDelay == 3 * TRP + TRCD + (IF TWR > 5 THEN 12 + TWR ELSE 17)

(***************************************************************************)
(* The register widths (cnt has 3 bits, init_cnt 14, ref_cnt 10), a        *)
(* power-up wait longer than anything the chip may still be doing when the *)
(* reset button is pressed, and room between two refreshes for the longest *)
(* access.                                                                 *)
(***************************************************************************)
ASSUME CtrlAssumption ==
    /\ \A t \in {TRP, TRC, TRCD, TMRD, TWR + TRP} : t <= 7
    /\ INIT_CYCLES \in 3 .. 16383
    /\ \A t \in {TRP, TRC, TRCD, TWR, TMRD} : t <= INIT_CYCLES
    /\ REF_INTERVAL \in 0 .. 1023
    /\ MaxRefreshDelay < REF_INTERVAL

VARIABLES
    state, cnt, init_cnt, initialized,
    ref_cnt, ref_req,
    ready, rdata, data_lo,
    lat,                            \* [addr, wdata, wstrb] of the access under way
    is_write,
    row_open, open_ba, open_row,    \* the row the controller believes open
    bus, dq_oe, dq_out

fsmVars == <<state, cnt, init_cnt, initialized, ready, rdata, data_lo, lat, is_write,
             row_open, open_ba, open_row, bus, dq_oe, dq_out>>
refVars == <<ref_cnt, ref_req>>
ctrlVars == <<fsmVars, refVars>>

InitState == {"S_INIT_WAIT", "S_INIT_PRE", "S_INIT_PRE_W", "S_INIT_AR1", "S_INIT_AR1_W",
              "S_INIT_AR2", "S_INIT_AR2_W", "S_INIT_LMR", "S_INIT_LMR_W"}
RefreshState == {"S_REF_PRE", "S_REF_PRE_W", "S_REF_AR", "S_REF_AR_W"}
OpenState == {"S_PRE_OLD", "S_PRE_OLD_W", "S_ACT", "S_ACT_W"}
ReadState == {"S_RD_CMD0", "S_RD_NOP1", "S_RD_CMD1", "S_RD_WAIT", "S_RD_CAP0",
              "S_RD_GAP", "S_RD_CAP1", "S_RD_PRE_W"}
WriteState == {"S_WR_CMD0", "S_WR_CMD1", "S_WR_REC"}
State == InitState \cup {"S_IDLE"} \cup RefreshState \cup OpenState
           \cup ReadState \cup WriteState \cup {"S_DONE", "S_DONE_W"}

\* What the controller latches when it takes a request; a read strobes no lane.
Access == [addr : Address, wdata : Word, wstrb : SUBSET Lane]

\* DQ at the next rising edge: what the chip drives.
sdram_dq == pipe[1]
-----------------------------------------------------------------------------
initVars == <<init_cnt, initialized>>
accessVars == <<lat, is_write>>
dataVars == <<rdata, data_lo>>
rowVars == <<row_open, open_ba, open_row>>
dqVars == <<dq_oe, dq_out>>

Goto(s) == state' = s
Drive(c) == bus' = [bus EXCEPT !.cmd = c]
Idling == ready' = FALSE

\* How far cnt runs in each wait state.
Limit == [S_INIT_PRE_W |-> TRP, S_INIT_AR1_W |-> TRC, S_INIT_AR2_W |-> TRC,
          S_INIT_LMR_W |-> TMRD, S_REF_PRE_W |-> TRP, S_REF_AR_W |-> TRC,
          S_PRE_OLD_W |-> TRP, S_ACT_W |-> TRCD, S_RD_PRE_W |-> TRP,
          S_WR_REC |-> TWR + TRP]

\* Where a wait state leads, but for the two that also set a register.
Successor == [S_INIT_PRE_W |-> "S_INIT_AR1", S_INIT_AR1_W |-> "S_INIT_AR2",
              S_INIT_AR2_W |-> "S_INIT_LMR", S_REF_PRE_W |-> "S_REF_AR",
              S_REF_AR_W |-> "S_IDLE", S_PRE_OLD_W |-> "S_ACT",
              S_RD_PRE_W |-> "S_DONE", S_WR_REC |-> "S_DONE"]
KeepsCnt == {"S_REF_AR_W", "S_RD_PRE_W", "S_WR_REC"}

\* A slip the runs must notice: the write recovery keeps driving DQ.
InWaitDriving ==
    /\ state \in DOMAIN Limit
    /\ Drive("NOP") /\ Idling
    /\ UNCHANGED <<init_cnt, dqVars, accessVars, dataVars>>

\* A clock spent in a wait state: NOP on the bus, and the write recovery stops driving DQ.
InWait ==
    /\ state \in DOMAIN Limit
    /\ Drive("NOP") /\ Idling
    /\ dq_oe' = (dq_oe /\ state # "S_WR_REC")
    /\ UNCHANGED <<init_cnt, dq_out, accessVars, dataVars>>

Wait ==
    /\ InWait
    /\ cnt < Limit[state]
    /\ cnt' = cnt + 1
    /\ UNCHANGED <<state, initialized, rowVars>>

WaitOver ==
    /\ InWait
    /\ state \in DOMAIN Successor
    /\ cnt >= Limit[state]
    /\ Goto(Successor[state])
    /\ cnt' = IF state \in KeepsCnt THEN cnt ELSE 0
    /\ UNCHANGED <<initialized, rowVars>>

\* A state that lasts one clock and clears cnt.
Issue(s, next) ==
    /\ state = s /\ Goto(next) /\ cnt' = 0 /\ Idling
    /\ UNCHANGED <<initVars, accessVars, dataVars, dqVars>>

\* A state that lasts one clock and drives a NOP.
Pass ==
    \E e \in {<<"S_RD_NOP1", "S_RD_CMD1">>, <<"S_RD_WAIT", "S_RD_CAP0">>,
              <<"S_RD_GAP", "S_RD_CAP1">>, <<"S_DONE_W", "S_IDLE">>} :
        /\ state = e[1] /\ Goto(e[2]) /\ Drive("NOP") /\ Idling
        /\ UNCHANGED <<cnt, initVars, accessVars, dataVars, rowVars, dqVars>>
-----------------------------------------------------------------------------
(***************************************************************************)
(* Power-up sequence.                                                      *)
(***************************************************************************)
InitWait ==
    /\ state = "S_INIT_WAIT"
    /\ Drive("INHIBIT") /\ Idling
    /\ dq_oe' = FALSE
    /\ \/ init_cnt >= INIT_CYCLES /\ Goto("S_INIT_PRE") /\ cnt' = 0 /\ UNCHANGED init_cnt
       \/ init_cnt < INIT_CYCLES /\ init_cnt' = init_cnt + 1 /\ UNCHANGED <<state, cnt>>
    /\ UNCHANGED <<initialized, dq_out, accessVars, dataVars, rowVars>>

PrechargeAll == bus' = [bus EXCEPT !.cmd = "PRE", !.a10 = TRUE]

InitPre == Issue("S_INIT_PRE", "S_INIT_PRE_W") /\ PrechargeAll /\ UNCHANGED rowVars
InitAr1 == Issue("S_INIT_AR1", "S_INIT_AR1_W") /\ Drive("REF") /\ UNCHANGED rowVars
InitAr2 == Issue("S_INIT_AR2", "S_INIT_AR2_W") /\ Drive("REF") /\ UNCHANGED rowVars
InitLmr == Issue("S_INIT_LMR", "S_INIT_LMR_W") /\ Drive("LMR") /\ UNCHANGED rowVars
InitOver ==
    /\ state = "S_INIT_LMR_W" /\ InWait
    /\ cnt >= TMRD
    /\ Goto("S_IDLE") /\ initialized' = TRUE
    /\ UNCHANGED <<cnt, rowVars>>

PowerUp == InitWait \/ InitPre \/ InitAr1 \/ InitAr2 \/ InitLmr \/ InitOver
-----------------------------------------------------------------------------
(***************************************************************************)
(* The dispatcher: a due refresh goes first; an access to the open row     *)
(* goes straight to its command, one to another row closes it first.       *)
(***************************************************************************)
\* A slip: the bank is not compared.
HitRowOnly(a) == row_open /\ a.row = open_row

Hit(a) == row_open /\ a.ba = open_ba /\ a.row = open_row

AccessState(write) == IF write THEN "S_WR_CMD0" ELSE "S_RD_CMD0"

\* A slip: the row open elsewhere is not closed first.
TakeOverOpenRow(request) ==
    /\ lat' = request
    /\ is_write' = (request.wstrb # {})
    /\ Goto(IF Hit(request.addr) THEN AccessState(request.wstrb # {}) ELSE "S_ACT")

Take(request) ==
    /\ lat' = request
    /\ is_write' = (request.wstrb # {})
    /\ Goto(IF Hit(request.addr) THEN AccessState(request.wstrb # {})
            ELSE IF row_open THEN "S_PRE_OLD" ELSE "S_ACT")

\* Slips: the refresh skips its precharge; requests go before a due refresh.
IdleBareRefresh(sel, request) ==
    /\ state = "S_IDLE"
    /\ Drive("NOP") /\ Idling
    /\ dq_oe' = FALSE
    /\ \/ ref_req /\ Goto("S_REF_AR") /\ UNCHANGED accessVars
       \/ ~ref_req /\ sel /\ Take(request)
       \/ ~ref_req /\ ~sel /\ UNCHANGED <<state, accessVars>>
    /\ UNCHANGED <<cnt, initVars, dq_out, dataVars, rowVars>>

IdleRequestFirst(sel, request) ==
    /\ state = "S_IDLE"
    /\ Drive("NOP") /\ Idling
    /\ dq_oe' = FALSE
    /\ \/ sel /\ Take(request)
       \/ ~sel /\ ref_req /\ Goto("S_REF_PRE") /\ UNCHANGED accessVars
       \/ ~ref_req /\ ~sel /\ UNCHANGED <<state, accessVars>>
    /\ UNCHANGED <<cnt, initVars, dq_out, dataVars, rowVars>>

Idle(sel, request) ==
    /\ state = "S_IDLE"
    /\ Drive("NOP") /\ Idling
    /\ dq_oe' = FALSE
    /\ \/ ref_req /\ Goto("S_REF_PRE") /\ UNCHANGED accessVars
       \/ ~ref_req /\ sel /\ Take(request)
       \/ ~ref_req /\ ~sel /\ UNCHANGED <<state, accessVars>>
    /\ UNCHANGED <<cnt, initVars, dq_out, dataVars, rowVars>>

\* A slip: the precharge forgets to forget the open row.
RefPreKeepingRow == Issue("S_REF_PRE", "S_REF_PRE_W") /\ PrechargeAll /\ UNCHANGED rowVars

RefPre ==
    /\ Issue("S_REF_PRE", "S_REF_PRE_W") /\ PrechargeAll
    /\ row_open' = FALSE /\ UNCHANGED <<open_ba, open_row>>
RefAr == Issue("S_REF_AR", "S_REF_AR_W") /\ Drive("REF") /\ UNCHANGED rowVars

PreOld ==
    /\ Issue("S_PRE_OLD", "S_PRE_OLD_W")
    /\ bus' = [bus EXCEPT !.cmd = "PRE", !.ba = open_ba, !.a10 = FALSE]
    /\ row_open' = FALSE /\ UNCHANGED <<open_ba, open_row>>
Act ==
    /\ Issue("S_ACT", "S_ACT_W")
    /\ bus' = [bus EXCEPT !.cmd = "ACT", !.ba = lat.addr.ba, !.row = lat.addr.row]
    /\ UNCHANGED rowVars
ActOver ==
    /\ state = "S_ACT_W" /\ InWait
    /\ cnt >= TRCD
    /\ Goto(AccessState(is_write)) /\ cnt' = 0
    /\ row_open' = TRUE /\ open_ba' = lat.addr.ba /\ open_row' = lat.addr.row
    /\ UNCHANGED initialized

RowChange == RefPre \/ RefAr \/ PreOld \/ Act \/ ActOver
-----------------------------------------------------------------------------
(***************************************************************************)
(* Accesses: two READ commands one NOP apart, each half captured from DQ   *)
(* four states after its command; or two WRITE commands back to back.      *)
(***************************************************************************)
Column(c, h, lanes) ==
    bus' = [bus EXCEPT !.cmd = c, !.ba = lat.addr.ba, !.col = lat.addr.col,
                       !.half = h, !.lanes = lanes]

RdCmd(s, next, h) ==
    /\ state = s /\ Goto(next) /\ Column("READ", h, Pair) /\ Idling
    /\ UNCHANGED <<cnt, initVars, accessVars, dataVars, rowVars, dqVars>>

RdCap0 ==
    /\ state = "S_RD_CAP0" /\ Goto("S_RD_GAP") /\ Drive("NOP") /\ Idling
    /\ data_lo' = sdram_dq
    /\ UNCHANGED <<cnt, initVars, accessVars, rdata, rowVars, dqVars>>
RdCap1 ==
    /\ state = "S_RD_CAP1" /\ Goto("S_RD_PRE_W") /\ Drive("NOP") /\ Idling
    /\ rdata' = <<data_lo, sdram_dq>>
    /\ cnt' = 0
    /\ UNCHANGED <<initVars, accessVars, data_lo, rowVars, dqVars>>

WrCmd(s, next, h) ==
    /\ state = s /\ Goto(next) /\ Idling
    /\ Column("WRITE", h, {i \in Pair : LaneOf(h, i) \in lat.wstrb})
    /\ dq_oe' = TRUE
    /\ dq_out' = HalfOf(lat.wdata, h)
    /\ cnt' = IF h = 1 THEN 0 ELSE cnt
    /\ UNCHANGED <<initVars, accessVars, dataVars, rowVars>>

Done ==
    /\ state = "S_DONE" /\ Goto("S_DONE_W") /\ Drive("NOP")
    /\ ready' = TRUE
    /\ UNCHANGED <<cnt, initVars, accessVars, dataVars, rowVars, dqVars>>

DoAccess ==
    \/ RdCmd("S_RD_CMD0", "S_RD_NOP1", 0) \/ RdCmd("S_RD_CMD1", "S_RD_WAIT", 1)
    \/ RdCap0 \/ RdCap1
    \/ WrCmd("S_WR_CMD0", "S_WR_CMD1", 0) \/ WrCmd("S_WR_CMD1", "S_WR_REC", 1)
    \/ Done
-----------------------------------------------------------------------------
(***************************************************************************)
(* The refresh timer, a process of its own: it runs once initialized and   *)
(* the refresh command of the FSM wins over a request set the same clock.  *)
(***************************************************************************)
\* Slips: the counter does not wrap; the refresh command does not clear its request.
RefreshTimerUnwrapped ==
    IF initialized
    THEN /\ ref_cnt' = ref_cnt + 1
         /\ ref_req' = (state # "S_REF_AR" /\ (ref_req \/ ref_cnt >= REF_INTERVAL))
    ELSE UNCHANGED refVars

RefreshTimerUncleared ==
    IF initialized
    THEN /\ ref_cnt' = IF ref_cnt >= REF_INTERVAL THEN 0 ELSE ref_cnt + 1
         /\ ref_req' = (ref_req \/ ref_cnt >= REF_INTERVAL)
    ELSE UNCHANGED refVars

RefreshTimer ==
    IF initialized
    THEN /\ ref_cnt' = IF ref_cnt >= REF_INTERVAL THEN 0 ELSE ref_cnt + 1
         /\ ref_req' = (state # "S_REF_AR" /\ (ref_req \/ ref_cnt >= REF_INTERVAL))
    ELSE UNCHANGED refVars

Fsm(sel, request) ==
    PowerUp \/ Wait \/ WaitOver \/ Pass \/ Idle(sel, request) \/ RowChange \/ DoAccess

CtrlStep(sel, request) == Fsm(sel, request) /\ RefreshTimer

\* The reset values of the address and data registers, which nothing reads before they
\* are written.
ResetAddress == CHOOSE a \in Address : TRUE
ResetAccess == [addr |-> ResetAddress, wdata |-> [l \in Lane |-> PowerUpByte], wstrb |-> {}]
ResetBus == [cmd |-> "INHIBIT", ba |-> ResetAddress.ba, row |-> ResetAddress.row,
             col |-> ResetAddress.col, half |-> 0, a10 |-> FALSE, lanes |-> Pair]

CtrlInit ==
    /\ state = "S_INIT_WAIT" /\ cnt = 0 /\ init_cnt = 0 /\ initialized = FALSE
    /\ ref_cnt = 0 /\ ref_req = FALSE
    /\ ready = FALSE /\ rdata = <<HiZ, HiZ>> /\ data_lo = HiZ
    /\ lat = ResetAccess /\ is_write = FALSE
    /\ row_open = FALSE /\ open_ba = ResetAddress.ba /\ open_row = ResetAddress.row
    /\ bus = ResetBus
    /\ dq_oe = FALSE /\ dq_out = HiZ

\* The asynchronous reset: the same values, from any state.
CtrlReset ==
    /\ state' = "S_INIT_WAIT" /\ cnt' = 0 /\ init_cnt' = 0 /\ initialized' = FALSE
    /\ ref_cnt' = 0 /\ ref_req' = FALSE
    /\ ready' = FALSE /\ rdata' = <<HiZ, HiZ>> /\ data_lo' = HiZ
    /\ lat' = ResetAccess /\ is_write' = FALSE
    /\ row_open' = FALSE /\ open_ba' = ResetAddress.ba /\ open_row' = ResetAddress.row
    /\ bus' = ResetBus
    /\ dq_oe' = FALSE /\ dq_out' = HiZ
-----------------------------------------------------------------------------
CtrlTypeOK ==
    /\ state \in State
    /\ cnt \in 0 .. 7
    /\ init_cnt \in 0 .. INIT_CYCLES
    /\ initialized \in BOOLEAN
    /\ ref_cnt \in 0 .. REF_INTERVAL
    /\ ref_req \in BOOLEAN
    /\ ready \in BOOLEAN
    /\ data_lo \in HalfWord \cup {HiZ}
    /\ rdata \in (HalfWord \cup {HiZ}) \X (HalfWord \cup {HiZ})
    /\ lat \in Access
    /\ is_write \in BOOLEAN
    /\ row_open \in BOOLEAN
    /\ open_ba \in Bank
    /\ open_row \in Row
    /\ bus \in Bus
    /\ dq_oe \in BOOLEAN
    /\ dq_out \in HalfWord \cup {HiZ}
==============================================================================
