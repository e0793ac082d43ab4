------------------------------ MODULE EpcsSpi ------------------------------
(***************************************************************************)
(* The SPI master of the configuration flash (wb_altasmi_parallel.v) and   *)
(* the flash chip (EPCS16, external).  One action per byte on the wire;    *)
(* the command, its address and its dummy byte go as one step.  A byte is  *)
(* the set of its one bits, so that AND is intersection.                   *)
(*                                                                         *)
(* A CTRL write sets the levels and gives its pulses for one clock: they   *)
(* find the FSM in the state that it is in, or are lost.                   *)
(***************************************************************************)
EXTENDS Integers, Sequences, Functions

CONSTANTS
    BITS,           \* bits of a byte (8)
    SIZE,           \* bytes in the chip
    SECTOR, PAGE,   \* bytes erased, and programmed, at a time
    FAULTS          \* how many erases and programs go wrong

ASSUME EpcsAssumption ==
    /\ {BITS, SIZE, SECTOR, PAGE} \subseteq Nat \ {0} /\ FAULTS \in Nat
    /\ SIZE % SECTOR = 0 /\ SECTOR % PAGE = 0 /\ BITS >= 2

Byte == SUBSET (0 .. BITS - 1)
Ones == 0 .. BITS - 1           \* an erased cell, and what an idle line reads as
WIP == 0                        \* the status bits: busy, and write enabled
WEL == 1
Addr == 0 .. SIZE - 1

VARIABLES
    flash, wel, busy, page,     \* the chip: its cells, its latch, what it is
    heard,                      \* busy with, the bytes to program; does it listen
    state, op_kind, raddr_q, mosi,
    dv, latched_dataout,        \* flag_data_valid and its byte
    ctrl, addr_reg, datain_reg, \* the levels of CTRL, ADDR, DATAIN
    faults

chipVars == <<flash, wel, busy, page, faults>>
wireVars == <<heard, state, op_kind, raddr_q, mosi>>
slotVars == <<dv, latched_dataout>>
regVars == <<ctrl, addr_reg, datain_reg>>
spiVars == <<chipVars, wireVars, slotVars, regVars>>

NotBusy == [op |-> "none", at |-> 0]
-----------------------------------------------------------------------------
(***************************************************************************)
(* The registers, as the firmware writes them.                             *)
(***************************************************************************)
Level(l) ==
    /\ ctrl' = l
    /\ UNCHANGED <<wireVars, slotVars>>

\* An operation starts if the pulse finds the FSM idle.
Pulse(op, addr) ==
    /\ ctrl' = {}
    /\ IF state = "S_IDLE"
       THEN state' = "command" /\ op_kind' = op /\ raddr_q' = addr
       ELSE UNCHANGED <<state, op_kind, raddr_q>>
    /\ UNCHANGED <<heard, mosi, slotVars>>

\* The pulse takes the data-valid flag away, whether the FSM goes on or not.
ShiftBytes ==
    /\ ctrl' = {"write"} /\ dv' = FALSE
    /\ IF state = "S_PAUSE" /\ op_kind = "write"
       THEN state' = "S_SHIFT" /\ mosi' = datain_reg
       ELSE UNCHANGED <<state, mosi>>
    /\ UNCHANGED <<heard, op_kind, raddr_q, latched_dataout>>

\* The reset pulse, then the levels.
Reset(l) ==
    /\ ctrl' = l /\ dv' = FALSE
    /\ state' = "S_IDLE" /\ op_kind' = "read" /\ raddr_q' = 0
    /\ UNCHANGED <<heard, mosi, latched_dataout>>

\* A read of DATAOUT.
Consume == dv' = FALSE /\ UNCHANGED latched_dataout
-----------------------------------------------------------------------------
(***************************************************************************)
(* The chip at the rising edge of its select, and by itself.  An erase or  *)
(* a program that is not enabled, or that finds the chip busy, is ignored. *)
(***************************************************************************)
Idle == busy = NotBusy

Selected(op, at) ==
    CASE op = "wren"
           -> wel' = (wel \/ Idle) /\ UNCHANGED busy
      [] op \in {"erase", "write"} /\ wel /\ Idle
           -> busy' = [op |-> op, at |-> at] /\ UNCHANGED wel
      [] OTHER -> UNCHANGED <<wel, busy>>

SectorOf(a) == {x \in Addr : x \div SECTOR = a \div SECTOR}
\* The cell of the i-th byte programmed from a on: within its page.
PageCell(a, i) == (a \div PAGE) * PAGE + ((a + i - 1) % PAGE)

\* What the flash holds once the chip is done: a program clears bits only.
Finished ==
    IF busy.op = "erase"
    THEN [x \in Addr |-> IF x \in SectorOf(busy.at) THEN Ones ELSE flash[x]]
    ELSE [x \in Addr |-> {b \in flash[x] :
             \A i \in DOMAIN page : PageCell(busy.at, i) = x => b \in page[i]}]

\* At a fault one of the cells keeps its old byte.
Work ==
    /\ ~Idle
    /\ \/ flash' = Finished /\ UNCHANGED faults
       \/ /\ faults < FAULTS /\ faults' = faults + 1
          /\ \E x \in Addr : /\ Finished[x] # flash[x]
                             /\ flash' = [Finished EXCEPT ![x] = flash[x]]
    /\ busy' = NotBusy /\ wel' = FALSE /\ page' = <<>>
    /\ UNCHANGED <<wireVars, slotVars, regVars>>
-----------------------------------------------------------------------------
(***************************************************************************)
(* The FSM.                                                                *)
(***************************************************************************)
Start ==
    /\ state = "S_IDLE" /\ ctrl # {}
    /\ state' = "command" /\ op_kind' \in ctrl /\ raddr_q' = addr_reg
    /\ UNCHANGED <<chipVars, heard, mosi, slotVars, regVars>>

Command ==
    /\ state = "command"
    /\ heard' = (Idle \/ op_kind = "status")
    /\ \/ /\ op_kind \in {"wren", "erase"}
          /\ state' = "S_TAIL" /\ Selected(op_kind, addr_reg) /\ UNCHANGED <<mosi, page>>
       \/ /\ op_kind \in {"read", "status", "write"}
          /\ state' = "S_SHIFT" /\ mosi' = datain_reg
          /\ page' = (IF op_kind = "write" /\ Idle THEN <<>> ELSE page)
          /\ UNCHANGED <<wel, busy>>
    /\ UNCHANGED <<flash, faults, op_kind, raddr_q, slotVars, regVars>>

Status == {b \in {WIP} : ~Idle} \cup {b \in {WEL} : wel}
Miso == CASE op_kind = "status"          -> Status
          [] op_kind = "read" /\ heard   -> flash[raddr_q]
          [] OTHER                       -> Ones

\* A byte is done: the slot takes it if it is free.
ByteValid ==
    /\ state = "S_SHIFT"
    /\ dv' = TRUE /\ latched_dataout' = IF dv THEN latched_dataout ELSE Miso
    /\ raddr_q' = (raddr_q + 1) % SIZE
    /\ page' = IF op_kind = "write" /\ heard THEN Append(page, mosi) ELSE page
    /\ state' = IF op_kind = "status" THEN "S_TAIL" ELSE "settle"
    /\ UNCHANGED <<flash, wel, busy, faults, heard, op_kind, mosi, regVars>>

\* S_PAUSE looks at nothing for its first three clocks.
Settle ==
    /\ state = "settle" /\ state' = "S_PAUSE"
    /\ UNCHANGED <<chipVars, heard, op_kind, raddr_q, mosi, slotVars, regVars>>

Pause ==
    /\ state = "S_PAUSE"
    /\ \/ op_kind \notin ctrl /\ state' = "S_TAIL" /\ Selected(op_kind, addr_reg)
       \/ /\ op_kind = "read" /\ op_kind \in ctrl /\ ~dv
          /\ state' = "S_SHIFT" /\ UNCHANGED <<wel, busy>>
    /\ UNCHANGED <<flash, page, faults, heard, op_kind, raddr_q, mosi, slotVars, regVars>>

TailEnds ==
    /\ state = "S_TAIL" /\ state' = "S_IDLE"
    /\ UNCHANGED <<chipVars, heard, op_kind, raddr_q, mosi, slotVars, regVars>>

Fsm == Start \/ Command \/ ByteValid \/ Settle \/ Pause \/ TailEnds

SpiInit ==
    /\ wel = FALSE /\ busy = NotBusy /\ page = <<>> /\ heard = FALSE
    /\ state = "S_IDLE" /\ op_kind = "read" /\ raddr_q = 0 /\ mosi = {}
    /\ dv = FALSE /\ latched_dataout = {}
    /\ ctrl = {} /\ addr_reg = 0 /\ datain_reg = {}

SpiTypeOK ==
    /\ flash \in [Addr -> Byte] /\ wel \in BOOLEAN /\ heard \in BOOLEAN
    /\ busy.op \in {"none", "erase", "write"} /\ busy.at \in Addr
    /\ page \in Seq(Byte) /\ Len(page) <= PAGE
    /\ state \in {"S_IDLE", "command", "S_SHIFT", "settle", "S_PAUSE", "S_TAIL"}
    /\ op_kind \in {"read", "status", "wren", "erase", "write"}
    /\ raddr_q \in Addr /\ addr_reg \in Addr
    /\ {mosi, latched_dataout, datain_reg} \subseteq Byte /\ dv \in BOOLEAN
    /\ ctrl \subseteq {"read", "write"} /\ faults \in 0 .. FAULTS
=============================================================================
