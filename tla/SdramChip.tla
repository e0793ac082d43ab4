------------------------------ MODULE SdramChip ------------------------------
(***************************************************************************)
(* The SDRAM part behind rtl/sdram_ctrl.v (HY57V2562GTR, CL=3, BL=1),      *)
(* reduced to what the controller relies on: which row each bank has open, *)
(* the cells, the read pipeline and the minimum distances between          *)
(* commands that the controller's localparams stand for.                   *)
(*                                                                         *)
(* The chip is external to the repository.  It samples the command bus on  *)
(* the falling edge (sdram_clk = ~clk), half a cycle after the controller  *)
(* registered it: ChipStep consumes the value the bus register had before  *)
(* the controller's own step of the same clock.                            *)
(***************************************************************************)
EXTENDS Integers, Sequences

CONSTANTS
    Bank, Row, Col,     \* geometry; a "column" is a 32-bit word, two 16-bit halves
    Byte,               \* the contents of one byte lane
    PowerUpByte,        \* what a lane holds before it is first written
    Closed,             \* no row open in a bank
    HiZ,                \* nobody drives DQ
    TRP, TRC, TRCD, TWR, TMRD   \* minimum distances, in clocks

ASSUME ChipAssumption ==
    /\ {} \notin {Bank, Row, Col}
    /\ Closed \notin Row
    /\ PowerUpByte \in Byte
    /\ HiZ \notin [{0, 1} -> Byte]
    /\ {TRP, TRC, TRCD, TWR, TMRD} \subseteq Nat

VARIABLES
    open,      \* the row each bank has open, or Closed
    cells,     \* contents, one word of four byte lanes per address
    pipe,      \* reads in flight: <<driven at the next rising edge, ..., newest>>
    hold,      \* clocks still to let pass after the last PRE, ACT, WRITE, REF, LMR
    refreshes, \* auto-refreshes seen before the mode register was set (at most 2)
    moded      \* the mode register has been set

chipVars == <<open, cells, pipe, hold, refreshes, moded>>

Lane == 0 .. 3
Word == [Lane -> Byte]
Half == {0, 1}
Pair == {0, 1}                          \* the two byte lanes of the 16-bit DQ
LaneOf(h, i) == 2 * h + i
HalfWord == [Pair -> Byte]
HalfOf(word, h) == [i \in Pair |-> word[LaneOf(h, i)]]
Address == [ba : Bank, row : Row, col : Col]

\* Clocks from each command to the first one that may depend on it.
Spacing == [PRE |-> TRP, ACT |-> TRCD, WRITE |-> TWR, REF |-> TRC, LMR |-> TMRD]
Paced == DOMAIN Spacing
Settled(c) == hold[c] = 0

(***************************************************************************)
(* The registered command bus: the command and the address pins as each    *)
(* command uses them (the bank and row of an ACT; the bank, word column    *)
(* and 16-bit half of a READ or WRITE; A10 of a PRE), and the byte lanes   *)
(* that DQM leaves enabled.                                                *)
(***************************************************************************)
CommandName == {"INHIBIT", "NOP", "ACT", "READ", "WRITE", "PRE", "REF", "LMR"}
Bus == [cmd : CommandName, ba : Bank, row : Row, col : Col, half : Half,
        a10 : BOOLEAN, lanes : SUBSET Pair]

At(bus) == [ba |-> bus.ba, row |-> open[bus.ba], col |-> bus.col]

AllClosed == \A b \in Bank : open[b] = Closed

\* Reads whose data the chip has yet to drive.
ReadInFlight == \E i \in DOMAIN pipe : pipe[i] # HiZ

(***************************************************************************)
(* The command sequences the part accepts.                                 *)
(***************************************************************************)
LegalCommand(bus) ==
    CASE bus.cmd = "ACT"   -> /\ moded /\ open[bus.ba] = Closed
                              /\ Settled("PRE") /\ Settled("REF") /\ Settled("LMR")
      [] bus.cmd = "READ"  -> open[bus.ba] # Closed /\ Settled("ACT")
      [] bus.cmd = "WRITE" -> open[bus.ba] # Closed /\ Settled("ACT") /\ ~ReadInFlight
      [] bus.cmd = "PRE"   -> Settled("WRITE")
      [] bus.cmd = "REF"   -> /\ AllClosed
                              /\ Settled("PRE") /\ Settled("REF") /\ Settled("LMR")
      [] bus.cmd = "LMR"   -> /\ AllClosed /\ refreshes = 2
                              /\ Settled("PRE") /\ Settled("REF")
      [] OTHER             -> TRUE

Merge(word, h, data, lanes) ==
    [l \in Lane |-> IF l - LaneOf(h, 0) \in lanes THEN data[l - LaneOf(h, 0)] ELSE word[l]]

(***************************************************************************)
(* What the cells hold once the chip has sampled this bus, with data on    *)
(* DQ.                                                                     *)
(***************************************************************************)
Stored(bus, data) ==
    IF bus.cmd = "WRITE" /\ open[bus.ba] # Closed
    THEN [cells EXCEPT ![At(bus)] = Merge(@, bus.half, data, bus.lanes)]
    ELSE cells

Fetched(bus) ==
    IF bus.cmd = "READ" /\ open[bus.ba] # Closed
    THEN HalfOf(cells[At(bus)], bus.half)
    ELSE HiZ

Opened(bus) ==
    CASE bus.cmd = "ACT" -> [open EXCEPT ![bus.ba] = bus.row]
      [] bus.cmd = "PRE" -> [b \in Bank |-> IF bus.a10 \/ b = bus.ba THEN Closed ELSE open[b]]
      [] OTHER           -> open

Less(n) == IF n > 0 THEN n - 1 ELSE 0

ChipInit ==
    /\ open \in [Bank -> Row \cup {Closed}]    \* unknown until the first precharge
    /\ cells = [a \in Address |-> [l \in Lane |-> PowerUpByte]]
    /\ pipe = <<HiZ, HiZ, HiZ>>
    /\ hold = [c \in Paced |-> 0]
    /\ refreshes = 0
    /\ moded = FALSE

ChipStep(bus, data) ==
    /\ open' = Opened(bus)
    /\ cells' = Stored(bus, data)
    /\ pipe' = <<pipe[2], pipe[3], Fetched(bus)>>
    /\ hold' = [c \in Paced |-> Less(IF bus.cmd = c THEN Spacing[c] ELSE hold[c])]
    /\ refreshes' = IF bus.cmd = "REF" /\ refreshes < 2 THEN refreshes + 1 ELSE refreshes
    /\ moded' = (moded \/ bus.cmd = "LMR")
-----------------------------------------------------------------------------
ChipTypeOK ==
    /\ open \in [Bank -> Row \cup {Closed}]
    /\ cells \in [Address -> Word]
    /\ pipe \in (HalfWord \cup {HiZ}) \X (HalfWord \cup {HiZ}) \X (HalfWord \cup {HiZ})
    /\ hold \in [Paced -> Nat]
    /\ refreshes \in 0 .. 2
    /\ moded \in BOOLEAN
==============================================================================
