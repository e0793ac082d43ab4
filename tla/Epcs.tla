-------------------------------- MODULE Epcs --------------------------------
(***************************************************************************)
(* The firmware that stages an image in slot 1 of the configuration flash: *)
(* epcs.c over the controller of EpcsSpi, mode t (the image comes from the *)
(* SD card) and mode H (the image is page 0 with an edit in it).  The      *)
(* operator starts a mode, may cut the power at any moment, and promotes a *)
(* staged edit to slot 0.                                                  *)
(*                                                                         *)
(* `at' is what the mode is about, `pc' the next register access of epcs.c *)
(* The waits for the data-valid flag and for the end of an operation are   *)
(* guards: their bounds are far above what the controller needs, and       *)
(* Returns shows that none of them waits for ever.  The bound of the poll  *)
(* for the chip is kept.  What the modes check before they touch the flash *)
(* is left out: a run that is refused there changes nothing.               *)
(***************************************************************************)
EXTENDS EpcsSpi

CONSTANTS
    LEN, EPCS_TPU_BASE,         \* bytes of an image, where slot 1 begins
    VERIFY,                     \* bytes looked at after an erase or a program (4)
    WIP_LIMIT,                  \* polls of the chip's status
    FRAMES,                     \* which bytes of an image are data of a frame: its CRC follows
    EDIT, EDIT_AT,              \* the bits flipped by mode H, and where
    Source,                     \* the image of mode t
    Flashes,                    \* what the flash may hold at first
    RUNS                        \* how many runs the operator starts

ASSUME StagingAssumption ==
    /\ {LEN, VERIFY, WIP_LIMIT} \subseteq Nat \ {0} /\ RUNS \in Nat
    /\ VERIFY <= PAGE /\ VERIFY <= LEN
    /\ EPCS_TPU_BASE \in Addr /\ EPCS_TPU_BASE % SECTOR = 0
    /\ LEN <= EPCS_TPU_BASE /\ EPCS_TPU_BASE + LEN <= SIZE
    /\ FRAMES \subseteq 1 .. LEN - 1 /\ EDIT \in Byte /\ EDIT_AT \in FRAMES
    /\ \A f \in FRAMES : f + 1 \notin FRAMES
    /\ Source \in [1 .. LEN -> Byte] /\ Flashes \subseteq [Addr -> Byte]

VARIABLES
    at, mode, pc,
    unit,                       \* the sector or page under way
    sent,                       \* bytes of the page handed to the controller
    got, image,                 \* the bytes read, the image to stage
    polls, runs

progVars == <<unit, sent, image, mode, runs>>
vars == <<spiVars, at, pc, got, polls, progVars>>

Slot(base) == [x \in 1 .. LEN |-> flash[base + x - 1]]
Resting == {"prompt", "staged", "halt"}
-----------------------------------------------------------------------------
(***************************************************************************)
(* Mode H: the codec works on the bytes of the .rbf file, which the flash  *)
(* holds with their bits reversed.                                         *)
(***************************************************************************)
Xor(a, b) == (a \ b) \cup (b \ a)
BitRev(im) == [x \in DOMAIN im |-> {BITS - 1 - b : b \in im[x]}]
CrcOf(d) == Xor(d, {0})

\* The board has booted from slot 0.
ASSUME SlotAssumption ==
    \A fl \in Flashes, f \in FRAMES :
        LET slot0 == BitRev([x \in 1 .. LEN |-> fl[x - 1]]) IN slot0[f + 1] = CrcOf(slot0[f])

LutApply(im) == [im EXCEPT ![EDIT_AT] = Xor(@, EDIT)]
\* Slip: the frame keeps the CRC that it had.
PatchNothing(im) == im

\* The CRC of the frame that the edit touched.
PatchCrc(im) == [im EXCEPT ![EDIT_AT + 1] = CrcOf(im[EDIT_AT])]
Surgery(page0) == BitRev(PatchCrc(LutApply(BitRev(page0))))
-----------------------------------------------------------------------------
(***************************************************************************)
(* What is erased or programmed.                                           *)
(***************************************************************************)
UpTo(n, size) == (n + size - 1) \div size
Size == IF at = "erase" THEN SECTOR ELSE PAGE
Target == EPCS_TPU_BASE + unit * Size
Chunk == SubSeq(image, unit * PAGE + 1, (IF (unit + 1) * PAGE < LEN THEN (unit + 1) * PAGE ELSE LEN))
LastUnit == unit + 1 = UpTo(LEN, Size)

From == CASE at = "page0" -> 0 [] at \in {"slot1", "readback"} -> EPCS_TPU_BASE
          [] OTHER -> Target
ToRead == CASE at = "erase" -> VERIFY
            [] at = "program" -> IF Len(Chunk) < VERIFY THEN Len(Chunk) ELSE VERIFY
            [] OTHER -> LEN

\* The mode goes on with a read, with a unit, or ends.
GoOn(where, first, u) ==
    /\ at' = where /\ pc' = first /\ unit' = u
    /\ got' = <<>> /\ polls' = 0 /\ sent' = 0
GoTo(where) == GoOn(where, (CASE where = "erase" -> "wren" [] where = "program" -> "reset"
                              [] OTHER -> "fast_read"), 0)
Ends(how) == GoOn(how, "idle", 0)
-----------------------------------------------------------------------------
(***************************************************************************)
(* epcs_fast_read: byte by byte, with a reset before each.                 *)
(***************************************************************************)
FastRead ==
    /\ pc = "fast_read" /\ pc' = "read_dv"
    /\ Reset({"read"}) /\ addr_reg' = From + Len(got)
    /\ UNCHANGED <<chipVars, datain_reg, at, got, polls, progVars>>

ReadByte ==
    /\ pc = "read_dv" /\ dv /\ pc' = "read_stop"
    /\ got' = Append(got, latched_dataout) /\ Consume
    /\ UNCHANGED <<chipVars, wireVars, regVars, at, polls, progVars>>

ReadStop ==
    /\ pc = "read_stop" /\ pc' = "read_idle" /\ Level({})
    /\ UNCHANGED <<chipVars, addr_reg, datain_reg, at, got, polls, progVars>>

\* Slip: one byte too many is read.
ReadNextLate ==
    /\ pc = "read_idle" /\ state = "S_IDLE" /\ Len(got) <= ToRead /\ pc' = "fast_read"
    /\ UNCHANGED <<spiVars, at, got, polls, progVars>>

ReadNext ==
    /\ pc = "read_idle" /\ state = "S_IDLE" /\ Len(got) < ToRead /\ pc' = "fast_read"
    /\ UNCHANGED <<spiVars, at, got, polls, progVars>>
-----------------------------------------------------------------------------
(***************************************************************************)
(* epcs_wren_pulse, epcs_erase_sector and epcs_program_page.               *)
(***************************************************************************)
ProgramReset ==
    /\ pc = "reset" /\ pc' = "wren" /\ Reset({})
    /\ UNCHANGED <<chipVars, addr_reg, datain_reg, at, got, polls, progVars>>

Wren ==
    /\ pc = "wren" /\ pc' = "wren_idle" /\ Pulse("wren", 0)
    /\ UNCHANGED <<chipVars, addr_reg, datain_reg, at, got, polls, progVars>>

Erase ==
    /\ at = "erase" /\ pc = "wren_idle" /\ state = "S_IDLE" /\ pc' = "op_idle"
    /\ addr_reg' = Target /\ Pulse("erase", Target)
    /\ UNCHANGED <<chipVars, datain_reg, at, got, polls, progVars>>

ProgramFirst ==
    /\ at = "program" /\ pc = "wren_idle" /\ state = "S_IDLE" /\ pc' = "byte_dv"
    /\ addr_reg' = Target /\ datain_reg' = Chunk[1] /\ Level({"write"}) /\ sent' = 1
    /\ UNCHANGED <<chipVars, at, got, polls, unit, image, mode, runs>>

ProgramByte ==
    /\ pc = "byte_dv" /\ dv /\ sent < Len(Chunk) /\ pc' = "shift"
    /\ datain_reg' = Chunk[sent + 1]
    /\ UNCHANGED <<chipVars, wireVars, slotVars, ctrl, addr_reg, at, got, polls, progVars>>

\* Slip: no delay before the pulse.
ShiftAtOnce ==
    /\ pc = "shift" /\ pc' = "byte_dv"
    /\ ShiftBytes /\ sent' = sent + 1
    /\ UNCHANGED <<chipVars, addr_reg, datain_reg, at, got, polls, unit, image, mode, runs>>

\* The delay before the pulse outlasts the clocks in which S_PAUSE does not look.
Shift ==
    /\ pc = "shift" /\ state # "settle" /\ pc' = "byte_dv"
    /\ ShiftBytes /\ sent' = sent + 1
    /\ UNCHANGED <<chipVars, addr_reg, datain_reg, at, got, polls, unit, image, mode, runs>>

ProgramStop ==
    /\ pc = "byte_dv" /\ dv /\ sent = Len(Chunk) /\ pc' = "op_idle" /\ Level({})
    /\ UNCHANGED <<chipVars, addr_reg, datain_reg, at, got, polls, progVars>>

OpIdle ==
    /\ pc = "op_idle" /\ state = "S_IDLE" /\ pc' = "status"
    /\ UNCHANGED <<spiVars, at, got, polls, progVars>>
-----------------------------------------------------------------------------
(***************************************************************************)
(* poll_wip_clear over epcs_read_status.                                   *)
(***************************************************************************)
ReadStatus ==
    /\ pc = "status" /\ pc' = "status_dv" /\ Pulse("status", 0)
    /\ UNCHANGED <<chipVars, addr_reg, datain_reg, at, got, polls, progVars>>

StatusByte ==
    /\ pc = "status_dv" /\ dv /\ pc' = "status_idle"
    /\ got' = <<latched_dataout>> /\ Consume
    /\ UNCHANGED <<chipVars, wireVars, regVars, at, polls, progVars>>

\* Slip: the polls are not counted.
Uncounted == polls
Polled == polls + 1

PollWip ==
    /\ pc = "status_idle" /\ state = "S_IDLE" /\ got' = <<>> /\ UNCHANGED spiVars
    /\ \/ /\ WIP \notin got[1] /\ pc' = "fast_read" /\ polls' = 0
          /\ UNCHANGED <<at, progVars>>
       \/ /\ WIP \in got[1] /\ Polled < WIP_LIMIT /\ pc' = "status" /\ polls' = Polled
          /\ UNCHANGED <<at, progVars>>
       \/ /\ WIP \in got[1] /\ Polled = WIP_LIMIT
          /\ at' = "halt" /\ pc' = "idle" /\ polls' = 0 /\ unit' = 0 /\ sent' = 0
          /\ UNCHANGED <<image, mode, runs>>
-----------------------------------------------------------------------------
(***************************************************************************)
(* What the bytes read decide.                                             *)
(***************************************************************************)
Read == pc = "read_idle" /\ state = "S_IDLE" /\ Len(got) = ToRead

Page0Read ==
    /\ Read /\ at = "page0"
    /\ image' = Surgery(got) /\ GoTo("slot1")
    /\ UNCHANGED <<spiVars, mode, runs>>

\* Slot 1 may hold the image already.
Slot1Read ==
    /\ Read /\ at = "slot1"
    /\ IF got = image THEN Ends("staged") ELSE GoTo("erase")
    /\ UNCHANGED <<spiVars, image, mode, runs>>

EraseVerified ==
    /\ Read /\ at = "erase"
    /\ \/ Range(got) # {Ones} /\ Ends("halt")
       \/ /\ Range(got) = {Ones}
          /\ IF LastUnit THEN GoTo("program") ELSE GoOn("erase", "wren", unit + 1)
    /\ UNCHANGED <<spiVars, image, mode, runs>>

PageVerified ==
    /\ Read /\ at = "program"
    /\ \/ got # SubSeq(Chunk, 1, ToRead) /\ Ends("halt")
       \/ /\ got = SubSeq(Chunk, 1, ToRead)
          /\ IF LastUnit THEN GoTo("readback") ELSE GoOn("program", "reset", unit + 1)
    /\ UNCHANGED <<spiVars, image, mode, runs>>

\* Slip: what is read back is not compared.
ReadBackOnly ==
    /\ Read /\ at = "readback" /\ Ends("staged")
    /\ UNCHANGED <<spiVars, image, mode, runs>>

ReadBack ==
    /\ Read /\ at = "readback"
    /\ Ends(IF got = image THEN "staged" ELSE "halt")
    /\ UNCHANGED <<spiVars, image, mode, runs>>

Firmware ==
    \/ FastRead \/ ReadByte \/ ReadStop \/ ReadNext
    \/ ProgramReset \/ Wren \/ Erase \/ ProgramFirst \/ ProgramByte \/ Shift \/ ProgramStop
    \/ OpIdle \/ ReadStatus \/ StatusByte \/ PollWip
    \/ Page0Read \/ Slot1Read \/ EraseVerified \/ PageVerified \/ ReadBack
-----------------------------------------------------------------------------
(***************************************************************************)
(* The operator.                                                           *)
(***************************************************************************)
\* Mode t halts at its end, and so does a run that fails; mode H goes back to
\* the prompt once its image is staged.
Prompted == at = "prompt" \/ (at = "staged" /\ mode = "H")

Begin ==
    /\ Prompted /\ runs < RUNS /\ runs' = runs + 1
    /\ \/ mode' = "t" /\ image' = Source /\ GoTo("slot1")
       \/ mode' = "H" /\ UNCHANGED image /\ GoTo("page0")
    /\ UNCHANGED spiVars

\* The power goes off and on again.  An erase or a program that is under
\* way has got to some of its cells.
PowerCycle ==
    /\ at # "prompt" /\ Ends("prompt")
    /\ \E S \in SUBSET {x \in Addr : ~Idle /\ Finished[x] # flash[x]} :
          flash' = [x \in Addr |-> IF x \in S THEN Finished[x] ELSE flash[x]]
    /\ wel' = FALSE /\ busy' = NotBusy /\ page' = <<>> /\ heard' = FALSE
    /\ state' = "S_IDLE" /\ op_kind' = "read" /\ raddr_q' = 0 /\ mosi' = {}
    /\ dv' = FALSE /\ latched_dataout' = {}
    /\ ctrl' = {} /\ addr_reg' = 0 /\ datain_reg' = {}
    /\ image' = Source /\ UNCHANGED <<mode, runs, faults>>

\* openFPGALoader copies slot 1 to slot 0; then the power is cycled.
Promote ==
    /\ at = "staged" /\ mode = "H" /\ Ends("halt")
    /\ flash' = [x \in Addr |-> IF x < LEN THEN flash[EPCS_TPU_BASE + x] ELSE flash[x]]
    /\ UNCHANGED <<wel, busy, page, faults, wireVars, slotVars, regVars, image, mode, runs>>

Init ==
    /\ SpiInit /\ flash \in Flashes /\ faults = 0
    /\ at = "prompt" /\ mode = "t" /\ pc = "idle" /\ unit = 0 /\ sent = 0
    /\ got = <<>> /\ image = Source /\ polls = 0 /\ runs = 0

Controller == Fsm /\ UNCHANGED <<at, pc, got, polls, progVars>>
Chip == Work /\ UNCHANGED <<at, pc, got, polls, progVars>>

Next == Firmware \/ Controller \/ Chip \/ Begin \/ PowerCycle \/ Promote

\* The processor and the controller run on; the chip may take its time.
Spec == Init /\ [][Next]_vars /\ WF_vars(Firmware) /\ WF_vars(Controller)
-----------------------------------------------------------------------------
(* TypeOK: every register and every variable of the firmware keeps to its range;
   no more bytes are read, programmed or polled for than the unit has
   (epcs.c, wb_altasmi_parallel.v).                                         *)
TypeOK ==
    /\ SpiTypeOK
    /\ at \in Resting \cup {"page0", "slot1", "erase", "program", "readback"}
    /\ mode \in {"t", "H"} /\ runs \in 0 .. RUNS /\ polls \in 0 .. WIP_LIMIT - 1
    /\ unit \in 0 .. UpTo(LEN, PAGE) - 1 /\ sent \in 0 .. PAGE
    /\ got \in Seq(Byte) /\ Len(got) <= LEN /\ image \in [1 .. LEN -> Byte]
    /\ (at \in Resting) = (pc = "idle")

\* The image a mode is asked for, told from the flash: in the bit order of
\* the file, the edit, the CRC of its frame, and nothing else.
Asked(x) ==
    LET page0 == BitRev(Slot(0)) IN
    IF mode = "t" THEN Source[x]
    ELSE BitRev([y \in 1 .. LEN |->
            CASE y = EDIT_AT -> Xor(page0[y], EDIT)
              [] y - 1 = EDIT_AT -> CrcOf(Xor(page0[y - 1], EDIT))
              [] OTHER -> page0[y]])[x]

(* StagedRight: when a mode reports its image staged, slot 1 holds every byte
   of it and the chip has come to rest, whatever a stale data-valid flag, a
   faulty cell, an earlier run or a power cut left behind (mode t and mode H,
   skip or write and read back).                                            *)
StagedRight ==
    at = "staged" => Idle /\ \A x \in 1 .. LEN : flash[EPCS_TPU_BASE + x - 1] = Asked(x)

(* Bootable: the frames of slot 0 carry their CRC at every step, whenever the
   power is cut and whatever is promoted: no mode writes to slot 0, and what
   mode H stages from it boots (main.c of patch 0046, "Slot 0 remains safe
   throughout").                                                            *)
Bootable == \A f \in FRAMES : BitRev(Slot(0))[f + 1] = CrcOf(BitRev(Slot(0))[f])

(* PulsesTaken: every pulse that the firmware gives finds the controller in
   the state that looks for it: an operation starts from S_IDLE, the next byte
   of a page from S_PAUSE past its first clocks (epcs.c of patch 0032).     *)
PulsesTaken ==
    [][at' = at /\ pc' # pc =>
        /\ pc \in {"wren", "wren_idle", "status"} => state = "S_IDLE"
        /\ pc = "shift" => state = "S_PAUSE"]_vars

(* Returns: a mode that is started ends: none of the waits for the controller
   waits for ever, and the poll of the chip is bounded (wait_dv,
   wait_busy_clear, poll_wip_clear).                                        *)
Returns == at \notin Resting ~> at \in Resting

(* EraseWaits: an erase whose poll has ended with success is over
   (epcs.h of patch 0031: "polls WIP until clear").                         *)
EraseWaits == at = "erase" /\ pc \in {"fast_read", "read_dv", "read_stop", "read_idle"} => Idle
=============================================================================
