# Formal model of the AX301 measured-boot demo

TLA+ modules, TLC runs and TLAPS proofs for the code in this repository: the
SoC fabric under `docs/analysis/linux_tpu/scratch_merge/rtl`, the stage2 loader
under `scratch_merge/sw/stage2_loader`, the Linux init program under
`docs/analysis/linux_tpu/initramfs`, and the flash controller and staging
firmware of the root of trust, which the repository holds as patches. Source paths below are relative to
`docs/analysis/linux_tpu/scratch_merge` unless they start with `docs`,
`patches` or `Makefile`.

## 1. The system

A NEORV32 soft core on a Cyclone IV FPGA (AX301 board) boots stage2 from an
on-chip ROM, which loads a Linux kernel, or U-Boot, into SDRAM over the serial
line or from an SD card. The core reaches SDRAM and a small systolic-array
accelerator (TPU) over one Wishbone-style bus (XBUS). Under Linux an init
program checks the hash of a model file, programs the TPU and prints a
classification. In the other build of the SoC, the root of trust (RoT), stage2
also checks an `edits.bin` from the SD card, writes it to the TPU's LUT memory
or into a bitstream, and stages that bitstream in the EPCS configuration flash.

| Component | Source | State | Operations | Talks to |
|---|---|---|---|---|
| SDRAM controller | `rtl/sdram_ctrl.v` | FSM (31 states), counters, refresh timer, open-row registers, DQ register | one step per clock | chip pins, bridge |
| SDRAM bridge | `rtl/wb_sdram_ctrl.v` | `pending`, `xbus_ack`, `xbus_dat_r` | one step per clock | XBUS, controller |
| TPU | `rtl/tpu/tpu_accel.v`, `pe.v`, `systolic_array_4x4.v` | weights, skewed x and partial sums, accumulators, two weight loaders, LUT memory | register reads and writes, compute, LUT load | bridge |
| TPU bridge | `rtl/tpu/wb_tpu_accel.v` | `pending`, `xbus_ack`, `xbus_dat_r` | one step per clock | XBUS, TPU |
| Top level | `rtl/ax301_top.vhd` | reset counter | reset, address decode, bus timeout | all of the above |
| Stage2 loader | `sw/stage2_loader/main.c` | mode and its locals, XMODEM position, UART rate, memory | xmodem, U-Boot, Linux, SD boot, baud switch | serial host, SD |
| SD driver | `sw/stage2_loader/sd.c` | card type, clock, buffers | init, read, write; smoke test, dump, write test, multi-block update, header and bulk read | SPI, serial host |
| Classifier | `docs/analysis/linux_tpu/initramfs/init.c` | file buffer, loop counters | `tpu` command | TPU registers |
| EPCS controller | `patches/neorv32_rot/0026`..`0030` | SPI FSM, sticky flags | fast read, write enable, erase, program, read status | flash |
| EPCS firmware | `patches/neorv32_rot/0031`..`0033` | none of its own | erase, program page, write image, verify | EPCS controller |
| Edits gate (modes g, G, c) | `patches/neorv32_rot/0042`, `0044` | SDRAM copy of `edits.bin` | check, load LUT, read back, compute | SD, TPU |
| Fabric surgery (mode H) | `patches/neorv32_rot/0046`, `0048` | bitstream in SDRAM, flash slots | check, XOR, repair CRC, write slot 1, verify | SD, EPCS |
| LUT codec, frame CRC | `patches/neorv32_rot/0003`, `0049` | none | bit mapping, XOR, CRC-16 | fabric surgery |
| Orchestrator | `Makefile` | marker files, two git heads | apply, unapply, build chain | sibling repositories |

What is hard, and what has to hold:

* **SDRAM.** The controller, its refresh timer, the chip and the bus master run
  in parallel on one clock. The controller infers the chip's state from its own
  registers and counters. Properties: no illegal command, registers that agree
  with the chip, one driver on DQ, no refresh lost, no answer after its timeout,
  and memory semantics. Resets can fall on any clock and the chip does not see
  them; the bus timeout is shorter than the power-up sequence, so requests may
  expire and come back as phantom transactions.
* **TPU.** The bridge presents every write twice; writes to a busy accelerator
  are acknowledged and dropped; nothing protects a running sum from a weight
  pulse. Properties: the pipeline computes W·x plus what was accumulated,
  nothing is lost under the firmware's polling discipline, polling ends.
* **Classifier.** Properties: the printed class is the first maximum of this
  file's scores whatever ran before, and only weights that passed the gate are
  in the array.
* **XMODEM.** Lost and late bytes, lost replies, repeated blocks, a sender that
  quits, a block number that wraps. Properties: as long as no block came in pieces
  memory holds a prefix of the image and the sender is never taken past an unstored
  block; the loader notices a sender that left; an undisturbed load succeeds.
* **SD card.** A card may be slow, silent, busy without end, and pulled out, exchanged
  or reset at any step, within a block too. Properties: the driver is a store of
  blocks for its callers whatever card is in, a card that changes during a call
  spoils only what that call is about, calls return.
* **Loader and host.** Receive loops without timeouts on one side, a host that
  gives up on the other; a card that fails in the middle of an update; power
  loss. Properties: what was acknowledged is on the card, what is booted is one
  whole version, the loader is left only where the host asks for it, no session hangs.
* **Staging in the flash.** One-clock pulses that find the controller in the
  right state or are lost, a sticky data-valid flag, a poll of a chip that may be
  busy, faulty cells, power loss between erase and program, repeated runs.
  Properties: what is reported staged is staged, slot 0 boots at any moment, no
  pulse is lost, every run ends.

The full list of hazards, each at its line, is in `PROJECT.json`.

## 2. Modules and plan

```
SdramChip  <- SdramCtrl <- SdramSystem <- MCSdram
                             |  instance: AtomicMemory
                             +- SdramProofs
TpuTypes   <- TpuAccel <- TpuBus <- TpuSystem <- MCTpu
           |                |        instance: AtomicTpu
           |                +------- TpuClassifier <- MCTpuClassifier
           |                +- TpuBusProofs <- TpuSystemProofs, TpuClassifierProofs
           +- AtomicTpu
Xmodem     <- MCXmodem
           +- XmodemProofs
SdCard     <- SdDriver <- MCSdDriver
                 |  instance: BlockDevice
                 +- SdDriverProofs
                 v  (its promise is what Stage2 calls)
Stage2     <- Stage2Protocol <- MCStage2
                    +- Stage2Proofs
EpcsSpi    <- Epcs <- MCEpcs
               +- EpcsProofs
```

The parts meet at abstractions that the lower part is shown to keep. `Stage2`
calls an SD driver with the outcomes of `BlockDevice`, which `SdDriver`
implements; it counts an XMODEM transfer as one item, received whole or failed,
whose inside is `Xmodem`. `Epcs` runs on the controller of `EpcsSpi` itself, as
its hazards are in the coupling of the two.

Done, in this order: the SDRAM path, the TPU and its two clients, XMODEM, the SD
driver, the loader's dispatcher and modes, the flash controller with its firmware
and modes t and H: all modelled and checked. Proved: types, safety, timing and
refinement of the SDRAM path; types, safety and refinement of the TPU and
of the SD driver; the classifier; types and safety of the staging; types and safety
of the loader, what it boots included; the types of XMODEM, and its safety as long as the
line is undisturbed.

Left: XMODEM's safety between the first fault of the line and the first block that comes in pieces (section 9).

## 3. The SDRAM path

`SdramChip` is the memory chip, external: the rules of the commands it takes
(`LegalCommand`, `Spacing`), its open rows, its read pipeline and its
cells. It models what `sdram_ctrl.v` uses: CAS latency 3 behind the inverted clock,
bursts of one, the minimum distances that the controller's localparams stand
for (there is none for tRAS). A column counts 32-bit words, as the controller's two READs or WRITEs
take the two 16-bit halves of one.

`SdramCtrl` has one operator per state of the FSM or per group of states that
differ only in a constant: the wait states share `InWait`, `Limit` and
`Successor`; `Idle` is the dispatcher with its five branches; `RefreshTimer` is
the second process. `CtrlStep` is both on one clock. Registers keep the names of
the source. `lat` is the latched request (`addr_lat`, `wdata_lat`, `wstrb_lat`).

`SdramSystem` adds the bridge (`Bridge`), the bus master (external: it asks,
waits, finishes or gives up after `XBUS_TIMEOUT` clocks) and the reset, and
holds the properties. `Tick` is one clock of everything; `Reset` may fall
between any two clocks, leaves the chip alone and resets every register that
the source resets.

`AtomicMemory` is the abstract specification: requests and answers, a memory
that a write changes at one instant, a reset that spoils at most the word under
write. `Refinement` maps the detailed state to it.

**Runs.** `sdram`: two banks, two rows, one column, two byte values, five
requests (two writes, one of them of two lanes in different halves) from a
master that waits for the power-up to end. 1.2 million states. `sdram_early`: a master
that may ask during the power-up, which is longer than its timeout, as in the
source (10000 against 4096 clocks); it can expire, so phantom transactions run.
One byte value is enough as only timing matters.

**Bounds.** TRP = TRCD = TWR = TMRD = 2, TRC = 4. The source has TRP = TRCD = 1,
but then the distance is over by the next clock and no slip could break it;
with 2 the wait states count and the rules bite. The source's own values are
among those the proofs cover. `REF_INTERVAL` = 26
is one clock over the longest time the controller can take before it serves a
refresh with these timings, so requests and refreshes meet in every phase.
`XBUS_TIMEOUT` = 38 is the longest answer. `INIT_CYCLES` = 4 or 40 is on either
side of it.

**Proofs** (`SdramProofs`). For every
geometry, every set of requests and every timing that the assumptions admit, resets
included; `MemoryIsAtomic` for a master that waits for the power-up (`EarlyAccess = FALSE`), the
others for one that does not too:

| Theorem | States |
|---|---|
| `TypeCorrect` | `TypeOK`: no register leaves its range |
| `InvCorrect` | the inductive invariant `Inv` |
| `BusIsLegal` | `BusLegal` |
| `RowsTracked` | `RowTracking` |
| `DqOwned` | `DqOwnership` |
| `RefreshInTime` | `RefreshDelay` |
| `AnswerCorrect` | the inductive invariant `AnswerInv` |
| `NeverLate` | `NoLateTimeout` (an action property) |
| `MemoryIsAtomic` | `Refinement` |

Assumed of the timing: each wait fits the 3-bit counter; the refresh interval exceeds
`MaxRefreshDelay` and, so that no third refresh falls due behind two, TRP + 2 TRC + 4 clocks
(in the source 380 against 21 and 13); the bus timeout is at least `MaxAnswerDelay` (4096
against 34). The formula of `MaxAnswerDelay` is the one proved from; the run's timeout of 38
equals it for the run's timings.

None of the four safety properties is inductive. `Inv` adds to the types: which command may
be on the bus in which state (`BusInv`); how far the power-up has come
(`StartInv`); for each paced command, that the spacing which the chip still
demands is no more than the wait state that follows still has to go (`HoldInv`), and that
nothing is left of it in the states that do not wait (`CalmInv`); that read data is in flight
only in the read states (`PipeInv`); that the longest path back to `S_IDLE`
from here fits in what is left of `MaxRefreshDelay` (`DelayInv`); and that the
row registers describe the chip (`RowInv`). The proof goes by state-graph edges
(`Edge`, `EdgeStep`) rather than by actions, with one lemma for each part.

`NeverLate` needs the time to the answer as a function of the state (`Remaining`): the way of
`Left` to the answer while the FSM works on an access, and from a refresh the way back to `S_IDLE`,
one more refresh if it will find one due there (`Again`), and the longest access with no row open.
A clock without an answer brings it nearer by one at least (`RemainingStep`), and what a request has
waited plus what remains never exceeds `MaxAnswerDelay` (`TimeInv`). The step out of `S_IDLE` into
a refresh is where it could fail: were the next one to fall due before that one ends, the request
would wait for a third. `AgainInv` excludes it: while a request is on the bus, a due refresh is
found in `S_IDLE` no more than TRC clocks after it was raised. A request made early may expire;
the bound holds for every later one, whatever phantom access the controller is still at.

`MemoryIsAtomic` adds whose access the FSM is at (`OwnInv`: the latched request is the one on the
bus, as no request of a waiting master expires, by `NeverLate`) and where its two halves are in each
state (`PathInv`: on the command bus, in each stage of the pipeline, in `data_lo`, in `rdata`, on
DQ). Each step is then a step of `AtomicMemory` or a stutter: the answer of a read
(`AnswerStep`) or of a request outside the window (`ElsewhereStep`), and the registering of the
second WRITE (`WorkingStep`), are its `Perform`; a reset is its `Reset`, which may leave the
word under write with its first half stored. For a master that does not wait it is false (TLC
finds it so): the controller still performs a write whose early request has expired.

## 4. The TPU

`TpuAccel` is the accelerator clock by clock. `TpuStep` is the conjunction of
its processes: the array, the compute counter with the accumulators, the
loaders with the bus writes, the LUT memory, `ready`. Two registers are grouped
in records: `w_addr` (row, column) and `sa_w` (row, column, data). Bus words are
four bytes. The array is N by N, with the source's constants derived from N.

`TpuBus` adds the bridge and the CPU's bus lines. Its `pending` is the
accelerator's `sel` and lasts two clocks, so each write is executed twice; the
model keeps that.

`TpuSystem` adds firmware that may make any access at any time except that after a
start or a load it reads only STATUS until it sees the end. Both programs in
the repository do (`cmd_tpu`; `mode_compute` in `patches/neorv32_rot/0044`). Without that
discipline the accelerator drops writes, by design of its write gate.
`AtomicTpu` is the abstract specification: a matrix, a vector, sums and a LUT,
each write at one instant, and a busy period before `done`.

`TpuClassifier` is `cmd_tpu` access by access, over `TpuBus`: open and gate,
clear, sixteen weights, input, start, bounded poll, argmax. A file is a record:
whether it is whole, whether its hash matches (collisions of the hash are out of scope),
its weights and its input.

**Runs.** `tpu`: N = 4, values from {-1, 0, 1}, 2-bit accumulators so that
repeated computations overflow, a 16-entry LUT. The four products of a full row cancel out and three
of them do not, so that a product on the wrong clock shows while the sums grow
only by the weight that a load brings: the rows stay apart without multiplying the states.
A single weight (`W_DATA`) is written by the other client, in `tpu_classifier`: N = 4, the golden model and query of
`docs/analysis/linux_tpu/host_reference.py`, a query whose two best scores tie, a refused file
and a short one; poll limit 4 (2,000,000 in the source: a computation ends
within three polls).

**Bounds.** The loaders and the counter are cyclic, so a few accesses reach every
combination; N, and with it the length of a computation, a row write and a load, is the source's.

**Fairness.** WF on `Tick`: the clock runs. WF on the poll (`Poll`, `Access`):
the CPU executes its loop; both loops spin without doing anything else. A reset
is never forced nor forbidden: it ends a poll too.

**Proofs.** For two to four rows, every even modulus of the sums, every set of bytes, LUT
and set of requests or files. `TpuBusProofs` holds what both clients share: an invariant of
bridge and accelerator, kept by every clock on which the CPU keeps to the
discipline (`Discipline`: one access after the other, only reads of a busy
accelerator, no write that both starts a computation and a load).

| Module | Theorem | States |
|---|---|---|
| `TpuSystemProofs` | `InvCorrect` | the inductive invariant `SysInv` |
| | `TypeCorrect` | `TypeOK` |
| | `AlwaysTaken` | `NothingLost` |
| | `AlwaysQuiet` | `QuietArray` |
| | `ArrayIsAtomic` | `Refinement`: `TpuSystem` implements `AtomicTpu` |
| `TpuClassifierProofs` | `InvCorrect` | the inductive invariant `ClassInv` |
| | `AlwaysRight` | `PredictionRight` |
| | `AlwaysTrusted` | `OnlyTrusted` |
| | `NeverTimesOut` | `NoTimeout` |

`BusInv` is the control: an access is in one of five phases (`Handshake`), which
fixes `sel`, `ready` and the acknowledgement; a row write lives exactly from its
access's last clock of `sel` to the clock after the acknowledgement (`RowInv`); a computation and a
load exclude each other and every write (`QuietInv`). `NothingLost` and
`QuietArray` follow, but neither is inductive: whether a write finds the loaders
at rest is decided clocks before, when it is asked. `DataInv` is the data: on clock c of a computation the elements of
one anti-diagonal hold x and the partial sum of their row, and all others zero
(`ArrayInv`); the second execution of a write finds its effect in place
(`WrittenInv`); the loader's entry is on the LUT port (`PortInv`). From `ArrayInv`, `PromiseKept`
shows that the sum that row r will hold is settled at the start, modulo the
width, which is what the refinement maps to (`FinalSums`). `PollInv` ties the
firmware's wait to the work under way, `ReadInv` a LUT read to its entry.

`ClassInv` adds, for each point of `cmd_tpu`: which access it makes and what may run meanwhile
(`ProgInv`); that the weights whose pulses are out are those of this file, and
what each row still promises, zero or its score (`ModelInv`); that the best row so
far is the first maximum so far (`BestInv`); how far the computation is on each phase of the first two
STATUS reads (`TimeInv`); and where weights come from (`TrustInv`), which no reset or refusal disturbs.

Assumed: the requests of `TpuSystem` hold no CTRL write with both start and load (`SystemAssumption`:
the accelerator would then change weights under the sum, `tpu_accel.v:260`;
neither firmware makes it). `PollLimit` is at least two in `ClassifierAssumption`, as the proof
shows to be enough; the source has 2,000,000.

## 5. XMODEM

`Xmodem` has one action per byte that `xmodem_receive` reads, or per timeout,
and the verdict of its two callers (`uboot` tells them apart). Text that the
loader prints is left out. The host is external: a plain sender that reacts to
each reply in turn, sends EOT, judges the image by the printed CRC and may quit
at any time. A timeout strikes by itself only when nothing is on its way; while
bytes are, or while the host owes its verdict, it costs one of `Stalls`.
Losing a byte, a reply or the printed CRC costs one of `Losses`. Data are 3-bit
bytes, so that the block number wraps within nine blocks; five of the eight values
are control codes, and the payload's data and sums take all eight.

`cut` is a history variable: a timeout has struck within a block, or a byte to the
loader was lost. From then on the code promises nothing about what it stores. It
does not empty the line after a timeout, so the rest of the block is read as
the starts of blocks: a data byte with the value of EOT ends the transfer, one with that of CAN gives it up,
one with that of SOH begins a block that nobody sent; the byte after the EOT passes for the verdict, and
in U-Boot mode a NAK there starts the transfer over, while the host repeats its last block
as if it had been asked to. `StoredInOrder` and `AckedStored` therefore hold up to the first cut and
not beyond it, with one late byte as with any other fault. The last block of the
payload holds EOT and NAK in a row, so the run meets these cases; what there is
after a cut is the printed CRC, and `xmodem_verdict` shows that it can be passed over too.

**Runs.** `xmodem`: nine blocks of two bytes, one loss, two stalls, retry limit
two, both callers. `xmodem_verdict` expects a violation (section 10).

**Bounds.** One loss and two stalls give every single fault and its retry, and a
late block, verdict or byte on top. Before a cut two stalls suffice to have two
copies of a block on the line.

**Fairness.** WF on the loader (it polls its UART) and on the host's replies.
Nothing obliges the line to lose, or the host to quit. There is no claim that a
transfer ends: after a lost ACK the sender's repeat is refused without end
(`main.c:182-186` never looks at the retry limit), which `LoadEnds` leaves to
the sender's patience. `CHECK_DEADLOCK FALSE` because a load ends.

**Proofs** (`XmodemProofs`), for every byte width, set of five distinct codes, payload of equal blocks, retry limit,
budget and both callers:

| Theorem | States |
|---|---|
| `XmodemTypeCorrect` | `TypeOK`, on any line |
| `CleanStoredInOrder` | `StoredInOrder`, as long as `Clean`: nothing lost and no early timeout so far |
| `CleanAckedStored` | `AckedStored`, as long as `Clean` |
| `CleanAcceptedWhole` | `AcceptedWhole`, as long as `Clean` |

`TypeOK` becomes inductive with `Partial`: a block that is being read has room left, and one whose sum is due is full.
The other three follow from `InStep`, which includes that nothing is cut on a clean line. There, `LineOK` says that what is left on it is the rest of the frame of
the first block that is not stored (`Receiving`: byte by byte, with what the loader has of it), a lone EOT or ACK, or nothing;
`HostOK` that host and loader take turns; `Stored` that memory holds the first blocks of the payload
and that `blk_num` is their number after any count of wraps (`NextNumber`). The host may
quit at any byte, and the timeouts that follow are its silence and no fault of the line: they are part of the theorems. That the sum
of a block is a byte (`ChecksumByte`) is what keeps a full block from passing for a timeout; it is proved through the existence
of the sums (`SumExists`), by a least counterexample, as induction theorems are out of the prover's reach.
`CleanAcceptedWhole` complements the disagreement of section 10: a byte other than ACK accepts a wrong image only after a fault of the line.

## 6. The SD driver

`SdCard` is the card, external: the kinds that `sd_init` tells apart (version 1,
byte-addressed, HC), the answers each gives to each command in each mode, and
when an address means a block to it. `SdDriver` has one action per command frame
(`Send`), per byte polled (`PollR1`, `FindToken`, `PollToken`, `PollBusy`) and per block of
data (`ReadBlock`, `WriteBlock`). Each way out of a call, and each command of `sd_init`
that ends with one, has its own `Release` of the card's select. `fast` is the SPI
clock, `sd_is_hc` the static that outlives a call. A
byte is one of the few values that the code compares it with. The data CRC, which
the driver discards or fakes, and the answer to CMD58, which is the kind of the card,
are read as sound: damage on the wires is not a fault of this model.

The card may be pulled out, exchanged or reset at every step of a call: between the
token of a block and its last byte, where the driver fills the rest with 0xFF and returns 0
(`ReadBlock` then returns `Garbled`), and while it programs, where the driver takes the
released line for the end of busy and returns 0 too, whether the block became the new one, stayed the old one or is neither.

`BlockDevice` is the abstract specification: a call succeeds or fails, a read
that succeeds returns what the block holds, a write that fails may land later.
That is exact for calls during which the card stays in (`steady`). A change of the card during a call leaves
in doubt what that call reads, or the block it writes: it may succeed and be wrong.
No other block changes, and the calls that follow fail until an `sd_init` has succeeded, and are exact again.
`Refinement` says that a driver over any card keeps it. `Stage2` (section 7) is about cards that stay in:
its faults are calls that fail and power cuts that stop the loader as well.

**Run.** `sd_driver`: three blocks of two contents, two bytes to a block, so that
a block number and a byte address can be mistaken for each other; one exchange,
removal or reset of the card at any step.

**Bounds.** The polling limits are 2 where the source has 16, 65536 and 2000: with
two, an answer comes at once, late, or never, and there is no fourth case, since
a round of polling changes nothing but its counter. `W` = 8 is above every byte
address, as 2^32 is for the cards that are byte-addressed.

**Fairness.** WF on the driver's own steps: the core executes its loops. The card
owes nothing, not even the end of a programming. `CHECK_DEADLOCK FALSE` because
callers stop after a failed call, and may call `sd_init` again or not.

**Proofs** (`SdDriverProofs`), for any number and size of blocks, any polling limits and
any number of exchanges. Assumed of the sizes: the byte addresses of the card fit the argument of
a command (`DriverAssumption`; the wrap at `sd.c:147` is a listed hazard).

| Theorem | States |
|---|---|
| `InvCorrect` | the inductive invariant `Inv` |
| `TypeCorrect` | `TypeOK` |
| `DriverIsStore` | `Refinement`: `SdDriver` implements `BlockDevice`, exchanges at any step included |

The argument is that of the code's silent assumptions. A call finds the card as an
earlier one left it, so `Inv` says when it may still program (`ProgramInv`: for
the write under way, or after a failed write until the CMD0 of the next `sd_init`), which
block it is at (`BlockInv`), and, command by command through `sd_init`, that a
card that reaches the ready state is of the kind that `sd_is_hc` says
(`KindInv`): a mistaken kind would send a block number as a byte address.

## 7. The loader and its host

`Stage2` is `main`, from the memory test to the hand-over, with every mode.
`at` is what the code waits for or calls next and `mode` the mode byte taken;
`job` holds the locals of the mode that a later step uses. An action is one item
read from the line or one call of the driver: `MultiCount`, `SegLba`,
`SegCount` and `Block` are the loops of `sd_write_multi`, `Boot` the three reads of the
SD boot, `PatchedDtb` the patch of the sentinel in the device tree. `mem` is what
has been loaded, by blocks; a block of version v is `<<v, lba>>`, so a mixture
of versions, or a block missing at an end, shows.

The host is external: a session is a script of items to send and messages to
hear, as the protocol comments of the modes give it. It gives up at any other
message. What is said at another rate than the receiver's is lost.

**Runs.** `stage2`: sessions in every mode (updates of both versions, a wipe of the
header, a segment count of zero and a sector count beyond `MAX_SECS`, dumps in
and out of range, complete and incomplete Linux transfers, both rates allowed
and refused, with one probe and with two), two of them in a row, two failures of a card or a transfer and one
power cut at any step. `LeavesAsAsked` says that nothing meant for a mode ever reaches the dispatcher, apart from a
probe that comes too late; `BootsWhole` exempts an update that was cut short, whose mixture the code does
boot. `stage2_wtest` and `stage2_probe` expect a violation (section 10).

**Bounds.** Two sessions give every pair of modes, so an update over an update and
every mode before a boot. Two failures are a failed write and a failure of what
follows it. The two versions differ in
the sizes of their parts, with last blocks that are full and not, so that the
parts of one overlap other parts of the other. `TEST_LBA` is behind the blob in
`stage2` and inside the kernel in `stage2_wtest`.

**Fairness.** WF on the loader (no other task runs on its core) and on the host
within a session. A host that
is gone for good is a power cut's affair: nothing obliges one to come.
`CHECK_DEADLOCK FALSE` because a boot ends the loader.

`Stage2Protocol` says what a host keeps to, for every session and not only those of the
run: the protocol comments as phases (`After`), one for what the loader waits for, or has still to answer,
after each step of a script. `ProtocolAssumption`: each session begins at the prompt, never leaves
the protocol (a number where a number is due, each block to its place, a hearing of the message that the
mode gives), and ends where nothing that the loader owes is on its way (`Settled`). The probes of mode B may be repeated until `BAUD_OK` (phase `probing`), as its comment has it. An update waits for `MW_DONE` only if
it has written a whole version or wiped the header; the payloads of mode l are the three
parts of one version, or hold a device tree without a sentinel. All sessions of the run are of this
kind: TLC evaluates the assumption.

**Proofs** (`Stage2Proofs`), for every set of such sessions, any number of
them, of faults and of power failures, and any number of blocks, rates, limits and versions:

| Theorem | States |
|---|---|
| `Stage2Invariant` | the inductive invariant `IInv` |
| `Stage2TypeCorrect` | `TypeOK` |
| `AcknowledgedOnCard` | `AckedOnCard` |
| `LeavesAsAskedHolds` | `LeavesAsAsked` |
| `BootsWholeHolds` | `BootsWhole`, if the block of the write test is part of no blob |

Not even `TypeOK` is inductive: what is a byte to write for one mode is a mode byte for the next,
so the loader's state is in range only while loader and host agree on where they are. `Aligned` is that
agreement. Either the loader boots, or is told to (`Booting`), and says nothing any more; or the host
is gone and the line empty; or the host is in some phase, and the loader within a few
items of it (`InSession`: for each phase, the labels where the loader may be, what it has still to take and what
the host has still to hear); or the host probes (`Probing`: any number of probes on the line, one answered, and perhaps one
taken for a mode byte). A second probe leaves the loader `Astray`, which is one of the ways of booting. A failure is one of these places, since a loader that has said so
is back at its prompt with an empty line: the protocols send nothing ahead of an answer but what is taken in any case.
`CardOK` adds that a write which is still to land is never for a block that the host takes to be written: `sd_init`
refuses a card that still programs, so no mode that writes gets past it meanwhile.

`BootsWhole` needs more on both of its paths (`BootInv`). For the SD boot, `CardSound`: unless an update is
under way, a header on the card is that of a version which is there, block by block. The update itself
is followed by `Updating`: what its session has sent so far is acknowledged, hence on the card when `MW_DONE` is heard
(`CompleteIsSound`); the one write outside of an update is the test's, hence the theorem's
hypothesis, which `stage2_wtest` shows to be needed. For mode l, `LinuxOK`: of the payloads of the session that
began with its mode byte, the first d are in memory and the others on the line in order,
with nothing between them (`Feeds`, `Held`), whatever other session the host begins behind them.
The arithmetic of the load (`PartsLoaded`, `PartsAreWhole`) then shows three parts that do not touch, the last
block of each included, and the device tree patched in its first block alone.

Assumed of the parameters (`ParameterAssumption`, `LayoutAssumption`): the counts and rates are numbers, mode B
would accept the rate at power-on, the card holds version 1 from the start, and the parts of each version
lie on the card and fit between the load addresses, with a block to spare behind the kernel for the code that `mode_linux` writes
there. The loader checks none of that (a listed hazard, `main.c:422`).

The comment of mode B has the host send `P` until it hears `BAUD_OK`. `mode_set_baud` takes one of them; the next is
a mode byte to `main`, and an unknown one, so the U-Boot transfer starts and never returns. `NeverGivesUp`, the promise of
the comment at `main.c:592`, is therefore false for the very hosts of the other comment (`stage2_probe`);
`LeavesAsAsked` is what remains of it, for any number of probes. `main` lists `d` with the modes that do not return (line 568), but
`sd_dump` returns to the loop; the model does what the code does.

## 8. Staging in the configuration flash

`EpcsSpi` is `wb_altasmi_parallel.v` after patches 0026 to 0030: the states of the
FSM, the operation it latched, the data-valid slot, the CTRL levels and the
one-clock pulses, which an FSM in another state does not see. A byte on the wire
is a step; the bits within it are not. The flash chip is external: a write-enable
latch, one operation at a time, erase to ones, program by AND within a page,
anything else ignored while busy.

`Epcs` is `epcs.c` after patches 0031 to 0033, one action per register access, and
what modes t and H do with it. `Surgery` is the edit of mode H: reverse the bits
of each byte, flip, repair the frame's CRC, reverse back. The operator starts a
mode, may cut the power at any step and promotes a staged edit to slot 0. Mode t
and every run that fails end in a halt, so that only a power cycle leads to another run;
mode H, once its image is staged, goes back to the prompt, and the next run meets the
controller and the chip as that one left them (`Prompted`). Where the code halts over a chip
that is still busy, the chip goes on by itself until the power goes. Loading
the FPGA again over JTAG while it does so is not modelled: the upload of stage2
(15 to 20 s, `main.c:592-594`) outlasts the longest operation of the chip (3 s, `epcs.h`).

**Runs.** `epcs`: two runs of either mode from a blank and from a used slot 1, with or (after
mode H) without a power cycle between them, one faulty cell, power cuts at any step. `epcs_stale` expects a violation
(section 10).

**Bounds.** Four sectors of two pages of two bytes; an image of five bytes, so its
last page and its last sector are not full; two bits to a byte, so that a
reversal is not the identity. `VERIFY` = 1 is short of a page, as 4 is of 256.
The page is small because the pacing is the same for every byte after the first.
`WIP_LIMIT` = 3: the chip may be ready at the first poll, later or not in time.

**Fairness.** WF on the firmware and on the controller's FSM. The chip may stay
busy for ever: the bound of the poll ends the run. `CHECK_DEADLOCK FALSE` because
the runs are counted.

**Proofs** (`EpcsProofs`), for every geometry, image, edit, layout of frames, poll
limit and number of runs and faulty cells:

| Theorem | States |
|---|---|
| `InvCorrect` | the inductive invariant `Inv` |
| `TypeCorrect` | `TypeOK` |
| `AlwaysBootable` | `Bootable` |
| `AlwaysStagedRight` | `StagedRight` |
| `AlwaysTaken` | `PulsesTaken` (an action property) |

`ControlInv` gives, for each register access of the firmware, the states in which the FSM may
meet it: the pulses are taken because of it. `UnitInv` keeps page, sector and byte
counts within the image; from it `ChipInv`: no erase or program under way is below slot 1,
so slot 0 stays as it was. `RestInv` is the crux of `StagedRight`: after an *erase* a stale byte may end the poll
early (section 10), but `epcs_program_page` resets the slot, so once dv is up
again a byte without WIP comes from a chip at rest, and the bytes of every verification and readback are
those of the flash (`ReadInv`). `ImageInv` says that what is compared is the image asked for; `RevTwice`
and `SurgeryType` that mode H's edit, seen through the two reversals, is the flip and the new CRC.

Assumed: the image fits its slot, slot 1 starts on a sector, `VERIFY` bytes lie in one page of the image
(`StagingAssumption`; 4 of 256 in the source), and every flash that the runs start from has a slot 0
whose frames carry their CRCs (`SlotAssumption`: the board has booted from it).

The bounds of `wait_dv` and `wait_busy_clear` are not modelled: they are far above
what a clocked FSM needs, and `Returns` shows that the FSM always gets there.

## 9. What stays with TLC

* **Liveness** (`PollEnds`, `Returns`, `LoadEnds`, `Delivered`, `CallReturns`,
  `SessionEnds`) is out of the prover's reach, as everything with ENABLED is.
* **XMODEM between fault and cut.** `StoredInOrder` and `AckedStored` say nothing once a block has come in pieces, as
  they are false then (section 5). With late blocks, late verdicts and lost replies before that they are checked, and proved
  only up to the first fault of any kind.
* **Loader**: hosts outside `ProtocolAssumption`. For any sequence of items even `TypeOK` is false (a data item
  taken for a mode byte starts a transfer that nobody sends); what the loader does with such a
  host is not claimed.

The refinements and the safety properties of the other parts are both checked and proved.
No module uses a RECURSIVE operator; `Xmodem` sums a block with a recursive function, and `Stage2Protocol` uses folds of the community modules.

## 10. Disagreements found

* `xmodem_verdict`: `mode_uboot` prints "no CRC response, proceeding anyway" (`main.c:279`) when it
  proceeds on no ACK, and the comment at `main.c:222` on the other verdict says "ACK or no response: proceed". Any byte
  but NAK proceeds, in both. After a stall inside a block the remaining bytes are read as
  block starts; a data byte with the value of EOT ends the transfer and the next
  leftover byte passes for the verdict, so a truncated image is accepted.
* `stage2_wtest`: `sd.c:300` calls block 2048 a "safe offset, 1 MB in". The blob
  that the repository installs has its kernel from block 1 up to block 4000
  (`docs/analysis/linux_tpu/EPCS_PERSIST_RUNBOOK.md:98-99`). The write test puts
  a pattern into that kernel and the next SD boot runs it.
* `stage2_probe`: the comments of `mode_set_baud` ("Host sends 'P' until it sees BAUD_OK", `main.c:329`) and of the
  loop of `main` ("Persistent stage2: never give up on the host", `main.c:592`) cannot both hold: the
  loader takes one probe (`main.c:331`) and a second one on the line starts `mode_uboot` (`main.c:588`), which ends in a
  jump or a halt.
* `epcs_stale`: `epcs_fast_read` leaves a byte in the data-valid slot, and
  `epcs_erase_sector`, unlike `epcs_program_page` since patch 0032, gives no
  reset. Its first status poll takes that byte: when bit 0 is clear, the poll ends
  with the erase under way, where `epcs.h` says that it polls "until clear". What
  follows is ignored by the busy chip; `StagedRight` shows that the readback
  notices, so the staging fails and reports nothing false.

## 11. Not modelled

* The CPU and its UART and SPI peripherals (submodule, not in the tree), pins and
  generics; timing closure and metastability are outside a clock-by-clock model.
* The gates of modes t and H (SHA-256, the header and bounds of `edits.bin`) and
  the modes g, G and c: chains of checks on data from the card, each of which
  halts, with no state between runs. A run refused there changes nothing in the
  flash. The TPU registers they write are in `TpuAccel`.
* The LUT codec and the frame CRC-16: bijections given by tables of bit positions;
  small tables in their place would show nothing of the real ones.
* `dump_words` and the CRC that the loader prints: output only. The other commands
  of the Linux shell keep no state.
* The orchestrator Makefile (build glue around `git am`), the one-shot Python
  analyses of bitstreams, the generated ROM image; the arithmetic of hashes and
  CRCs (a file matches or does not).
* Hazards that are listed without a property have a note in `PROJECT.json` that says
  why: mostly they need a host, or files, that the repository's code does not fix.
