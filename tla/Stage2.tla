------------------------------- MODULE Stage2 -------------------------------
(***************************************************************************)
(* The dispatcher of stage2 (sw/stage2_loader/main.c) with the modes that  *)
(* it calls: the SD modes R, W, w, s and d (sd.c), the baud switch B, the  *)
(* SD boot b, and the serial boots l and u, whose transfers are Xmodem's   *)
(* and count here as one item each.  One action per item that the loader   *)
(* reads from the serial line or call of the SD driver; a call is one step *)
(* with the outcomes that BlockDevice allows.                              *)
(*                                                                         *)
(* The host is external.  It runs one session at a time: a script of items *)
(* that it sends and messages that it waits for, as the protocol comments  *)
(* of the modes describe them, given up at any other message.  An item is  *)
(* a mode byte, a number of four bytes, a block, a probe or a payload.  A  *)
(* host that stops in the middle of a session stays away until the power   *)
(* has been off.                                                           *)
(*                                                                         *)
(* Version v of the boot blob has the block <<v, lba>> at each lba.        *)
(***************************************************************************)
EXTENDS Integers, SequencesExt

CONSTANTS
    Layout,             \* each version's header: sizes in bytes, first blocks
    NumBlocks, TEST_LBA,
    BLOCK,              \* bytes in a block (512)
    KERNEL, DTB, INITRD, MEM_END,       \* load addresses, in blocks
    MAX_SEGS, MAX_SECS, MAX_DUMP,       \* 16, 8192, 4096
    DEFAULT_BAUD, MIN_BAUD, MAX_BAUD,
    Scripts,            \* the sessions that a host may run
    FAULTS,             \* how many calls of the SD driver, or transfers, fail
    SESSIONS,           \* how many sessions the host runs
    CYCLES              \* how often the power fails

Versions == DOMAIN Layout
Lbas == 0 .. NumBlocks - 1
Empty == <<>>
Code == <<"code">>
Patched(b, end) == <<"patched", b, end>>
\* Slip: a last block that is not full is forgotten.
BlocksDown(bytes) == bytes \div BLOCK
Blocks(bytes) == (bytes + BLOCK - 1) \div BLOCK
HasMagic(b) == \E v \in Versions : b = <<v, 0>>
HeaderOf(b) == Layout[CHOOSE v \in Versions : b = <<v, 0>>]
HasSentinel(b) == \E v \in Versions : b = <<v, Layout[v].dtb_lba>>

ASSUME Stage2Assumption ==
    /\ 0 <= KERNEL /\ KERNEL < DTB /\ DTB < INITRD /\ INITRD < MEM_END
    /\ TEST_LBA \in Lbas /\ {FAULTS, SESSIONS, CYCLES} \subseteq Nat

VARIABLES
    at, mode,           \* what the loader does next, and the mode it is in
    job,                \* the locals of the mode
    baud, mem,          \* its UART's rate, and what it has loaded
    disk, loose,        \* the card, as in BlockDevice
    script, hbaud,      \* the rest of the host's session, and its rate
    rx, tx,             \* items on their way to the loader, messages to the host
    acked,              \* the writes that the host has been told are done
    torn,               \* an update was begun and not finished
    faults, sessions, cycles

loaderVars == <<at, mode, job, baud, mem>>
cardVars == <<disk, loose>>
hostVars == <<script, hbaud, acked, torn, sessions>>
vars == <<loaderVars, cardVars, hostVars, rx, tx, faults, cycles>>

NoJob == [segs |-> 0, lba |-> 0, left |-> 0, kernel_size |-> 0, dtb_size |-> 0]
NoMem == [a \in KERNEL .. MEM_END - 1 |-> Empty]
Terminal == {"b", "l", "u"}
Final == {"halt", "kernel", "uboot"}
-----------------------------------------------------------------------------
(***************************************************************************)
(* The serial line.  What is said at another rate than the receiver's is   *)
(* lost.                                                                   *)
(***************************************************************************)
Is(m) == [is |-> m, val |-> Empty]
DataIs(b) == [is |-> "data", val |-> b]

Say(messages) == tx' = IF baud = hbaud THEN tx \o messages ELSE tx
Silent == UNCHANGED tx
Deaf == UNCHANGED rx
Take == rx # <<>> /\ rx' = Tail(rx)
Item == Head(rx).val

\* A mode waits for its next item or call, goes back to the dispatcher, or
\* stops for good.
On(label) == at' = label /\ UNCHANGED <<mode, job, baud, mem>>
OnWith(label, j) == at' = label /\ job' = j /\ UNCHANGED <<mode, baud, mem>>
Back == at' = "cmd" /\ job' = NoJob /\ UNCHANGED <<mode, baud, mem>>
Halt == at' = "halt" /\ UNCHANGED <<mode, job, baud, mem>>

(***************************************************************************)
(* The SD driver's calls.  A card that still programs does not come up.    *)
(***************************************************************************)
Good == UNCHANGED faults
Bad == faults < FAULTS /\ faults' = faults + 1

InitOk == loose = {} /\ Good /\ UNCHANGED cardVars
InitFails == (Bad \/ (loose # {} /\ Good)) /\ UNCHANGED cardVars
ReadOk == Good /\ UNCHANGED cardVars
ReadFails == Bad /\ UNCHANGED cardVars
WriteOk(lba, b) == disk' = [disk EXCEPT ![lba] = b] /\ Good /\ UNCHANGED loose
WriteFails(lba, b) == Bad /\ UNCHANGED disk /\ loose' \in {loose, {<<lba, b>>}}
NoCall == Good /\ UNCHANGED cardVars

\* A mode that starts with sd_init.
Opens(label, next, greeting, failure) ==
    /\ at = label /\ Deaf
    /\ \/ InitOk /\ On(next) /\ Say(greeting)
       \/ InitFails /\ Back /\ Say(failure)
-----------------------------------------------------------------------------
(***************************************************************************)
(* main: the SDRAM test, three seconds for the first mode byte, then the   *)
(* loop.  Without a first byte the loader boots from the card; after a     *)
(* mode that returns it waits without end.                                 *)
(***************************************************************************)
Start ==
    /\ at = "start" /\ Deaf /\ UNCHANGED cardVars
    /\ \/ Good /\ On("first") /\ Silent
       \/ Bad /\ Halt /\ Silent

Entry(m) ==
    CASE m = "l" -> "kernelLoad" [] m = "b" -> "bootInit"  [] m = "d" -> "dumpLba"
      [] m = "s" -> "smokeInit"  [] m = "w" -> "testInit"  [] m = "W" -> "multiInit"
      [] m = "R" -> "readInit"   [] m = "B" -> "baud"      [] OTHER   -> "ubootLoad"

Dispatch(m) == at' = Entry(m) /\ mode' = m /\ UNCHANGED <<job, baud, mem>>

\* Whatever is no mode byte, a probe or a byte of a number, starts mode_uboot.
Command ==
    /\ \/ /\ at \in {"first", "cmd"} /\ Take
          /\ Dispatch(IF Head(rx).is = "mode" THEN Item ELSE Head(rx).is)
       \/ /\ at = "first" /\ rx = <<>> /\ Deaf
          /\ at' = Entry("b") /\ mode' = "timeout" /\ UNCHANGED <<job, baud, mem>>
    /\ NoCall /\ Silent
-----------------------------------------------------------------------------
(***************************************************************************)
(* sd_smoke and sd_read_header.                                            *)
(***************************************************************************)
Smoke ==
    \/ Opens("smokeInit", "smokeRead", <<>>, <<Is("smoke")>>)
    \/ /\ at = "smokeRead" /\ Deaf
       /\ Back /\ Say(<<Is("smoke")>>) /\ (ReadOk \/ ReadFails)

ReadHeader ==
    \/ Opens("readInit", "readHeader", <<>>, <<Is("fail")>>)
    \/ /\ at = "readHeader" /\ Deaf /\ Back
       /\ \/ ReadOk /\ Say(<<Is("RD_READY"), DataIs(disk[0]), Is("RD_DONE")>>)
          \/ ReadFails /\ Say(<<Is("fail")>>)

(***************************************************************************)
(* sd_dump: its two numbers are read before anything is checked.           *)
(***************************************************************************)
\* Slip: the card is initialized before the numbers are read.
DumpLbaLate ==
    /\ at = "dumpLba"
    /\ \/ Take /\ NoCall /\ Silent /\ OnWith("dumpCount", [job EXCEPT !.lba = Item])
       \/ Deaf /\ InitFails /\ Back /\ Say(<<Is("fail")>>)

DumpLba ==
    /\ at = "dumpLba" /\ Take /\ NoCall /\ Silent
    /\ OnWith("dumpCount", [job EXCEPT !.lba = Item])

DumpCount ==
    /\ at = "dumpCount" /\ Take /\ NoCall
    /\ \/ Item \in 1 .. MAX_DUMP /\ OnWith("dumpInit", [job EXCEPT !.left = Item]) /\ Silent
       \/ Item \notin 1 .. MAX_DUMP /\ Back /\ Say(<<Is("fail")>>)

\* A block beyond the card cannot be read.
DumpBlock ==
    /\ at = "dump" /\ Deaf
    /\ \/ /\ job.left > 0 /\ job.lba \in Lbas
          /\ ReadOk /\ Say(<<DataIs(disk[job.lba])>>)
          /\ OnWith("dump", [job EXCEPT !.lba = @ + 1, !.left = @ - 1])
       \/ /\ job.left > 0 /\ Back /\ Say(<<Is("fail")>>)
          /\ ReadFails \/ (job.lba \notin Lbas /\ NoCall)
       \/ job.left = 0 /\ NoCall /\ Back /\ Say(<<Is("DUMP_END")>>)

Dump == DumpLba \/ DumpCount \/ Opens("dumpInit", "dump", <<Is("DUMP_READY")>>, <<Is("fail")>>) \/ DumpBlock

(***************************************************************************)
(* sd_write_test: one block to TEST_LBA, read back and compared.           *)
(***************************************************************************)
WriteTest ==
    \/ Opens("testInit", "testData", <<Is("SEND_512")>>, <<Is("fail")>>)
    \/ /\ at = "testData" /\ Take
       /\ \/ WriteOk(TEST_LBA, Item) /\ On("testRead") /\ Silent
          \/ WriteFails(TEST_LBA, Item) /\ Back /\ Say(<<Is("fail")>>)
    \/ /\ at = "testRead" /\ Deaf /\ Back
       /\ \/ ReadOk /\ Say(<<Is("WRITE_OK")>>)          \* read back and equal
          \/ ReadFails /\ Say(<<Is("fail")>>)
-----------------------------------------------------------------------------
(***************************************************************************)
(* sd_write_multi: a count of segments; for each its first block, its      *)
(* length and its blocks, each acknowledged once it is on the card.        *)
(***************************************************************************)
MultiCount ==
    /\ at = "multiCount" /\ Take /\ NoCall
    /\ \/ Item \in 1 .. MAX_SEGS /\ OnWith("segLba", [job EXCEPT !.segs = Item]) /\ Say(<<Is("MW_GO")>>)
       \/ Item \notin 1 .. MAX_SEGS /\ Back /\ Say(<<Is("fail")>>)

SegLba ==
    /\ at = "segLba" /\ Take /\ NoCall /\ Silent
    /\ OnWith("segCount", [job EXCEPT !.lba = Item])

SegCount ==
    /\ at = "segCount" /\ Take /\ NoCall
    /\ \/ Item \in 1 .. MAX_SECS /\ OnWith("block", [job EXCEPT !.left = Item]) /\ Silent
       \/ Item \notin 1 .. MAX_SECS /\ Back /\ Say(<<Is("fail")>>)

\* Slip: the count is compared too late.
NextBlockLate ==
    IF job.left > 0 THEN
        /\ OnWith("block", [job EXCEPT !.lba = @ + 1, !.left = @ - 1])
        /\ Say(<<Is("K")>>)
    ELSE Back /\ Say(<<Is("K"), Is("MW_DONE")>>)

\* After a block: the next one, the next segment, or the end.
NextBlock ==
    IF job.left > 1 THEN
        /\ OnWith("block", [job EXCEPT !.lba = @ + 1, !.left = @ - 1])
        /\ Say(<<Is("K")>>)
    ELSE IF job.segs > 1 THEN
        /\ OnWith("segLba", [NoJob EXCEPT !.segs = job.segs - 1])
        /\ Say(<<Is("K")>>)
    ELSE Back /\ Say(<<Is("K"), Is("MW_DONE")>>)

\* Slips: a block is acknowledged whether it was written or not; a failed
\* write is not reported.
BlockUnchecked ==
    /\ at = "block" /\ Take
    /\ WriteOk(job.lba, Item) \/ WriteFails(job.lba, Item)
    /\ NextBlock

BlockUnreported ==
    /\ at = "block" /\ Take
    /\ \/ WriteOk(job.lba, Item) /\ NextBlock
       \/ WriteFails(job.lba, Item) /\ Back /\ Silent

Block ==
    /\ at = "block" /\ Take
    /\ \/ WriteOk(job.lba, Item) /\ NextBlock
       \/ WriteFails(job.lba, Item) /\ Back /\ Say(<<Is("fail")>>)

Multi == Opens("multiInit", "multiCount", <<Is("MW_READY")>>, <<Is("fail")>>)
         \/ MultiCount \/ SegLba \/ SegCount \/ Block
-----------------------------------------------------------------------------
(***************************************************************************)
(* mode_set_baud: the reply at the old rate, the switch, then one probe.   *)
(***************************************************************************)
SetBaud ==
    /\ at = "baud" /\ Take /\ NoCall
    /\ \/ /\ Item \in MIN_BAUD .. MAX_BAUD
          /\ Say(<<Is("BAUD_SWITCH")>>)
          /\ baud' = Item /\ at' = "probe" /\ UNCHANGED <<mode, job, mem>>
       \/ Item \notin MIN_BAUD .. MAX_BAUD /\ Back /\ Say(<<Is("fail")>>)

Probe == at = "probe" /\ Take /\ NoCall /\ Back /\ Say(<<Is("BAUD_OK")>>)
-----------------------------------------------------------------------------
(***************************************************************************)
(* The boots.  Blocks are loaded one after the other from an address on,   *)
(* over whatever is there.                                                 *)
(***************************************************************************)
Loaded(m, addr, blocks) ==
    [a \in DOMAIN m |-> IF a - addr + 1 \in DOMAIN blocks THEN blocks[a - addr + 1] ELSE m[a]]
OnCard(lba, n) == [i \in 1 .. n |-> disk[lba + i - 1]]

(***************************************************************************)
(* patch_dtb_initrd_end: every sentinel in the device tree's n blocks.     *)
(***************************************************************************)
SentinelsIn(m, n) == {a \in DTB .. DTB + n - 1 : HasSentinel(m[a])}
PatchedDtb(m, n, initrd_sz) ==
    [a \in DOMAIN m |-> IF a \in SentinelsIn(m, n) THEN Patched(m[a], INITRD * BLOCK + initrd_sz) ELSE m[a]]
OneSentinel(m, n) == \E a \in SentinelsIn(m, n) : SentinelsIn(m, n) = {a}

Hand(m) == at' = "kernel" /\ mem' = m /\ UNCHANGED <<mode, job, baud>>

(***************************************************************************)
(* mode_sd_boot.  Nothing writes to the card meanwhile, so the reads of    *)
(* sd_read_many count as one.                                              *)
(***************************************************************************)
BootHeader ==
    /\ at = "bootHeader" /\ Deaf /\ Silent
    /\ \/ ReadOk /\ HasMagic(disk[0]) /\ On("bootRead")
       \/ ReadOk /\ ~HasMagic(disk[0]) /\ Halt
       \/ ReadFails /\ Halt

BootRead ==
    /\ at = "bootRead" /\ Deaf /\ Silent
    /\ LET h == HeaderOf(disk[0])
           n == Blocks(h.dtb_sz)
           m1 == Loaded(mem, KERNEL, OnCard(h.image_lba, Blocks(h.image_sz)))
           m2 == Loaded(m1, DTB, OnCard(h.dtb_lba, n))
           m3 == Loaded(m2, INITRD, OnCard(h.initrd_lba, Blocks(h.initrd_sz)))
       IN  \/ ReadOk /\ OneSentinel(m3, n) /\ Hand(PatchedDtb(m3, n, h.initrd_sz))
           \/ ReadOk /\ ~OneSentinel(m3, n) /\ Halt
           \/ ReadFails /\ Halt

Boot ==
    \/ /\ at = "bootInit" /\ Deaf /\ Silent
       /\ (InitOk /\ On("bootHeader")) \/ (InitFails /\ Halt)
    \/ BootHeader \/ BootRead

(***************************************************************************)
(* mode_linux: three payloads, the patch, and a few words of code written  *)
(* behind the kernel and run.  mode_uboot: one payload, behind what is no  *)
(* block start.  Without a payload the retries of the transfer run out.    *)
(***************************************************************************)
HostWaits == script # <<>> => Head(script).do = "hear" /\ tx = <<>>
Received == Take /\ Head(rx).is = "payload" /\ Good /\ UNCHANGED cardVars
NotReceived ==
    /\ Deaf /\ UNCHANGED cardVars
    /\ Bad \/ (HostWaits /\ (rx # <<>> => Head(rx).is # "payload") /\ Good)

KernelLoad ==
    \/ /\ Received /\ at' = "dtbLoad" /\ mem' = Loaded(mem, KERNEL, Item)
       /\ job' = [job EXCEPT !.kernel_size = Len(Item)] /\ UNCHANGED <<mode, baud>>
    \/ NotReceived /\ Halt

DtbLoad ==
    \/ /\ Received /\ at' = "initrdLoad" /\ mem' = Loaded(mem, DTB, Item)
       /\ job' = [job EXCEPT !.dtb_size = Len(Item)] /\ UNCHANGED <<mode, baud>>
    \/ NotReceived /\ Halt

InitrdLoad ==
    LET m == Loaded(mem, INITRD, Item)
        p == PatchedDtb(m, job.dtb_size, Len(Item) * BLOCK)
    IN  \/ /\ Received /\ OneSentinel(m, job.dtb_size)
           /\ Hand([p EXCEPT ![KERNEL + job.kernel_size] = Code])
        \/ Received /\ ~OneSentinel(m, job.dtb_size) /\ Halt
        \/ NotReceived /\ Halt

Linux ==
    /\ Silent
    /\ \/ at = "kernelLoad" /\ KernelLoad
       \/ at = "dtbLoad" /\ DtbLoad
       \/ at = "initrdLoad" /\ InitrdLoad

Uboot ==
    /\ at = "ubootLoad" /\ Silent
    /\ \/ /\ Received /\ at' = "uboot" /\ mem' = Loaded(mem, KERNEL, Item)
          /\ UNCHANGED <<mode, job, baud>>
       \/ Take /\ Head(rx).is # "payload" /\ NoCall /\ UNCHANGED loaderVars
       \/ NotReceived /\ Halt

Loader ==
    /\ \/ Start \/ Command \/ Smoke \/ ReadHeader \/ Dump \/ WriteTest \/ Multi
       \/ SetBaud \/ Probe \/ Boot \/ Linux \/ Uboot
    /\ UNCHANGED <<hostVars, cycles>>
-----------------------------------------------------------------------------
(***************************************************************************)
(* The host.  A step of a script sends an item (over: the blocks it is to  *)
(* be written to), hears one of some messages (done: the writes that it    *)
(* acknowledges) or changes the rate.  A session begins at the prompt of   *)
(* the dispatcher, with what was said before it forgotten.                 *)
(***************************************************************************)
Send(is, val) == <<[do |-> "send", item |-> [is |-> is, val |-> val], over |-> {}]>>
SendBlock(lba, b) == <<[do |-> "send", item |-> DataIs(b), over |-> {lba}]>>
Hear(messages) == <<[do |-> "hear", messages |-> messages, done |-> {}]>>
HearDone(m, lba, b) == <<[do |-> "hear", messages |-> {Is(m)}, done |-> {<<lba, b>>}]>>
Rate(b) == <<[do |-> "rate", baud |-> b]>>

HostBegin ==
    /\ script = <<>> /\ sessions < SESSIONS /\ at \in {"first", "cmd"}
    /\ script' \in Scripts /\ sessions' = sessions + 1 /\ tx' = <<>>
    /\ UNCHANGED <<rx, hbaud, acked, torn>>

HostSend ==
    /\ script # <<>> /\ Head(script).do = "send"
    /\ rx' = IF hbaud = baud THEN Append(rx, Head(script).item) ELSE rx
    /\ acked' = {w \in acked : w[1] \notin Head(script).over}
    /\ script' = Tail(script)
    /\ UNCHANGED <<tx, hbaud, torn, sessions>>

HostHear ==
    /\ script # <<>> /\ Head(script).do = "hear" /\ tx # <<>>
    /\ tx' = Tail(tx)
    /\ IF Head(tx) \in Head(script).messages
       THEN /\ script' = Tail(script)
            /\ acked' = acked \cup Head(script).done
            /\ torn' = CASE Head(tx) = Is("MW_GO")   -> TRUE
                         [] Head(tx) = Is("MW_DONE") -> FALSE
                         [] OTHER                    -> torn
       ELSE script' = <<>> /\ UNCHANGED <<acked, torn>>
    /\ UNCHANGED <<rx, hbaud, sessions>>

HostRate ==
    /\ script # <<>> /\ Head(script).do = "rate"
    /\ hbaud' = Head(script).baud /\ script' = Tail(script)
    /\ UNCHANGED <<rx, tx, acked, torn, sessions>>

HostStep == (HostSend \/ HostHear \/ HostRate) /\ UNCHANGED <<loaderVars, cardVars, faults, cycles>>
Host == HostBegin /\ UNCHANGED <<loaderVars, cardVars, faults, cycles>>
-----------------------------------------------------------------------------
(***************************************************************************)
(* The card ends a programming that the driver gave up; the power fails,   *)
(* and ends it or not.                                                     *)
(***************************************************************************)
Landed == IF loose = {} THEN {disk} ELSE {[disk EXCEPT ![w[1]] = w[2]] : w \in loose}

Land ==
    /\ loose # {} /\ disk' \in Landed /\ loose' = {}
    /\ UNCHANGED <<loaderVars, hostVars, rx, tx, faults, cycles>>

PowerCycle ==
    /\ cycles < CYCLES /\ cycles' = cycles + 1
    /\ disk' \in Landed \cup {disk} /\ loose' = {}
    /\ at' = "start" /\ mode' = "none" /\ job' = NoJob /\ mem' = NoMem
    /\ baud' = DEFAULT_BAUD /\ hbaud' = DEFAULT_BAUD
    /\ script' = <<>> /\ rx' = <<>> /\ tx' = <<>>
    /\ UNCHANGED <<acked, torn, sessions, faults>>

\* The card holds version 1.
Init ==
    /\ at = "start" /\ mode = "none" /\ job = NoJob /\ mem = NoMem
    /\ baud = DEFAULT_BAUD /\ hbaud = DEFAULT_BAUD
    /\ disk = [l \in Lbas |-> <<1, l>>] /\ loose = {}
    /\ script = <<>> /\ rx = <<>> /\ tx = <<>>
    /\ acked = {} /\ torn = FALSE
    /\ faults = 0 /\ sessions = 0 /\ cycles = 0

Next == Loader \/ HostStep \/ Host \/ Land \/ PowerCycle

\* The loader runs, and a host goes on with a session that it has begun.
Spec == Init /\ [][Next]_vars /\ WF_vars(Loader) /\ WF_vars(HostStep)
-----------------------------------------------------------------------------
BlockValues == (Versions \X Lbas) \cup {<<"test">>}

(***************************************************************************)
(* Every variable of the loader keeps to its range: a block is received    *)
(* only within an update whose counts were accepted, and a mode is chosen  *)
(* with no job left over from the one before (main.c, sd_write_multi).     *)
(***************************************************************************)
TypeOK ==
    /\ at \in {"start", "first", "cmd", "smokeInit", "smokeRead", "readInit", "readHeader",
              "dumpLba", "dumpCount", "dumpInit", "dump", "testInit", "testData", "testRead",
              "multiInit", "multiCount", "segLba", "segCount", "block", "baud", "probe",
              "bootInit", "bootHeader", "bootRead", "kernelLoad", "dtbLoad", "initrdLoad",
              "ubootLoad"} \cup Final
    /\ mode \in {"none", "timeout", "probe", "l", "b", "u", "d", "s", "w", "W", "R", "B"}
    /\ disk \in [Lbas -> BlockValues] /\ loose \subseteq Lbas \X BlockValues
    /\ at = "block" => job.segs \in 1 .. MAX_SEGS /\ job.left \in 1 .. MAX_SECS
    /\ at \in {"first", "cmd"} => job = NoJob
    /\ baud \in MIN_BAUD .. MAX_BAUD /\ acked \subseteq Lbas \X BlockValues
    /\ DOMAIN mem = KERNEL .. MEM_END - 1

(***************************************************************************)
(* What the host has been told is written (K or WRITE_OK) is on the card,  *)
(* through later sessions, failed writes that land late, and power         *)
(* failures, until the host sends that block again.                        *)
(***************************************************************************)
AckedOnCard == \A w \in acked : disk[w[1]] = w[2]

(***************************************************************************)
(* "Never give up on the host" (main.c, at the end of the loop): unless    *)
(* its memory failed or a boot was asked for, by its mode byte or by       *)
(* silence, the loader is there for the next command.  Not so for a host   *)
(* that "sends 'P' until it sees BAUD_OK" (mode_set_baud).                 *)
(***************************************************************************)
NeverGivesUp == at \in Final => mode \in Terminal \cup {"timeout", "none"}

(***************************************************************************)
(* Apart from that second probe nothing ends the loader but a boot that    *)
(* was asked for: no number, block or mode byte ever reaches the           *)
(* dispatcher that was meant for a mode, whatever fails before it is read. *)
(***************************************************************************)
LeavesAsAsked == at \in Final => mode \in Terminal \cup {"timeout", "none", "probe"}

(***************************************************************************)
(* What is booted is whole: unless an update was cut short, the kernel,    *)
(* the device tree and the initramfs in memory are all of one version,     *)
(* from their first block to their last, and the device tree names the     *)
(* end of that initramfs.                                                  *)
(***************************************************************************)
Holds(addr, v, lba, bytes) ==
    \A i \in 0 .. MEM_END - addr - 1 : i * BLOCK < bytes => mem[addr + i] = <<v, lba + i>>

Whole(v) ==
    LET h == Layout[v]
    IN  /\ Holds(KERNEL, v, h.image_lba, h.image_sz)
        /\ Holds(DTB + 1, v, h.dtb_lba + 1, h.dtb_sz - BLOCK)
        /\ Holds(INITRD, v, h.initrd_lba, h.initrd_sz)
        /\ \E end \in h.initrd_sz .. h.initrd_sz + BLOCK - 1 :
              mem[DTB] = Patched(<<v, h.dtb_lba>>, INITRD * BLOCK + end)

BootsWhole == at = "kernel" /\ ~torn => \E v \in Versions : Whole(v)

(***************************************************************************)
(* A session of the host comes to its end, or the loader has stopped:      *)
(* neither waits for the other for ever, whatever the card does.           *)
(***************************************************************************)
SessionEnds == script # <<>> ~> script = <<>> \/ at \in Final
=============================================================================
