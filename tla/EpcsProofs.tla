----------------------------- MODULE EpcsProofs -----------------------------
(***************************************************************************)
(* Staging in the configuration flash, for every geometry, image, edit and *)
(* number of runs and faults: the types; no pulse of the firmware is lost; *)
(* what is reported staged is in slot 1; slot 0 boots at any moment.       *)
(*                                                                         *)
(* The inductive invariant says where the controller may be at each        *)
(* register access of the firmware (ControlInv), that the unit under way   *)
(* is one of the image and no access leaves it (UnitInv), that nothing is  *)
(* erased or programmed below slot 1 (ChipInv), that a status byte taken   *)
(* after a program without WIP comes from a chip at rest (RestInv), that   *)
(* the bytes read from a chip at rest are those of the flash (ReadInv),    *)
(* and what the image to stage is made of (ImageInv).                      *)
(***************************************************************************)
EXTENDS Epcs, TLAPS

\* The states that the FSM may be in, and what it has latched, by the next
\* register access of the firmware.
PC == {"idle", "fast_read", "read_dv", "read_stop", "read_idle", "reset", "wren", "wren_idle",
       "op_idle", "byte_dv", "shift", "status", "status_dv", "status_idle"}

ControlInv ==
    /\ pc \in PC
    /\ pc \in {"idle", "fast_read", "reset", "wren", "status"} => state = "S_IDLE" /\ ctrl = {}
    /\ pc = "read_dv" =>
          /\ ctrl = {"read"}
          /\ \/ state = "S_IDLE" /\ ~dv
             \/ state \in {"command", "S_SHIFT"} /\ op_kind = "read" /\ ~dv
             \/ state \in {"settle", "S_PAUSE"} /\ op_kind = "read" /\ dv
    /\ pc = "read_stop" =>
          ctrl = {"read"} /\ op_kind = "read" /\ state \in {"S_SHIFT", "settle", "S_PAUSE"}
    /\ pc = "read_idle" =>
          ctrl = {} /\ op_kind = "read" /\ state \in {"S_SHIFT", "settle", "S_PAUSE", "S_TAIL", "S_IDLE"}
    /\ pc = "wren_idle" =>
          ctrl = {} /\ op_kind = "wren" /\ state \in {"command", "S_TAIL", "S_IDLE"}
    /\ pc = "byte_dv" =>
          /\ ctrl = {"write"}
          /\ \/ state = "S_IDLE" /\ ~dv
             \/ state \in {"command", "S_SHIFT"} /\ op_kind = "write" /\ ~dv
             \/ state \in {"settle", "S_PAUSE"} /\ op_kind = "write" /\ dv
    /\ pc = "shift" =>
          ctrl = {"write"} /\ op_kind = "write" /\ dv /\ state \in {"settle", "S_PAUSE"}
    /\ pc = "op_idle" =>
          /\ ctrl = {}
          /\ at = "erase" => op_kind = "erase" /\ state \in {"command", "S_TAIL", "S_IDLE"}
          /\ at = "program" => op_kind = "write" /\ state \in {"settle", "S_PAUSE", "S_TAIL", "S_IDLE"}
    /\ pc \in {"status_dv", "status_idle"} =>
          ctrl = {} /\ op_kind = "status" /\ state \in {"command", "S_SHIFT", "S_TAIL", "S_IDLE"}
    /\ at \in {"page0", "slot1", "readback"} => pc \in {"fast_read", "read_dv", "read_stop", "read_idle"}
    /\ at \in {"erase", "program"} => pc # "idle"
    /\ pc \in {"reset", "byte_dv", "shift"} => at = "program"
    /\ pc \in {"wren", "wren_idle"} /\ at = "program" => ~dv

\* The unit under way is one of the image, and the bytes of a page are handed
\* over one by one; no more bytes are read than asked for.
UnitInv ==
    /\ unit \in Nat /\ sent \in Nat
    /\ at = "erase" => unit * SECTOR < LEN
    /\ at = "program" => unit * PAGE < LEN
    /\ at = "erase" /\ pc = "op_idle" => addr_reg >= EPCS_TPU_BASE
    /\ at = "program" /\ pc \in {"byte_dv", "shift", "op_idle"} =>
          addr_reg >= EPCS_TPU_BASE /\ sent \in 1 .. Len(Chunk)
    /\ pc = "shift" => sent < Len(Chunk)
    /\ pc = "byte_dv" /\ state \in {"S_IDLE", "command"} => sent = 1
    /\ pc = "byte_dv" /\ state = "S_SHIFT" /\ heard => Len(page) < sent
    /\ pc \in {"byte_dv", "shift"} /\ state \in {"settle", "S_PAUSE"} /\ heard => Len(page) <= sent
    /\ pc \in {"read_stop", "read_idle"} => Len(got) <= ToRead
    /\ pc \in {"fast_read", "read_dv"} => Len(got) < ToRead
    /\ pc = "status_idle" => Len(got) = 1

\* Slot 0 is out of reach.
ChipInv == ~Idle => busy.at >= EPCS_TPU_BASE

\* A chip that programs is polled until it rests.
Honest == dv => WIP \in latched_dataout \/ Idle

RestInv ==
    /\ at \in {"prompt", "page0", "slot1", "readback", "staged"} => Idle
    /\ at = "program" /\ pc \in {"byte_dv", "shift", "op_idle"} /\ dv => WIP \in latched_dataout
    /\ at = "program" /\ pc \in {"status", "status_dv", "status_idle"} => Honest
    /\ at = "program" /\ pc = "status_idle" => WIP \in got[1] \/ Idle
    /\ at = "program" /\ pc \in {"fast_read", "read_dv", "read_stop", "read_idle"} => Idle

\* What has been read from a chip at rest.
ReadInv ==
    at \in {"page0", "slot1", "readback"} =>
        /\ \A x \in 1 .. Len(got) : got[x] = flash[From + x - 1]
        /\ pc = "read_dv" =>
              /\ addr_reg = From + Len(got)
              /\ state \in {"command", "S_SHIFT"} => raddr_q = addr_reg
              /\ state = "S_SHIFT" => heard
              /\ dv => latched_dataout = flash[addr_reg]

ImageInv ==
    /\ mode = "t" /\ at # "prompt" => image = Source
    /\ mode = "H" /\ at \in {"slot1", "erase", "program", "readback", "staged"} =>
          image = Surgery(Slot(0))
    /\ mode = "t" => at # "page0"
    /\ at = "staged" => \A x \in 1 .. LEN : flash[EPCS_TPU_BASE + x - 1] = image[x]

Inv == TypeOK /\ ControlInv /\ UnitInv /\ ChipInv /\ RestInv /\ ReadInv /\ ImageInv /\ Bootable
-----------------------------------------------------------------------------
(***************************************************************************)
(* Arithmetic: the units of an image, and what an erase or a program       *)
(* reaches.                                                                *)
(***************************************************************************)
LEMMA Constants ==
    /\ BITS \in Nat /\ BITS >= 2 /\ SIZE \in Nat /\ SIZE > 0 /\ SECTOR \in Nat /\ SECTOR > 0
    /\ PAGE \in Nat /\ PAGE > 0 /\ LEN \in Nat /\ LEN > 0 /\ VERIFY \in Nat /\ VERIFY > 0
    /\ WIP_LIMIT \in Nat /\ WIP_LIMIT > 0 /\ RUNS \in Nat /\ FAULTS \in Nat
    /\ SIZE % SECTOR = 0 /\ SECTOR % PAGE = 0 /\ VERIFY <= PAGE /\ VERIFY <= LEN
    /\ EPCS_TPU_BASE \in Nat /\ EPCS_TPU_BASE < SIZE /\ EPCS_TPU_BASE % SECTOR = 0
    /\ LEN <= EPCS_TPU_BASE /\ EPCS_TPU_BASE + LEN <= SIZE
BY EpcsAssumption, StagingAssumption DEF Addr

LEMMA DivMod ==
    ASSUME NEW a \in Nat, NEW n \in Nat, n > 0
    PROVE  /\ a \div n \in Nat /\ a % n \in 0 .. n - 1
           /\ a = (a \div n) * n + (a % n)
OBVIOUS

LEMMA MultLess ==
    ASSUME NEW u \in Nat, NEW q \in Nat, NEW n \in Nat, u < q
    PROVE  u * n + n <= q * n
<1>1. PICK k \in Nat : q = u + 1 + k
  <2>1. q - u - 1 \in Nat /\ q = u + 1 + (q - u - 1)
    OBVIOUS
  <2> QED BY <2>1
<1>2. q * n = u * n + n + k * n /\ k * n \in Nat
  BY <1>1
<1> QED BY <1>2

LEMMA UpToSpec ==
    ASSUME NEW n \in Nat, NEW size \in Nat, size > 0, NEW u \in Nat
    PROVE  UpTo(n, size) \in Nat /\ (u < UpTo(n, size) <=> u * size < n)
<1> DEFINE q == (n + size - 1) \div size
<1>1. q \in Nat /\ q * size <= n + size - 1 /\ n + size - 1 < q * size + size /\ q * size \in Nat
  <2>1. n + size - 1 \in Nat
    OBVIOUS
  <2>2. q \in Nat /\ (n + size - 1) % size \in 0 .. size - 1
        /\ n + size - 1 = q * size + ((n + size - 1) % size)
    BY <2>1, DivMod
  <2>3. q * size \in Nat
    BY <2>2
  <2> HIDE DEF q
  <2> QED BY <2>2, <2>3
<1>2. u * size \in Nat
  OBVIOUS
<1>3. UpTo(n, size) = q
  BY DEF UpTo
<1> HIDE DEF q
<1>4. CASE u < q
  <2>1. u * size + size <= q * size
    BY <1>1, <1>4, MultLess
  <2> QED BY <1>1, <1>2, <1>3, <1>4, <2>1
<1>5. CASE ~(u < q)
  <2>1. q * size <= u * size
    <3>1. CASE q = u
      BY <3>1, <1>2
    <3>2. CASE q < u
      BY <1>1, <1>2, <3>2, MultLess
    <3> QED BY <1>1, <1>5, <3>1, <3>2
  <2> QED BY <1>1, <1>2, <1>3, <1>5, <2>1
<1> QED BY <1>4, <1>5

\* A multiple of n below another is below it by n.
LEMMA Multiple ==
    ASSUME NEW a \in Nat, NEW b \in Nat, NEW n \in Nat, n > 0, a % n = 0, b % n = 0, a < b
    PROVE  a + n <= b
<1>1. /\ a \div n \in Nat /\ a = (a \div n) * n /\ b \div n \in Nat /\ b = (b \div n) * n
  BY DivMod
<1>2. a \div n < b \div n
  <2> SUFFICES ASSUME b \div n <= a \div n PROVE FALSE
    BY <1>1
  <2>1. PICK k \in Nat : a \div n = b \div n + k
    <3>1. a \div n - b \div n \in Nat /\ a \div n = b \div n + (a \div n - b \div n)
      BY <1>1
    <3> QED BY <3>1
  <2>2. a = b + k * n /\ k * n \in Nat
    BY <1>1, <2>1
  <2> QED BY <2>2
<1> QED BY <1>1, <1>2, MultLess

\* The part of size n that holds an address from slot 1 lies in slot 1.
LEMMA PartAbove ==
    ASSUME NEW a \in Nat, NEW n \in Nat, n > 0, EPCS_TPU_BASE % n = 0, a >= EPCS_TPU_BASE
    PROVE  (a \div n) * n \in Nat /\ (a \div n) * n >= EPCS_TPU_BASE
<1> DEFINE p == (a \div n) * n
<1>1. a \div n \in Nat /\ a % n \in 0 .. n - 1 /\ a = p + (a % n)
  BY DivMod
<1>2. p \in Nat
  BY <1>1
<1>3. p % n = 0
  BY <1>1
<1> HIDE DEF p
<1>4. CASE p < EPCS_TPU_BASE
  BY <1>1, <1>2, <1>3, <1>4, Multiple, Constants
<1> QED BY <1>2, <1>4, Constants DEF p

LEMMA SectorAbove ==
    ASSUME NEW a \in Addr, a >= EPCS_TPU_BASE, NEW x \in SectorOf(a)
    PROVE  x \in Addr /\ x >= EPCS_TPU_BASE
<1>1. x \in Nat /\ a \in Nat /\ x \div SECTOR = a \div SECTOR /\ x \in Addr
  BY Constants DEF SectorOf, Addr
<1>2. (a \div SECTOR) * SECTOR >= EPCS_TPU_BASE /\ (a \div SECTOR) * SECTOR \in Nat
  BY <1>1, PartAbove, Constants
<1>3. x = (x \div SECTOR) * SECTOR + (x % SECTOR) /\ x % SECTOR \in 0 .. SECTOR - 1
  BY <1>1, DivMod, Constants
<1> QED BY <1>1, <1>2, <1>3, Constants

\* PAGE divides SECTOR, and SECTOR divides the start of slot 1.
LEMMA PageDivides == EPCS_TPU_BASE % PAGE = 0 /\ PAGE <= SECTOR
<1>1. SECTOR = (SECTOR \div PAGE) * PAGE /\ SECTOR \div PAGE \in Nat
  BY DivMod, Constants
<1>2. EPCS_TPU_BASE = (EPCS_TPU_BASE \div SECTOR) * SECTOR /\ EPCS_TPU_BASE \div SECTOR \in Nat
  BY DivMod, Constants
<1>3. PICK k \in Nat : EPCS_TPU_BASE = k * PAGE
  <2> DEFINE m == SECTOR \div PAGE
             j == EPCS_TPU_BASE \div SECTOR
  <2>1. j * m \in Nat /\ EPCS_TPU_BASE = (j * m) * PAGE
    <3> HIDE DEF j, m
    <3>1. j \in Nat /\ m \in Nat /\ SECTOR = m * PAGE /\ EPCS_TPU_BASE = j * SECTOR
      BY <1>1, <1>2 DEF j, m
    <3>2. j * (m * PAGE) = (j * m) * PAGE
      BY <3>1, Constants
    <3> QED BY <3>1, <3>2
  <2> QED BY <2>1
<1>4. EPCS_TPU_BASE % PAGE = 0
  BY <1>3, Constants
<1>5. SECTOR \div PAGE # 0
  BY <1>1, Constants
<1>6. 0 * PAGE + PAGE <= (SECTOR \div PAGE) * PAGE
  BY <1>1, <1>5, MultLess, Constants
<1> QED BY <1>1, <1>4, <1>6, Constants

LEMMA CellAbove ==
    ASSUME NEW a \in Addr, a >= EPCS_TPU_BASE, NEW i \in Nat \ {0}
    PROVE  PageCell(a, i) >= EPCS_TPU_BASE /\ PageCell(a, i) \in Nat
<1>1. a \in Nat /\ a + i - 1 \in Nat
  BY Constants DEF Addr
<1>2. (a + i - 1) % PAGE \in 0 .. PAGE - 1
  BY <1>1, DivMod, Constants
<1>3. (a \div PAGE) * PAGE >= EPCS_TPU_BASE /\ (a \div PAGE) * PAGE \in Nat
  BY <1>1, PartAbove, PageDivides, Constants
<1> QED BY <1>2, <1>3, Constants DEF PageCell
-----------------------------------------------------------------------------
(***************************************************************************)
(* Bytes, images and the edit.                                             *)
(***************************************************************************)
Rev(d) == {BITS - 1 - b : b \in d}

LEMMA RevTwice ==
    ASSUME NEW d \in Byte
    PROVE  Rev(d) \in Byte /\ Rev(Rev(d)) = d
<1>1. \A b \in d : b \in Nat /\ BITS - 1 - b \in 0 .. BITS - 1 /\ BITS - 1 - (BITS - 1 - b) = b
  BY Constants DEF Byte
<1> QED BY <1>1 DEF Rev, Byte

LEMMA XorType ==
    ASSUME NEW a \in Byte, NEW b \in Byte
    PROVE  Xor(a, b) \in Byte /\ CrcOf(a) \in Byte
BY Constants DEF Xor, CrcOf, Byte

LEMMA SlotType ==
    ASSUME flash \in [Addr -> Byte], NEW base \in {0, EPCS_TPU_BASE}
    PROVE  /\ Slot(base) \in [1 .. LEN -> Byte]
           /\ \A x \in 1 .. LEN : base + x - 1 \in Addr /\ Slot(base)[x] = flash[base + x - 1]
<1>1. \A x \in 1 .. LEN : base + x - 1 \in Addr
  BY Constants DEF Addr
<1> QED BY <1>1 DEF Slot

LEMMA BitRevType ==
    ASSUME NEW im \in [1 .. LEN -> Byte]
    PROVE  /\ BitRev(im) \in [1 .. LEN -> Byte]
           /\ \A x \in 1 .. LEN : BitRev(im)[x] = Rev(im[x])
<1>1. \A x \in 1 .. LEN : Rev(im[x]) \in Byte
  BY RevTwice
<1>2. BitRev(im) = [x \in 1 .. LEN |-> Rev(im[x])]
  BY DEF BitRev, Rev
<1> QED BY <1>1, <1>2

\* What mode H stages, byte for byte.
LEMMA SurgeryType ==
    ASSUME NEW page0 \in [1 .. LEN -> Byte]
    PROVE  /\ Surgery(page0) \in [1 .. LEN -> Byte]
           /\ \A x \in 1 .. LEN : BitRev(Surgery(page0))[x] =
                  CASE x = EDIT_AT     -> Xor(BitRev(page0)[x], EDIT)
                    [] x - 1 = EDIT_AT -> CrcOf(Xor(BitRev(page0)[x - 1], EDIT))
                    [] OTHER           -> BitRev(page0)[x]
<1> DEFINE b == BitRev(page0)
           e == PatchCrc(LutApply(b))
<1>1. b \in [1 .. LEN -> Byte]
  BY BitRevType
<1>2. EDIT \in Byte /\ EDIT_AT \in 1 .. LEN /\ EDIT_AT + 1 \in 1 .. LEN /\ EDIT_AT \in Nat
  BY StagingAssumption, Constants
<1>3. b[EDIT_AT] \in Byte
  BY <1>1, <1>2
<1>4. Xor(b[EDIT_AT], EDIT) \in Byte
  BY <1>2, <1>3, XorType
<1>5. CrcOf(Xor(b[EDIT_AT], EDIT)) \in Byte
  BY <1>4, XorType
<1> HIDE DEF b
<1>6. /\ LutApply(b) \in [1 .. LEN -> Byte] /\ LutApply(b)[EDIT_AT] = Xor(b[EDIT_AT], EDIT)
      /\ \A x \in 1 .. LEN : x # EDIT_AT => LutApply(b)[x] = b[x]
  BY <1>1, <1>2, <1>4 DEF LutApply
<1>7. /\ e \in [1 .. LEN -> Byte] /\ e[EDIT_AT] = Xor(b[EDIT_AT], EDIT)
      /\ e[EDIT_AT + 1] = CrcOf(Xor(b[EDIT_AT], EDIT))
      /\ \A x \in 1 .. LEN : x # EDIT_AT /\ x # EDIT_AT + 1 => e[x] = b[x]
  BY <1>2, <1>5, <1>6 DEF PatchCrc
<1> HIDE DEF e
<1>8. Surgery(page0) = BitRev(e)
  BY DEF Surgery, e, b
<1>9. \A x \in 1 .. LEN : BitRev(BitRev(e))[x] = e[x]
  <2> TAKE x \in 1 .. LEN
  <2>1. BitRev(BitRev(e))[x] = Rev(Rev(e[x])) /\ e[x] \in Byte
    BY <1>7, BitRevType
  <2> QED BY <2>1, RevTwice
<1>10. BitRev(e) \in [1 .. LEN -> Byte]
  BY <1>7, BitRevType
<1>11. ASSUME NEW x \in 1 .. LEN
       PROVE  e[x] = CASE x = EDIT_AT     -> Xor(b[x], EDIT)
                       [] x - 1 = EDIT_AT -> CrcOf(Xor(b[x - 1], EDIT))
                       [] OTHER           -> b[x]
  <2>1. CASE x = EDIT_AT
    BY <1>2, <1>7, <2>1
  <2>2. CASE x = EDIT_AT + 1
    <3>1. x - 1 = EDIT_AT /\ x # EDIT_AT
      BY <1>2, <2>2
    <3> QED BY <1>7, <2>2, <3>1
  <2>3. CASE x # EDIT_AT /\ x # EDIT_AT + 1
    <3>1. x - 1 # EDIT_AT
      BY <1>2, <2>3
    <3> QED BY <1>7, <2>3, <3>1
  <2> QED BY <2>1, <2>2, <2>3
<1> QED BY <1>8, <1>9, <1>10, <1>11 DEF b

\* An edited image carries the CRC of its frames if the page that was edited did.
Framed(im) == \A f \in FRAMES : BitRev(im)[f + 1] = CrcOf(BitRev(im)[f])

LEMMA SurgeryFramed ==
    ASSUME NEW page0 \in [1 .. LEN -> Byte], Framed(page0)
    PROVE  Framed(Surgery(page0))
<1> SUFFICES ASSUME NEW f \in FRAMES
             PROVE  BitRev(Surgery(page0))[f + 1] = CrcOf(BitRev(Surgery(page0))[f])
  BY DEF Framed
<1>1. /\ f \in 1 .. LEN /\ f + 1 \in 1 .. LEN /\ f \in Nat /\ f + 1 # f
      /\ EDIT_AT \in Nat /\ EDIT_AT + 1 \notin FRAMES /\ f + 1 # EDIT_AT /\ f + 1 - 1 = f
  BY StagingAssumption, Constants
<1>2. f - 1 # EDIT_AT
  <2> SUFFICES ASSUME f - 1 = EDIT_AT PROVE FALSE
    OBVIOUS
  <2>1. f = EDIT_AT + 1
    BY <1>1
  <2> QED BY <1>1, <2>1
<1>3. CASE f = EDIT_AT
  BY <1>1, <1>3, SurgeryType
<1>4. CASE f # EDIT_AT
  BY <1>1, <1>2, <1>4, SurgeryType DEF Framed
<1> QED BY <1>3, <1>4
-----------------------------------------------------------------------------
(***************************************************************************)
(* Where the firmware reads and writes.                                    *)
(***************************************************************************)
LEMMA ChunkType ==
    ASSUME image \in [1 .. LEN -> Byte], unit \in Nat, unit * PAGE < LEN
    PROVE  /\ Chunk \in Seq(Byte) /\ Len(Chunk) \in 1 .. PAGE
           /\ unit * PAGE + Len(Chunk) <= LEN
<1> DEFINE m == unit * PAGE
           n == IF (unit + 1) * PAGE < LEN THEN (unit + 1) * PAGE ELSE LEN
<1>1. m \in Nat /\ (unit + 1) * PAGE = m + PAGE
  BY Constants
<1>2. n \in Nat /\ m + 1 <= n /\ n <= LEN /\ n - m <= PAGE
  BY <1>1, Constants
<1>3. Chunk = SubSeq(image, m + 1, n)
  BY DEF Chunk
<1>4. image \in Seq(Byte) /\ Len(image) = LEN
  BY Constants
<1> HIDE DEF m, n
<1>5. Chunk \in Seq(Byte) /\ Len(Chunk) = n - m
  BY <1>1, <1>2, <1>3, <1>4
<1> QED BY <1>1, <1>2, <1>5, Constants DEF m

LEMMA EraseTarget ==
    ASSUME at = "erase", unit \in Nat, unit * SECTOR < LEN
    PROVE  Target \in Addr /\ Target >= EPCS_TPU_BASE /\ Target + SECTOR <= SIZE
<1>1. Target = EPCS_TPU_BASE + unit * SECTOR /\ unit * SECTOR \in Nat
  BY Constants DEF Target, Size
<1>2. PICK k \in Nat : EPCS_TPU_BASE = k * SECTOR
  <2>1. /\ EPCS_TPU_BASE \div SECTOR \in Nat
        /\ EPCS_TPU_BASE = (EPCS_TPU_BASE \div SECTOR) * SECTOR
    BY DivMod, Constants
  <2> QED BY <2>1
<1>3. Target = (k + unit) * SECTOR /\ k + unit \in Nat
  BY <1>1, <1>2, Constants
<1>4. Target % SECTOR = 0
  BY <1>3, Constants
<1>5. Target \in Nat /\ Target < SIZE
  BY <1>1, Constants
<1>6. Target + SECTOR <= SIZE
  BY <1>4, <1>5, Multiple, Constants
<1> QED BY <1>1, <1>5, <1>6, Constants DEF Addr

LEMMA ProgramTarget ==
    ASSUME at = "program", unit \in Nat, unit * PAGE < LEN
    PROVE  Target \in Addr /\ Target >= EPCS_TPU_BASE /\ Target = EPCS_TPU_BASE + unit * PAGE
<1>1. Target = EPCS_TPU_BASE + unit * PAGE /\ unit * PAGE \in Nat
  BY Constants DEF Target, Size
<1> QED BY <1>1, Constants DEF Addr

\* Every byte that is read for lies in the chip, and no read is longer than an image.
LEMMA ReadRange ==
    ASSUME TypeOK, UnitInv, at \notin Resting
    PROVE  /\ ToRead \in Nat /\ ToRead > 0 /\ ToRead <= LEN
           /\ \A k \in Nat : k < ToRead => From + k \in Addr
<1>1. CASE at = "page0"
  BY <1>1, Constants DEF ToRead, From, Addr
<1>2. CASE at \in {"slot1", "readback"}
  BY <1>2, Constants DEF ToRead, From, Addr
<1>3. CASE at = "erase"
  <2>1. Target \in Addr /\ Target + SECTOR <= SIZE
    BY <1>3, EraseTarget DEF UnitInv
  <2>2. ToRead = VERIFY /\ From = Target
    BY <1>3 DEF ToRead, From
  <2> QED BY <2>1, <2>2, Constants, PageDivides DEF Addr
<1>4. CASE at = "program"
  <2>1. /\ Target = EPCS_TPU_BASE + unit * PAGE /\ unit * PAGE \in Nat
        /\ Len(Chunk) \in 1 .. PAGE /\ unit * PAGE + Len(Chunk) <= LEN
    BY <1>4, ProgramTarget, ChunkType, Constants DEF UnitInv, TypeOK
  <2>2. ToRead = (IF Len(Chunk) < VERIFY THEN Len(Chunk) ELSE VERIFY) /\ From = Target
    BY <1>4 DEF ToRead, From
  <2> QED BY <2>1, <2>2, Constants DEF Addr
<1> QED BY <1>1, <1>2, <1>3, <1>4 DEF TypeOK, Resting

\* A chip that finishes, or has got to some of its cells, leaves slot 0 alone.
LEMMA FinishedType ==
    ASSUME SpiTypeOK, busy.at >= EPCS_TPU_BASE
    PROVE  /\ Finished \in [Addr -> Byte]
           /\ \A x \in Addr : x < EPCS_TPU_BASE => Finished[x] = flash[x]
<1>1. busy.at \in Addr /\ flash \in [Addr -> Byte] /\ page \in Seq(Byte)
  BY DEF SpiTypeOK
<1>2. CASE busy.op = "erase"
  <2>1. Finished = [x \in Addr |-> IF x \in SectorOf(busy.at) THEN Ones ELSE flash[x]]
    BY <1>2 DEF Finished
  <2>2. \A x \in SectorOf(busy.at) : x >= EPCS_TPU_BASE
    BY <1>1, SectorAbove
  <2> QED BY <1>1, <2>1, <2>2, Constants DEF Byte, Ones, Addr
<1>3. CASE busy.op # "erase"
  <2>1. Finished = [x \in Addr |-> {b \in flash[x] :
                       \A i \in DOMAIN page : PageCell(busy.at, i) = x => b \in page[i]}]
    BY <1>3 DEF Finished
  <2>2. \A i \in DOMAIN page : PageCell(busy.at, i) >= EPCS_TPU_BASE
    <3>1. \A i \in DOMAIN page : i \in Nat \ {0}
      BY <1>1
    <3> QED BY <1>1, <3>1, CellAbove
  <2>3. Finished \in [Addr -> Byte]
    BY <1>1, <2>1 DEF Byte
  <2>4. ASSUME NEW x \in Addr, x < EPCS_TPU_BASE PROVE Finished[x] = flash[x]
    <3>1. \A i \in DOMAIN page : PageCell(busy.at, i) # x
      <4> SUFFICES ASSUME NEW i \in DOMAIN page PROVE PageCell(busy.at, i) # x
        OBVIOUS
      <4>1. PageCell(busy.at, i) \in Nat /\ PageCell(busy.at, i) >= EPCS_TPU_BASE
        BY <1>1, CellAbove
      <4> QED BY <2>4, <4>1, Constants DEF Addr
    <3> QED BY <2>1, <2>4, <3>1
  <2> QED BY <2>3, <2>4
<1> QED BY <1>2, <1>3
-----------------------------------------------------------------------------
(***************************************************************************)
(* Every step keeps the invariant: first where the controller is.          *)
(***************************************************************************)
\* The firmware and the operator do nothing.
Unmoved == UNCHANGED <<at, pc, got, polls, progVars>>

LEMMA ControlKept ==
    ASSUME Inv, [Next]_vars
    PROVE  ControlInv'
<1> USE DEF Inv, ControlInv, PC, TypeOK, Resting, chipVars, wireVars, slotVars, regVars, spiVars, progVars
<1>1. CASE FastRead
  BY <1>1 DEF FastRead, Reset
<1>2. CASE ReadByte
  BY <1>2 DEF ReadByte, Consume
<1>3. CASE ReadStop
  BY <1>3 DEF ReadStop, Level
<1>4. CASE ReadNext
  BY <1>4 DEF ReadNext
<1>5. CASE ProgramReset
  BY <1>5 DEF ProgramReset, Reset
<1>6. CASE Wren
  BY <1>6 DEF Wren, Pulse
<1>7. CASE Erase
  BY <1>7 DEF Erase, Pulse
<1>8. CASE ProgramFirst
  BY <1>8 DEF ProgramFirst, Level
<1>9. CASE ProgramByte
  BY <1>9 DEF ProgramByte
<1>10. CASE Shift
  BY <1>10 DEF Shift, ShiftBytes
<1>11. CASE ProgramStop
  BY <1>11 DEF ProgramStop, Level
<1>12. CASE OpIdle
  BY <1>12 DEF OpIdle
<1>13. CASE ReadStatus
  BY <1>13 DEF ReadStatus, Pulse
<1>14. CASE StatusByte
  BY <1>14 DEF StatusByte, Consume
<1>15. CASE PollWip
  BY <1>15 DEF PollWip
<1>16. CASE Page0Read
  BY <1>16 DEF Page0Read, Read, GoTo, GoOn
<1>17. CASE Slot1Read
  BY <1>17 DEF Slot1Read, Read, GoTo, GoOn, Ends
<1>18. CASE EraseVerified
  BY <1>18 DEF EraseVerified, Read, GoTo, GoOn, Ends
<1>19. CASE PageVerified
  BY <1>19 DEF PageVerified, Read, GoTo, GoOn, Ends
<1>20. CASE ReadBack
  BY <1>20 DEF ReadBack, Read, GoOn, Ends
<1>21. CASE Start /\ Unmoved
  BY <1>21 DEF Start, Unmoved
<1>22. CASE Command /\ Unmoved
  BY <1>22 DEF Command, Unmoved, Selected
<1>23. CASE ByteValid /\ Unmoved
  BY <1>23 DEF ByteValid, Unmoved
<1>24. CASE Settle /\ Unmoved
  BY <1>24 DEF Settle, Unmoved
<1>25. CASE Pause /\ Unmoved
  BY <1>25 DEF Pause, Unmoved, Selected
<1>26. CASE TailEnds /\ Unmoved
  BY <1>26 DEF TailEnds, Unmoved
<1>27. CASE Work /\ Unmoved
  BY <1>27 DEF Work, Unmoved
<1>28. CASE Begin
  BY <1>28 DEF Begin, Prompted, GoTo, GoOn, Ends
<1>29. CASE PowerCycle
  BY <1>29 DEF PowerCycle, GoOn, Ends
<1>30. CASE Promote
  BY <1>30 DEF Promote, GoOn, Ends
<1>31. CASE UNCHANGED vars
  BY <1>31 DEF vars
<1> QED
  BY <1>1, <1>2, <1>3, <1>4, <1>5, <1>6, <1>7, <1>8, <1>9, <1>10, <1>11, <1>12, <1>13,
     <1>14, <1>15, <1>16, <1>17, <1>18, <1>19, <1>20, <1>21, <1>22, <1>23, <1>24, <1>25,
     <1>26, <1>27, <1>28, <1>29, <1>30, <1>31
  DEF Next, Firmware, Controller, Fsm, Chip, Unmoved
-----------------------------------------------------------------------------
(***************************************************************************)
(* The types.                                                              *)
(***************************************************************************)
LEMMA SelectedType ==
    ASSUME SpiTypeOK, Selected(op_kind, addr_reg)
    PROVE  wel' \in BOOLEAN /\ busy'.op \in {"none", "erase", "write"} /\ busy'.at \in Addr
<1>1. CASE op_kind = "wren"
  BY <1>1 DEF SpiTypeOK, Selected
<1>2. CASE op_kind \in {"erase", "write"} /\ wel /\ Idle
  <2>1. busy' = [op |-> op_kind, at |-> addr_reg] /\ wel' = wel
    BY <1>2 DEF Selected
  <2> QED BY <1>2, <2>1 DEF SpiTypeOK
<1>3. CASE op_kind # "wren" /\ ~(op_kind \in {"erase", "write"} /\ wel /\ Idle)
  BY <1>3 DEF SpiTypeOK, Selected
<1> QED BY <1>1, <1>2, <1>3

LEMMA ByteToChip ==
    ASSUME Inv, ByteValid
    PROVE  raddr_q' \in Addr /\ Miso \in Byte /\ page' \in Seq(Byte) /\ Len(page') <= PAGE
<1>1. raddr_q \in Addr /\ page \in Seq(Byte) /\ mosi \in Byte /\ flash \in [Addr -> Byte]
  BY DEF Inv, TypeOK, SpiTypeOK
<1>2. raddr_q' = (raddr_q + 1) % SIZE
  BY DEF ByteValid
<1>3. raddr_q' \in Addr
  BY <1>1, <1>2, Constants DEF Addr
<1>4. Miso \in Byte
  BY <1>1, Constants DEF Miso, Status, Byte, Ones, WIP, WEL
<1>5. CASE op_kind = "write" /\ heard
  <2>1. page' = Append(page, mosi) /\ state = "S_SHIFT"
    BY <1>5 DEF ByteValid
  <2>2. pc = "byte_dv" /\ at = "program"
    BY <1>5, <2>1 DEF Inv, ControlInv, PC, TypeOK, Resting
  <2>3. sent \in 1 .. Len(Chunk) /\ Len(page) < sent /\ unit \in Nat /\ unit * PAGE < LEN
    BY <1>5, <2>1, <2>2 DEF Inv, UnitInv
  <2>4. Len(Chunk) \in 1 .. PAGE
    BY <2>3, ChunkType DEF Inv, TypeOK
  <2>5. page' \in Seq(Byte) /\ Len(page') = Len(page) + 1 /\ Len(page) \in Nat
    BY <1>1, <2>1
  <2> QED BY <1>3, <1>4, <2>3, <2>4, <2>5, Constants
<1>6. CASE ~(op_kind = "write" /\ heard)
  BY <1>3, <1>4, <1>6 DEF ByteValid, Inv, TypeOK, SpiTypeOK
<1> QED BY <1>5, <1>6

LEMMA SpiKept ==
    ASSUME Inv, [Next]_vars
    PROVE  SpiTypeOK'
<1> USE DEF Inv, TypeOK, SpiTypeOK, Resting, chipVars, wireVars, slotVars, regVars, spiVars, progVars
<1>0. 0 \in Addr
  BY Constants DEF Addr
<1>1. CASE FastRead
  <2>1. pc \notin {"idle"} /\ at \notin Resting /\ Len(got) < ToRead /\ Len(got) \in Nat
    BY <1>1 DEF FastRead, ControlInv, UnitInv
  <2>2. From + Len(got) \in Addr
    BY <2>1, ReadRange
  <2> QED BY <1>1, <1>0, <2>2 DEF FastRead, Reset
<1>2. CASE ReadByte
  BY <1>2 DEF ReadByte, Consume
<1>3. CASE ReadStop
  BY <1>3 DEF ReadStop, Level
<1>4. CASE ReadNext
  BY <1>4 DEF ReadNext
<1>5. CASE ProgramReset
  BY <1>5, <1>0 DEF ProgramReset, Reset
<1>6. CASE Wren
  BY <1>6, <1>0 DEF Wren, Pulse
<1>7. CASE Erase
  <2>1. Target \in Addr
    BY <1>7, EraseTarget DEF Erase, UnitInv
  <2> QED BY <1>7, <2>1 DEF Erase, Pulse
<1>8. CASE ProgramFirst
  <2>1. Target \in Addr /\ Chunk[1] \in Byte
    BY <1>8, ProgramTarget, ChunkType DEF ProgramFirst, UnitInv
  <2> QED BY <1>8, <2>1 DEF ProgramFirst, Level
<1>9. CASE ProgramByte
  <2>1. at = "program" /\ sent \in Nat /\ sent < Len(Chunk) /\ Chunk \in Seq(Byte)
    BY <1>9, ChunkType DEF ProgramByte, UnitInv, ControlInv
  <2>2. Chunk[sent + 1] \in Byte
    BY <2>1
  <2> QED BY <1>9, <2>2 DEF ProgramByte
<1>10. CASE Shift
  BY <1>10 DEF Shift, ShiftBytes
<1>11. CASE ProgramStop
  BY <1>11 DEF ProgramStop, Level
<1>12. CASE OpIdle
  BY <1>12 DEF OpIdle
<1>13. CASE ReadStatus
  BY <1>13, <1>0 DEF ReadStatus, Pulse
<1>14. CASE StatusByte
  BY <1>14 DEF StatusByte, Consume
<1>15. CASE PollWip
  BY <1>15 DEF PollWip
<1>16. CASE Page0Read
  BY <1>16 DEF Page0Read, Read, GoTo, GoOn
<1>17. CASE Slot1Read
  BY <1>17 DEF Slot1Read, Read, GoTo, GoOn, Ends
<1>18. CASE EraseVerified
  BY <1>18 DEF EraseVerified, Read, GoTo, GoOn, Ends
<1>19. CASE PageVerified
  BY <1>19 DEF PageVerified, Read, GoTo, GoOn, Ends
<1>20. CASE ReadBack
  BY <1>20 DEF ReadBack, Read, GoOn, Ends
<1>21. CASE Start /\ Unmoved
  BY <1>21 DEF Start, Unmoved
<1>22. CASE Command /\ Unmoved
  <2>1. page' = page \/ page' = <<>>
    BY <1>22 DEF Command
  <2>2. CASE page' = page
    BY <1>22, <2>2, SelectedType DEF Command, Unmoved
  <2>3. CASE page' = <<>>
    <3>1. page' \in Seq(Byte) /\ Len(page') <= PAGE
      BY <2>3, Constants
    <3> QED BY <1>22, <3>1, SelectedType DEF Command, Unmoved
  <2> QED BY <2>1, <2>2, <2>3
<1>23. CASE ByteValid /\ Unmoved
  BY <1>23, ByteToChip DEF ByteValid, Unmoved
<1>24. CASE Settle /\ Unmoved
  BY <1>24 DEF Settle, Unmoved
<1>25. CASE Pause /\ Unmoved
  BY <1>25, SelectedType DEF Pause, Unmoved
<1>26. CASE TailEnds /\ Unmoved
  BY <1>26 DEF TailEnds, Unmoved
<1>27. CASE Work /\ Unmoved
  <2>1. Finished \in [Addr -> Byte]
    BY <1>27, FinishedType DEF Work, ChipInv
  <2>2. flash' \in [Addr -> Byte] /\ faults' \in 0 .. FAULTS
    BY <1>27, <2>1, Constants DEF Work
  <2>3. page' \in Seq(Byte) /\ Len(page') <= PAGE
    BY <1>27, Constants DEF Work
  <2> QED BY <1>27, <1>0, <2>2, <2>3 DEF Work, Unmoved, NotBusy
<1>28. CASE Begin
  BY <1>28 DEF Begin, Prompted, GoTo, GoOn, Ends
<1>29. CASE PowerCycle
  <2>1. ~Idle => Finished \in [Addr -> Byte]
    BY FinishedType DEF ChipInv
  <2>2. flash' \in [Addr -> Byte]
    BY <1>29, <2>1 DEF PowerCycle
  <2>3. page' \in Seq(Byte) /\ Len(page') <= PAGE /\ {} \in Byte
    BY <1>29, Constants DEF PowerCycle, Byte
  <2> QED BY <1>29, <1>0, <2>2, <2>3 DEF PowerCycle, NotBusy
<1>30. CASE Promote
  <2>1. \A x \in Addr : x < LEN => EPCS_TPU_BASE + x \in Addr
    BY Constants DEF Addr
  <2>2. flash' \in [Addr -> Byte]
    BY <1>30, <2>1 DEF Promote
  <2> QED BY <1>30, <2>2 DEF Promote
<1>31. CASE UNCHANGED vars
  BY <1>31 DEF vars
<1> QED
  BY <1>1, <1>2, <1>3, <1>4, <1>5, <1>6, <1>7, <1>8, <1>9, <1>10, <1>11, <1>12, <1>13,
     <1>14, <1>15, <1>16, <1>17, <1>18, <1>19, <1>20, <1>21, <1>22, <1>23, <1>24, <1>25,
     <1>26, <1>27, <1>28, <1>29, <1>30, <1>31
  DEF Next, Firmware, Controller, Fsm, Chip, Unmoved

\* The first unit, and the one after the unit under way.
LEMMA NextUnit ==
    /\ UpTo(LEN, PAGE) \in Nat /\ 0 \in 0 .. UpTo(LEN, PAGE) - 1
    /\ unit \in Nat /\ at = "erase" /\ unit * SECTOR < LEN /\ ~LastUnit =>
          unit + 1 \in 0 .. UpTo(LEN, PAGE) - 1 /\ (unit + 1) * SECTOR < LEN
    /\ unit \in Nat /\ at = "program" /\ unit * PAGE < LEN /\ ~LastUnit =>
          unit + 1 \in 0 .. UpTo(LEN, PAGE) - 1 /\ (unit + 1) * PAGE < LEN
<1>1. UpTo(LEN, PAGE) \in Nat /\ 0 \in 0 .. UpTo(LEN, PAGE) - 1
  <2>1. UpTo(LEN, PAGE) \in Nat /\ (0 < UpTo(LEN, PAGE) <=> 0 * PAGE < LEN)
    BY UpToSpec, Constants
  <2> QED BY <2>1, Constants
<1>2. ASSUME NEW u \in Nat, (u + 1) * PAGE < LEN
      PROVE  u + 1 \in 0 .. UpTo(LEN, PAGE) - 1
  <2>1. u + 1 < UpTo(LEN, PAGE)
    BY <1>2, UpToSpec, Constants
  <2> QED BY <1>1, <2>1
<1>3. ASSUME unit \in Nat, NEW size \in Nat, size > 0, unit * size < LEN, unit + 1 # UpTo(LEN, size)
      PROVE  (unit + 1) * size < LEN
  <2>1. unit < UpTo(LEN, size) /\ UpTo(LEN, size) \in Nat
    BY <1>3, UpToSpec, Constants
  <2>2. unit + 1 < UpTo(LEN, size)
    BY <1>3, <2>1
  <2> QED BY <1>3, <2>2, UpToSpec, Constants
<1>4. ASSUME unit \in Nat, at = "erase", unit * SECTOR < LEN, ~LastUnit
      PROVE  unit + 1 \in 0 .. UpTo(LEN, PAGE) - 1 /\ (unit + 1) * SECTOR < LEN
  <2>1. (unit + 1) * SECTOR < LEN
    BY <1>3, <1>4, Constants DEF LastUnit, Size
  <2>2. (unit + 1) * PAGE <= (unit + 1) * SECTOR
    <3>1. PICK k \in Nat : SECTOR = PAGE + k
      <4>1. SECTOR - PAGE \in Nat /\ SECTOR = PAGE + (SECTOR - PAGE)
        BY PageDivides, Constants
      <4> QED BY <4>1
    <3>2. (unit + 1) * SECTOR = (unit + 1) * PAGE + (unit + 1) * k /\ (unit + 1) * k \in Nat
      BY <1>4, <3>1, Constants
    <3> QED BY <1>4, <3>2, Constants
  <2>3. (unit + 1) * PAGE < LEN
    BY <1>4, <2>1, <2>2, Constants
  <2> QED BY <1>2, <1>4, <2>1, <2>3
<1>5. ASSUME unit \in Nat, at = "program", unit * PAGE < LEN, ~LastUnit
      PROVE  unit + 1 \in 0 .. UpTo(LEN, PAGE) - 1 /\ (unit + 1) * PAGE < LEN
  <2>1. (unit + 1) * PAGE < LEN
    BY <1>3, <1>5, Constants DEF LastUnit, Size
  <2> QED BY <1>2, <1>5, <2>1
<1> QED BY <1>1, <1>4, <1>5

\* What has been read of an image is one when it is as long.
LEMMA GotImage ==
    ASSUME Inv, Read, at \in {"page0", "slot1", "readback"}
    PROVE  got \in [1 .. LEN -> Byte] /\ From \in {0, EPCS_TPU_BASE} /\ got = Slot(From)
<1>1. got \in Seq(Byte) /\ Len(got) = LEN /\ From \in {0, EPCS_TPU_BASE}
      /\ \A x \in 1 .. LEN : got[x] = flash[From + x - 1]
  BY DEF Inv, TypeOK, ReadInv, Read, ToRead, From
<1>2. got \in [1 .. LEN -> Byte]
  BY <1>1
<1>3. \A x \in 1 .. LEN : got[x] = Slot(From)[x]
  BY <1>1 DEF Slot
<1>4. got = [x \in 1 .. LEN |-> got[x]]
  BY <1>2
<1>5. Slot(From) = [x \in 1 .. LEN |-> Slot(From)[x]]
  BY DEF Slot
<1> QED BY <1>1, <1>2, <1>3, <1>4, <1>5

\* Where the mode goes on.
LEMMA GoesTo ==
    /\ GoTo("erase") <=> GoOn("erase", "wren", 0)
    /\ GoTo("program") <=> GoOn("program", "reset", 0)
    /\ \A where \in {"page0", "slot1", "readback"} : GoTo(where) <=> GoOn(where, "fast_read", 0)
BY DEF GoTo

LEMMA GoOnType ==
    ASSUME SpiTypeOK', NEW where, NEW first, NEW u \in 0 .. UpTo(LEN, PAGE) - 1, GoOn(where, first, u),
           where \in Resting \cup {"page0", "slot1", "erase", "program", "readback"},
           (where \in Resting) = (first = "idle"),
           mode' \in {"t", "H"}, runs' \in 0 .. RUNS, image' \in [1 .. LEN -> Byte]
    PROVE  TypeOK'
<1>1. 0 \in 0 .. PAGE /\ 0 \in 0 .. WIP_LIMIT - 1 /\ <<>> \in Seq(Byte) /\ Len(<<>>) <= LEN
  BY Constants
<1> QED BY <1>1 DEF GoOn, TypeOK, Resting

LEMMA TypeKept ==
    ASSUME Inv, [Next]_vars
    PROVE  TypeOK'
<1> USE DEF Inv, TypeOK, Resting, chipVars, wireVars, slotVars, regVars, spiVars, progVars
<1>0. SpiTypeOK'
  BY SpiKept
<1>z. /\ 0 \in 0 .. UpTo(LEN, PAGE) - 1 /\ 0 \in 0 .. PAGE /\ 0 \in 0 .. WIP_LIMIT - 1
      /\ <<>> \in Seq(Byte) /\ Len(<<>>) <= LEN
  BY NextUnit, Constants
<1>1. CASE FastRead
  BY <1>1, <1>0, <1>z DEF FastRead, Reset
<1>2. CASE ReadByte
  <2>1. at \notin Resting /\ Len(got) < ToRead /\ got \in Seq(Byte) /\ latched_dataout \in Byte
    BY <1>2 DEF ReadByte, UnitInv, SpiTypeOK
  <2>2. ToRead \in Nat /\ ToRead <= LEN
    BY <2>1, ReadRange
  <2>3. got' \in Seq(Byte) /\ Len(got') = Len(got) + 1 /\ Len(got) \in Nat
    BY <1>2, <2>1 DEF ReadByte
  <2>4. Len(got') <= LEN
    BY <2>1, <2>2, <2>3, Constants
  <2> QED BY <1>2, <1>0, <2>3, <2>4 DEF ReadByte
<1>3. CASE ReadStop
  BY <1>3, <1>0, <1>z DEF ReadStop, Level
<1>4. CASE ReadNext
  BY <1>4, <1>0, <1>z DEF ReadNext
<1>5. CASE ProgramReset
  BY <1>5, <1>0, <1>z DEF ProgramReset, Reset
<1>6. CASE Wren
  BY <1>6, <1>0, <1>z DEF Wren, Pulse
<1>7. CASE Erase
  BY <1>7, <1>0, <1>z DEF Erase, Pulse
<1>8. CASE ProgramFirst
  <2>1. sent' \in 0 .. PAGE
    BY <1>8, Constants DEF ProgramFirst
  <2> QED BY <1>8, <1>0, <2>1 DEF ProgramFirst
<1>9. CASE ProgramByte
  BY <1>9, <1>0, <1>z DEF ProgramByte
<1>10. CASE Shift
  <2>1. at = "program" /\ sent \in Nat /\ sent < Len(Chunk) /\ unit \in Nat /\ unit * PAGE < LEN
    BY <1>10 DEF Shift, UnitInv, ControlInv
  <2>2. sent + 1 \in 0 .. PAGE
    BY <2>1, ChunkType, Constants
  <2> QED BY <1>10, <1>0, <2>2 DEF Shift
<1>11. CASE ProgramStop
  BY <1>11, <1>0, <1>z DEF ProgramStop, Level
<1>12. CASE OpIdle
  BY <1>12, <1>0, <1>z DEF OpIdle
<1>13. CASE ReadStatus
  BY <1>13, <1>0, <1>z DEF ReadStatus, Pulse
<1>14. CASE StatusByte
  <2>1. latched_dataout \in Byte
    BY DEF SpiTypeOK
  <2>2. got' \in Seq(Byte) /\ Len(got') = 1
    BY <1>14, <2>1 DEF StatusByte
  <2> QED BY <1>14, <1>0, <2>2, Constants DEF StatusByte
<1>15. CASE PollWip
  <2>1. polls' \in 0 .. WIP_LIMIT - 1
    BY <1>15, <1>z, Constants DEF PollWip, Polled
  <2>2. got' \in Seq(Byte) /\ Len(got') <= LEN
    BY <1>15, <1>z DEF PollWip
  <2>3. at' \in {at, "halt"} /\ mode' = mode /\ runs' = runs /\ image' = image
        /\ unit' \in {unit, 0} /\ sent' \in {sent, 0}
        /\ (at' \in Resting) = (pc' = "idle")
    BY <1>15 DEF PollWip
  <2> QED BY <1>0, <1>z, <2>1, <2>2, <2>3
<1>16. CASE Page0Read
  <2>1. Surgery(got) \in [1 .. LEN -> Byte]
    BY <1>16, GotImage, SurgeryType DEF Page0Read
  <2> QED BY <1>16, <1>0, <1>z, <2>1 DEF Page0Read, GoTo, GoOn
<1>17. CASE Slot1Read
  <2>1. GoOn("staged", "idle", 0) \/ GoOn("erase", "wren", 0)
    BY <1>17, GoesTo DEF Slot1Read, Ends
  <2> QED BY <1>17, <1>0, <1>z, <2>1, GoOnType DEF Slot1Read
<1>18. CASE EraseVerified
  <2>1. ~LastUnit => unit + 1 \in 0 .. UpTo(LEN, PAGE) - 1
    BY <1>18, NextUnit DEF EraseVerified, UnitInv
  <2>2. GoOn("halt", "idle", 0) \/ GoOn("program", "reset", 0)
        \/ (GoOn("erase", "wren", unit + 1) /\ ~LastUnit)
    BY <1>18, GoesTo DEF EraseVerified, Ends
  <2> QED BY <1>18, <1>0, <1>z, <2>1, <2>2, GoOnType DEF EraseVerified
<1>19. CASE PageVerified
  <2>1. ~LastUnit => unit + 1 \in 0 .. UpTo(LEN, PAGE) - 1
    BY <1>19, NextUnit DEF PageVerified, UnitInv
  <2>2. GoOn("halt", "idle", 0) \/ GoOn("readback", "fast_read", 0)
        \/ (GoOn("program", "reset", unit + 1) /\ ~LastUnit)
    BY <1>19, GoesTo DEF PageVerified, Ends
  <2> QED BY <1>19, <1>0, <1>z, <2>1, <2>2, GoOnType DEF PageVerified
<1>20. CASE ReadBack
  BY <1>20, <1>0, <1>z DEF ReadBack, Read, GoOn, Ends
<1>21. CASE Start /\ Unmoved
  BY <1>21, <1>0, <1>z DEF Start, Unmoved
<1>22. CASE Command /\ Unmoved
  BY <1>22, <1>0, <1>z DEF Command, Unmoved, Selected
<1>23. CASE ByteValid /\ Unmoved
  BY <1>23, <1>0, <1>z DEF ByteValid, Unmoved
<1>24. CASE Settle /\ Unmoved
  BY <1>24, <1>0, <1>z DEF Settle, Unmoved
<1>25. CASE Pause /\ Unmoved
  BY <1>25, <1>0, <1>z DEF Pause, Unmoved, Selected
<1>26. CASE TailEnds /\ Unmoved
  BY <1>26, <1>0, <1>z DEF TailEnds, Unmoved
<1>27. CASE Work /\ Unmoved
  BY <1>27, <1>0, <1>z DEF Work, Unmoved
<1>28. CASE Begin
  <2>1. runs' \in 0 .. RUNS /\ Source \in [1 .. LEN -> Byte]
    BY <1>28, StagingAssumption, Constants DEF Begin
  <2>2. mode' \in {"t", "H"} /\ image' \in [1 .. LEN -> Byte]
        /\ (GoOn("slot1", "fast_read", 0) \/ GoOn("page0", "fast_read", 0))
    BY <1>28, <2>1, GoesTo DEF Begin
  <2> QED BY <1>0, <1>z, <2>1, <2>2, GoOnType
<1>29. CASE PowerCycle
  <2>1. Source \in [1 .. LEN -> Byte]
    BY StagingAssumption
  <2> QED BY <1>29, <1>0, <1>z, <2>1 DEF PowerCycle, GoOn, Ends
<1>30. CASE Promote
  BY <1>30, <1>0, <1>z DEF Promote, GoOn, Ends
<1>31. CASE UNCHANGED vars
  BY <1>31, <1>0 DEF vars
<1> QED
  BY <1>1, <1>2, <1>3, <1>4, <1>5, <1>6, <1>7, <1>8, <1>9, <1>10, <1>11, <1>12, <1>13,
     <1>14, <1>15, <1>16, <1>17, <1>18, <1>19, <1>20, <1>21, <1>22, <1>23, <1>24, <1>25,
     <1>26, <1>27, <1>28, <1>29, <1>30, <1>31
  DEF Next, Firmware, Controller, Fsm, Chip, Unmoved
-----------------------------------------------------------------------------
(***************************************************************************)
(* The units of the image.                                                 *)
(***************************************************************************)
LEMMA Same ==
    ASSUME UNCHANGED <<at, unit, image>>
    PROVE  Target' = Target /\ Chunk' = Chunk /\ ToRead' = ToRead /\ From' = From
<1>1. Target' = Target /\ Chunk' = Chunk
  BY DEF Target, Size, Chunk
<1> QED BY <1>1 DEF ToRead, From

\* A mode that goes on leaves the unit inside the image, and has read nothing.
LEMMA GoOnUnit ==
    ASSUME NEW where, NEW first, NEW u \in Nat, GoOn(where, first, u),
           where = "erase" => u * SECTOR < LEN /\ first = "wren",
           where = "program" => u * PAGE < LEN /\ first = "reset",
           where \in {"page0", "slot1", "readback"} => first = "fast_read",
           where \in Resting => first = "idle",
           where \in Resting \cup {"page0", "slot1", "erase", "program", "readback"}
    PROVE  UnitInv'
<1>1. at' = where /\ pc' = first /\ unit' = u /\ sent' = 0 /\ Len(got') = 0
  BY DEF GoOn
<1>2. where \in {"page0", "slot1", "readback"} => ToRead' = LEN
  BY <1>1 DEF ToRead
<1> QED BY <1>1, <1>2, Constants DEF UnitInv, Resting

LEMMA UnitKept ==
    ASSUME Inv, [Next]_vars
    PROVE  UnitInv'
<1> USE DEF Inv, UnitInv, chipVars, wireVars, slotVars, regVars, spiVars, progVars
<1>t. unit' \in Nat /\ sent' \in Nat /\ got \in Seq(Byte) /\ page \in Seq(Byte)
      /\ TypeOK /\ ControlInv /\ Len(got) \in Nat /\ Len(page) \in Nat
  <2>1. TypeOK' /\ UpTo(LEN, PAGE)' = UpTo(LEN, PAGE) /\ UpTo(LEN, PAGE) \in Nat
    BY TypeKept, NextUnit DEF UpTo
  <2>2. unit' \in Nat /\ sent' \in Nat
    BY <2>1, Constants DEF TypeOK
  <2> QED BY <2>2 DEF TypeOK, SpiTypeOK
<1>0. UNCHANGED <<at, unit, image>> =>
          unit' \in Nat /\ sent' \in Nat /\ Chunk' = Chunk /\ ToRead' = ToRead
  BY <1>t, Same
<1>z. 0 * PAGE < LEN /\ 0 * SECTOR < LEN
  BY Constants
<1>1. CASE FastRead
  BY <1>1, <1>0 DEF FastRead, Reset
<1>2. CASE ReadByte
  <2>1. at \notin Resting /\ Len(got) < ToRead
    BY <1>2, <1>t DEF ReadByte, TypeOK
  <2>2. ToRead \in Nat /\ Len(got') = Len(got) + 1
    BY <1>2, <1>t, <2>1, ReadRange DEF ReadByte
  <2>3. Len(got') <= ToRead
    BY <1>t, <2>1, <2>2
  <2> QED BY <1>2, <1>0, <2>3 DEF ReadByte
<1>3. CASE ReadStop
  BY <1>3, <1>0 DEF ReadStop, Level
<1>4. CASE ReadNext
  BY <1>4, <1>0 DEF ReadNext
<1>5. CASE ProgramReset
  BY <1>5, <1>0 DEF ProgramReset, Reset
<1>6. CASE Wren
  BY <1>6, <1>0 DEF Wren, Pulse
<1>7. CASE Erase
  <2>1. Target >= EPCS_TPU_BASE
    BY <1>7, EraseTarget DEF Erase
  <2> QED BY <1>7, <1>0, <2>1 DEF Erase
<1>8. CASE ProgramFirst
  <2>1. Target >= EPCS_TPU_BASE /\ Len(Chunk) \in 1 .. PAGE
    BY <1>8, <1>t, ProgramTarget, ChunkType DEF ProgramFirst, TypeOK
  <2>2. UNCHANGED <<at, unit, image, state, heard, page, got>> /\ pc' = "byte_dv" /\ sent' = 1
        /\ addr_reg' = Target /\ state = "S_IDLE" /\ at = "program"
    BY <1>8 DEF ProgramFirst, Level
  <2>3. Chunk' = Chunk /\ sent' \in 1 .. Len(Chunk) /\ unit' \in Nat /\ sent' \in Nat
    BY <1>0, <1>t, <2>1, <2>2, Constants
  <2> QED BY <2>1, <2>2, <2>3
<1>9. CASE ProgramByte
  <2>1. at = "program" /\ state \in {"settle", "S_PAUSE"}
    BY <1>9, <1>t DEF ProgramByte, ControlInv
  <2> QED BY <1>9, <1>0, <2>1 DEF ProgramByte
<1>10. CASE Shift
  <2>1. /\ UNCHANGED <<at, unit, image, got, page, heard, addr_reg>> /\ pc' = "byte_dv"
        /\ sent' = sent + 1 /\ state = "S_PAUSE" /\ state' = "S_SHIFT" /\ pc = "shift"
        /\ at = "program"
    BY <1>10, <1>t DEF Shift, ShiftBytes, ControlInv
  <2>2. Len(Chunk) \in 1 .. PAGE
    BY <1>t, <2>1, ChunkType DEF TypeOK
  <2>3. Chunk' = Chunk /\ sent' \in 1 .. Len(Chunk) /\ sent' \in Nat /\ unit' \in Nat
    BY <1>0, <2>1, <2>2, Constants
  <2>4. heard => Len(page) < sent'
    BY <1>t, <2>1
  <2> QED BY <2>1, <2>3, <2>4
<1>11. CASE ProgramStop
  <2>1. at = "program"
    BY <1>11, <1>t DEF ProgramStop, ControlInv
  <2> QED BY <1>11, <1>0, <2>1 DEF ProgramStop, Level
<1>12. CASE OpIdle
  BY <1>12, <1>0 DEF OpIdle
<1>13. CASE ReadStatus
  BY <1>13, <1>0 DEF ReadStatus, Pulse
<1>14. CASE StatusByte
  <2>1. Len(got') = 1
    BY <1>14 DEF StatusByte
  <2> QED BY <1>14, <1>0, <2>1 DEF StatusByte
<1>15. CASE PollWip
  <2>1. at \notin Resting
    BY <1>15, <1>t DEF PollWip, TypeOK
  <2>2. ToRead > 0 /\ Len(got') = 0
    BY <1>15, <1>t, <2>1, ReadRange DEF PollWip
  <2>3. CASE UNCHANGED <<at, progVars>> /\ pc' \in {"fast_read", "status"}
    BY <1>15, <1>0, <2>2, <2>3 DEF PollWip
  <2>4. CASE at' = "halt" /\ pc' = "idle"
    BY <1>t, <2>4
  <2> QED BY <1>15, <2>3, <2>4 DEF PollWip
<1>16. CASE Page0Read
  <2>1. GoOn("slot1", "fast_read", 0)
    BY <1>16, GoesTo DEF Page0Read
  <2> QED BY <2>1, GoOnUnit DEF Resting
<1>17. CASE Slot1Read
  <2>1. GoOn("staged", "idle", 0) \/ GoOn("erase", "wren", 0)
    BY <1>17, GoesTo DEF Slot1Read, Ends
  <2> QED BY <1>z, <2>1, GoOnUnit DEF Resting
<1>18. CASE EraseVerified
  <2>1. GoOn("halt", "idle", 0) \/ GoOn("program", "reset", 0)
        \/ (GoOn("erase", "wren", unit + 1) /\ ~LastUnit)
    BY <1>18, GoesTo DEF EraseVerified, Ends
  <2>2. ~LastUnit => unit + 1 \in Nat /\ (unit + 1) * SECTOR < LEN
    BY <1>18, NextUnit DEF EraseVerified
  <2> QED BY <1>z, <2>1, <2>2, GoOnUnit DEF Resting
<1>19. CASE PageVerified
  <2>1. GoOn("halt", "idle", 0) \/ GoOn("readback", "fast_read", 0)
        \/ (GoOn("program", "reset", unit + 1) /\ ~LastUnit)
    BY <1>19, GoesTo DEF PageVerified, Ends
  <2>2. ~LastUnit => unit + 1 \in Nat /\ (unit + 1) * PAGE < LEN
    BY <1>19, NextUnit DEF PageVerified
  <2> QED BY <1>z, <2>1, <2>2, GoOnUnit DEF Resting
<1>20. CASE ReadBack
  <2>1. GoOn("staged", "idle", 0) \/ GoOn("halt", "idle", 0)
    BY <1>20 DEF ReadBack, Ends
  <2> QED BY <2>1, GoOnUnit DEF Resting
<1>21. CASE Start /\ Unmoved
  BY <1>21, <1>0, <1>t DEF Start, Unmoved, ControlInv
<1>22. CASE Command /\ Unmoved
  <2>1. pc = "byte_dv" => op_kind = "write" /\ sent = 1
    BY <1>22, <1>t DEF Command, ControlInv
  <2>2. pc = "byte_dv" /\ heard' => Len(page') < sent
    <3>1. pc = "byte_dv" /\ heard' => page' = <<>>
      BY <1>22, <2>1 DEF Command
    <3>2. Len(<<>>) = 0
      OBVIOUS
    <3> QED BY <2>1, <3>1, <3>2
  <2>3. state' \in {"S_TAIL", "S_SHIFT"}
    BY <1>22 DEF Command
  <2> QED BY <1>22, <1>0, <2>1, <2>2, <2>3 DEF Command, Unmoved
<1>23. CASE ByteValid /\ Unmoved
  <2>1. page' \in {page, Append(page, mosi)} /\ Len(Append(page, mosi)) = Len(page) + 1
    BY <1>23, <1>t DEF ByteValid
  <2>2. pc \in {"byte_dv", "shift"} /\ heard => Len(page') <= sent
    BY <1>23, <1>t, <2>1 DEF ByteValid, ControlInv
  <2>3. state' \in {"S_TAIL", "settle"}
    BY <1>23 DEF ByteValid
  <2> QED BY <1>23, <1>0, <2>2, <2>3 DEF ByteValid, Unmoved
<1>24. CASE Settle /\ Unmoved
  BY <1>24, <1>0 DEF Settle, Unmoved
<1>25. CASE Pause /\ Unmoved
  <2>1. pc \notin {"byte_dv", "shift"}
    BY <1>25, <1>t DEF Pause, ControlInv
  <2> QED BY <1>25, <1>0, <2>1 DEF Pause, Unmoved
<1>26. CASE TailEnds /\ Unmoved
  BY <1>26, <1>0, <1>t DEF TailEnds, Unmoved, ControlInv
<1>27. CASE Work /\ Unmoved
  <2>1. Len(page') = 0
    BY <1>27 DEF Work
  <2> QED BY <1>27, <1>0, <1>t, <2>1 DEF Work, Unmoved
<1>28. CASE Begin
  <2>1. GoOn("slot1", "fast_read", 0) \/ GoOn("page0", "fast_read", 0)
    BY <1>28, GoesTo DEF Begin
  <2> QED BY <2>1, GoOnUnit DEF Resting
<1>29. CASE PowerCycle
  <2>1. GoOn("prompt", "idle", 0)
    BY <1>29 DEF PowerCycle, Ends
  <2> QED BY <2>1, GoOnUnit DEF Resting
<1>30. CASE Promote
  <2>1. GoOn("halt", "idle", 0)
    BY <1>30 DEF Promote, Ends
  <2> QED BY <2>1, GoOnUnit DEF Resting
<1>31. CASE UNCHANGED vars
  BY <1>31, <1>0 DEF vars
<1> QED
  BY <1>1, <1>2, <1>3, <1>4, <1>5, <1>6, <1>7, <1>8, <1>9, <1>10, <1>11, <1>12, <1>13,
     <1>14, <1>15, <1>16, <1>17, <1>18, <1>19, <1>20, <1>21, <1>22, <1>23, <1>24, <1>25,
     <1>26, <1>27, <1>28, <1>29, <1>30, <1>31
  DEF Next, Firmware, Controller, Fsm, Chip, Unmoved
-----------------------------------------------------------------------------
(***************************************************************************)
(* The chip: what it erases or programs, and when it rests.                *)
(***************************************************************************)
\* Only an erase and a program keep the chip busy: they begin in slot 1, at
\* the one register access that waits for them.
LEMMA BusySet ==
    ASSUME Inv, Fsm
    PROVE  \/ UNCHANGED busy
           \/ pc = "op_idle" /\ at \in {"erase", "program"} /\ busy'.at >= EPCS_TPU_BASE
<1>1. ControlInv /\ UnitInv /\ TypeOK
  BY DEF Inv
<1>2. ASSUME Selected(op_kind, addr_reg)
      PROVE  \/ UNCHANGED busy
             \/ op_kind \in {"erase", "write"} /\ busy'.at = addr_reg
  BY <1>2 DEF Selected
<1>3. CASE Command
  <2>1. UNCHANGED busy \/ (op_kind = "erase" /\ busy'.at = addr_reg /\ state = "command")
    BY <1>2, <1>3 DEF Command
  <2> QED BY <1>1, <2>1 DEF ControlInv, UnitInv, PC, TypeOK, Resting
<1>4. CASE Pause
  <2>1. UNCHANGED busy
        \/ (op_kind \in {"erase", "write"} /\ op_kind \notin ctrl /\ busy'.at = addr_reg
            /\ state = "S_PAUSE")
    BY <1>2, <1>4 DEF Pause
  <2> QED BY <1>1, <2>1 DEF ControlInv, UnitInv, PC, TypeOK, Resting
<1> QED BY <1>3, <1>4 DEF Fsm, Start, ByteValid, Settle, TailEnds, chipVars

\* Every other step leaves the chip alone or lets it come to rest.
LEMMA BusyElse ==
    ASSUME [Next]_vars
    PROVE  UNCHANGED busy \/ Idle' \/ (Fsm /\ Unmoved)
<1> USE DEF chipVars, spiVars
<1>1. CASE Firmware
  BY <1>1 DEF Firmware, FastRead, ReadByte, ReadStop, ReadNext, ProgramReset, Wren, Erase,
     ProgramFirst, ProgramByte, Shift, ProgramStop, OpIdle, ReadStatus, StatusByte, PollWip,
     Page0Read, Slot1Read, EraseVerified, PageVerified, ReadBack
<1>2. CASE Chip
  BY <1>2 DEF Chip, Work, Idle, NotBusy
<1>3. CASE PowerCycle
  BY <1>3 DEF PowerCycle, Idle, NotBusy
<1> QED BY <1>1, <1>2, <1>3 DEF Next, Controller, Unmoved, Begin, Promote, vars

LEMMA ChipKept ==
    ASSUME Inv, [Next]_vars
    PROVE  ChipInv'
BY BusySet, BusyElse DEF Inv, ChipInv, Idle, NotBusy

LEMMA RestKept ==
    ASSUME Inv, [Next]_vars
    PROVE  RestInv'
<1> USE DEF Inv, RestInv, Honest, chipVars, wireVars, slotVars, regVars, spiVars, progVars
<1>0. ControlInv /\ TypeOK /\ WIP \in Ones
  BY Constants DEF WIP, Ones
<1>b. /\ UNCHANGED busy \/ Idle' \/ (pc = "op_idle" /\ at \in {"erase", "program"} /\ Unmoved)
      /\ UNCHANGED busy => Idle' = Idle
  BY BusySet, BusyElse DEF Idle, NotBusy
<1>1. CASE FastRead
  BY <1>1, <1>0, <1>b DEF FastRead, Reset
<1>2. CASE ReadByte
  BY <1>2, <1>0, <1>b DEF ReadByte, Consume
<1>3. CASE ReadStop
  BY <1>3, <1>0, <1>b DEF ReadStop, Level
<1>4. CASE ReadNext
  BY <1>4, <1>0, <1>b DEF ReadNext
<1>5. CASE ProgramReset
  BY <1>5, <1>0, <1>b DEF ProgramReset, Reset
<1>6. CASE Wren
  BY <1>6, <1>0, <1>b DEF Wren, Pulse
<1>7. CASE Erase
  BY <1>7, <1>0, <1>b DEF Erase, Pulse
<1>8. CASE ProgramFirst
  BY <1>8, <1>0, <1>b DEF ProgramFirst, Level, ControlInv
<1>9. CASE ProgramByte
  BY <1>9, <1>0, <1>b DEF ProgramByte
<1>10. CASE Shift
  BY <1>10, <1>0, <1>b DEF Shift, ShiftBytes
<1>11. CASE ProgramStop
  BY <1>11, <1>0, <1>b DEF ProgramStop, Level
<1>12. CASE OpIdle
  BY <1>12, <1>0, <1>b DEF OpIdle
<1>13. CASE ReadStatus
  BY <1>13, <1>0, <1>b DEF ReadStatus, Pulse
<1>14. CASE StatusByte
  BY <1>14, <1>0, <1>b DEF StatusByte, Consume
<1>15. CASE PollWip
  BY <1>15, <1>0, <1>b DEF PollWip
<1>16. CASE Page0Read
  BY <1>16, <1>0, <1>b DEF Page0Read, Read, GoTo, GoOn
<1>17. CASE Slot1Read
  BY <1>17, <1>0, <1>b DEF Slot1Read, Read, GoTo, GoOn, Ends
<1>18. CASE EraseVerified
  BY <1>18, <1>0, <1>b DEF EraseVerified, Read, GoTo, GoOn, Ends
<1>19. CASE PageVerified
  BY <1>19, <1>0, <1>b DEF PageVerified, Read, GoTo, GoOn, Ends
<1>20. CASE ReadBack
  BY <1>20, <1>0, <1>b DEF ReadBack, Read, GoOn, Ends
<1>21. CASE Start /\ Unmoved
  BY <1>21, <1>0, <1>b DEF Start, Unmoved
<1>22. CASE Command /\ Unmoved
  BY <1>22, <1>0, <1>b DEF Command, Unmoved, Selected
<1>23. CASE ByteValid /\ Unmoved
  <2>1. UNCHANGED <<busy, at, pc, got>> /\ Idle' = Idle /\ state = "S_SHIFT"
        /\ latched_dataout' = IF dv THEN latched_dataout ELSE Miso
    BY <1>23, <1>b DEF ByteValid, Unmoved
  <2>2. op_kind = "write" => Miso = Ones
    BY DEF Miso
  <2>3. op_kind = "status" => WIP \in Miso \/ Idle
    BY DEF Miso, Status
  <2>4. pc \in {"status_dv", "status_idle"} => op_kind = "status"
    BY <1>0 DEF ControlInv
  <2>5. pc = "byte_dv" => op_kind = "write" /\ ~dv
    BY <1>0, <2>1 DEF ControlInv
  <2>6. pc \notin {"shift", "op_idle", "status"}
    BY <1>0, <2>1 DEF ControlInv, TypeOK, Resting
  <2> QED BY <1>0, <2>1, <2>2, <2>3, <2>4, <2>5, <2>6
<1>24. CASE Settle /\ Unmoved
  BY <1>24, <1>0, <1>b DEF Settle, Unmoved
<1>25. CASE Pause /\ Unmoved
  BY <1>25, <1>0, <1>b DEF Pause, Unmoved, Selected
<1>26. CASE TailEnds /\ Unmoved
  BY <1>26, <1>0, <1>b DEF TailEnds, Unmoved
<1>27. CASE Work /\ Unmoved
  BY <1>27, <1>0, <1>b DEF Work, Unmoved
<1>28. CASE Begin
  BY <1>28, <1>0, <1>b DEF Begin, Prompted, GoTo, GoOn, Ends
<1>29. CASE PowerCycle
  BY <1>29, <1>0, <1>b DEF PowerCycle, GoOn, Ends, Idle, NotBusy
<1>30. CASE Promote
  BY <1>30, <1>0, <1>b DEF Promote, GoOn, Ends
<1>31. CASE UNCHANGED vars
  BY <1>31, <1>b DEF vars
<1> QED
  BY <1>1, <1>2, <1>3, <1>4, <1>5, <1>6, <1>7, <1>8, <1>9, <1>10, <1>11, <1>12, <1>13,
     <1>14, <1>15, <1>16, <1>17, <1>18, <1>19, <1>20, <1>21, <1>22, <1>23, <1>24, <1>25,
     <1>26, <1>27, <1>28, <1>29, <1>30, <1>31
  DEF Next, Firmware, Controller, Fsm, Chip, Unmoved
-----------------------------------------------------------------------------
(***************************************************************************)
(* What is read.                                                           *)
(***************************************************************************)
LEMMA GoOnRead ==
    ASSUME NEW where, NEW first, NEW u, GoOn(where, first, u), first # "read_dv"
    PROVE  ReadInv'
<1>1. got' = <<>> /\ pc' # "read_dv"
  BY DEF GoOn
<1> QED BY <1>1 DEF ReadInv

LEMMA ReadKept ==
    ASSUME Inv, [Next]_vars
    PROVE  ReadInv'
<1> USE DEF Inv, ReadInv, chipVars, wireVars, slotVars, regVars, spiVars, progVars
<1>0. ControlInv /\ TypeOK /\ RestInv /\ got \in Seq(Byte) /\ Len(got) \in Nat
  BY DEF TypeOK
<1>s. UNCHANGED <<at, unit, image>> => From' = From
  BY Same
<1>1. CASE FastRead
  BY <1>1, <1>0, <1>s DEF FastRead, Reset
<1>2. CASE ReadByte
  <2> SUFFICES ASSUME at \in {"page0", "slot1", "readback"}
               PROVE  \A x \in 1 .. Len(got') : got'[x] = flash'[From' + x - 1]
    BY <1>2 DEF ReadByte
  <2>1. latched_dataout = flash[From + Len(got)] /\ From' = From /\ flash' = flash
    BY <1>2, <1>s DEF ReadByte
  <2>2. /\ Len(got') = Len(got) + 1 /\ got'[Len(got) + 1] = latched_dataout
        /\ \A x \in 1 .. Len(got) : got'[x] = got[x]
    BY <1>2, <1>0 DEF ReadByte, TypeOK, SpiTypeOK
  <2>3. From \in Int /\ From + (Len(got) + 1) - 1 = From + Len(got)
    BY <1>0, Constants DEF From
  <2>4. TAKE x \in 1 .. Len(got')
  <2>5. CASE x = Len(got) + 1
    BY <2>1, <2>2, <2>3, <2>5
  <2>6. CASE x # Len(got) + 1
    <3>1. x \in 1 .. Len(got)
      BY <1>0, <2>2, <2>6
    <3> QED BY <2>1, <2>2, <3>1
  <2> QED BY <2>5, <2>6
<1>3. CASE ReadStop
  BY <1>3, <1>0, <1>s DEF ReadStop, Level
<1>4. CASE ReadNext
  BY <1>4, <1>0, <1>s DEF ReadNext
<1>5. CASE ProgramReset
  BY <1>5, <1>0, <1>s DEF ProgramReset, Reset
<1>6. CASE Wren
  BY <1>6, <1>0, <1>s DEF Wren, Pulse
<1>7. CASE Erase
  BY <1>7, <1>0, <1>s DEF Erase, Pulse
<1>8. CASE ProgramFirst
  BY <1>8, <1>0, <1>s DEF ProgramFirst, Level
<1>9. CASE ProgramByte
  BY <1>9, <1>0, <1>s DEF ProgramByte
<1>10. CASE Shift
  BY <1>10, <1>0, <1>s DEF Shift, ShiftBytes
<1>11. CASE ProgramStop
  BY <1>11, <1>0, <1>s DEF ProgramStop, Level
<1>12. CASE OpIdle
  BY <1>12, <1>0, <1>s DEF OpIdle
<1>13. CASE ReadStatus
  BY <1>13, <1>0, <1>s DEF ReadStatus, Pulse
<1>14. CASE StatusByte
  <2>1. at \notin {"page0", "slot1", "readback"} /\ at' = at
    BY <1>14, <1>0 DEF StatusByte, ControlInv
  <2> QED BY <2>1
<1>15. CASE PollWip
  <2>1. got' = <<>> /\ pc' # "read_dv"
    BY <1>15 DEF PollWip
  <2> QED BY <2>1
<1>16. CASE Page0Read
  BY <1>16, GoesTo, GoOnRead DEF Page0Read
<1>17. CASE Slot1Read
  BY <1>17, GoesTo, GoOnRead DEF Slot1Read, Ends
<1>18. CASE EraseVerified
  BY <1>18, GoesTo, GoOnRead DEF EraseVerified, Ends
<1>19. CASE PageVerified
  BY <1>19, GoesTo, GoOnRead DEF PageVerified, Ends
<1>20. CASE ReadBack
  BY <1>20, GoOnRead DEF ReadBack, Ends
<1>21. CASE Start /\ Unmoved
  BY <1>21, <1>0, <1>s DEF Start, Unmoved
<1>22. CASE Command /\ Unmoved
  <2>1. at \in {"page0", "slot1", "readback"} => Idle
    BY <1>0 DEF RestInv
  <2>2. heard' = (Idle \/ op_kind = "status")
    BY <1>22 DEF Command
  <2> QED BY <1>22, <1>0, <1>s, <2>1, <2>2 DEF Command, Unmoved
<1>23. CASE ByteValid /\ Unmoved
  <2>1. pc = "read_dv" => op_kind = "read" /\ ~dv
    BY <1>23, <1>0 DEF ByteValid, ControlInv
  <2>2. at \in {"page0", "slot1", "readback"} /\ pc = "read_dv" => latched_dataout' = flash[addr_reg]
    BY <1>23, <2>1 DEF ByteValid, Miso
  <2>3. state' \in {"S_TAIL", "settle"}
    BY <1>23 DEF ByteValid
  <2> QED BY <1>23, <1>s, <2>2, <2>3 DEF ByteValid, Unmoved
<1>24. CASE Settle /\ Unmoved
  BY <1>24, <1>0, <1>s DEF Settle, Unmoved
<1>25. CASE Pause /\ Unmoved
  <2>1. at \in {"page0", "slot1", "readback"} => Idle
    BY <1>0 DEF RestInv
  <2>2. pc = "read_dv" => FALSE
    BY <1>25, <1>0 DEF Pause, ControlInv
  <2> QED BY <1>25, <1>s, <2>2 DEF Pause, Unmoved
<1>26. CASE TailEnds /\ Unmoved
  BY <1>26, <1>0, <1>s DEF TailEnds, Unmoved
<1>27. CASE Work /\ Unmoved
  <2>1. at' = at /\ at \notin {"page0", "slot1", "readback"}
    BY <1>27, <1>0 DEF Work, Unmoved, RestInv
  <2> QED BY <2>1
<1>28. CASE Begin
  BY <1>28, GoesTo, GoOnRead DEF Begin
<1>29. CASE PowerCycle
  BY <1>29, GoOnRead DEF PowerCycle, Ends
<1>30. CASE Promote
  BY <1>30, GoOnRead DEF Promote, Ends
<1>31. CASE UNCHANGED vars
  BY <1>31, <1>s DEF vars
<1> QED
  BY <1>1, <1>2, <1>3, <1>4, <1>5, <1>6, <1>7, <1>8, <1>9, <1>10, <1>11, <1>12, <1>13,
     <1>14, <1>15, <1>16, <1>17, <1>18, <1>19, <1>20, <1>21, <1>22, <1>23, <1>24, <1>25,
     <1>26, <1>27, <1>28, <1>29, <1>30, <1>31
  DEF Next, Firmware, Controller, Fsm, Chip, Unmoved
-----------------------------------------------------------------------------
(***************************************************************************)
(* Slot 0, and the image that is staged.                                   *)
(***************************************************************************)
LEMMA FlashSteps ==
    ASSUME Inv, [Next]_vars
    PROVE  UNCHANGED flash \/ ~Idle \/ PowerCycle \/ Promote
<1> USE DEF chipVars, spiVars
<1>1. CASE Firmware
  BY <1>1 DEF Firmware, FastRead, ReadByte, ReadStop, ReadNext, ProgramReset, Wren, Erase,
     ProgramFirst, ProgramByte, Shift, ProgramStop, OpIdle, ReadStatus, StatusByte, PollWip,
     Page0Read, Slot1Read, EraseVerified, PageVerified, ReadBack
<1>2. CASE Controller
  BY <1>2 DEF Controller, Fsm, Start, Command, ByteValid, Settle, Pause, TailEnds
<1> QED BY <1>1, <1>2 DEF Next, Chip, Work, Begin, vars

LEMMA Slot0Kept ==
    ASSUME Inv, [Next]_vars, ~Promote
    PROVE  Slot(0)' = Slot(0)
<1> SUFFICES \A x \in 1 .. LEN : flash'[0 + x - 1] = flash[0 + x - 1]
  BY DEF Slot
<1>1. \A x \in 1 .. LEN : 0 + x - 1 \in Addr /\ 0 + x - 1 < EPCS_TPU_BASE
  BY Constants DEF Addr
<1>2. SpiTypeOK
  BY DEF Inv, TypeOK
<1>3. ~Idle => \A x \in Addr : x < EPCS_TPU_BASE => Finished[x] = flash[x]
  BY <1>2, FinishedType DEF Inv, ChipInv
<1>4. CASE UNCHANGED flash
  BY <1>4
<1>5. CASE PowerCycle
  BY <1>1, <1>3, <1>5 DEF PowerCycle
<1>6. CASE Work
  <2>1. ~Idle
    BY <1>6 DEF Work
  <2>2. Finished \in [Addr -> Byte]
    BY <1>2, <2>1, FinishedType DEF Inv, ChipInv
  <2>3. flash' = Finished \/ \E y \in Addr : flash' = [Finished EXCEPT ![y] = flash[y]]
    BY <1>6 DEF Work
  <2> QED BY <1>1, <1>3, <2>1, <2>2, <2>3
<1>7. UNCHANGED flash \/ PowerCycle \/ Work
  <2>1. CASE Firmware
    BY <2>1 DEF Firmware, FastRead, ReadByte, ReadStop, ReadNext, ProgramReset, Wren, Erase,
       ProgramFirst, ProgramByte, Shift, ProgramStop, OpIdle, ReadStatus, StatusByte, PollWip,
       Page0Read, Slot1Read, EraseVerified, PageVerified, ReadBack, chipVars, spiVars
  <2>2. CASE Controller
    BY <2>2 DEF Controller, Fsm, Start, Command, ByteValid, Settle, Pause, TailEnds, chipVars
  <2> QED BY <2>1, <2>2 DEF Next, Chip, Begin, vars, spiVars, chipVars
<1> QED BY <1>4, <1>5, <1>6, <1>7

\* Slot 1 as it is copied to slot 0.
LEMMA Promoted ==
    ASSUME Inv, Promote
    PROVE  Slot(0)' = Surgery(Slot(0))
<1>1. /\ image = Surgery(Slot(0)) /\ image \in [1 .. LEN -> Byte]
      /\ \A x \in 1 .. LEN : flash[EPCS_TPU_BASE + x - 1] = image[x]
  BY DEF Inv, TypeOK, ImageInv, Promote
<1>2. ASSUME NEW x \in 1 .. LEN
      PROVE  flash'[0 + x - 1] = image[x]
  <2>1. 0 + x - 1 \in Addr /\ 0 + x - 1 < LEN /\ EPCS_TPU_BASE + (0 + x - 1) = EPCS_TPU_BASE + x - 1
    BY Constants DEF Addr
  <2>2. flash'[0 + x - 1] = flash[EPCS_TPU_BASE + (0 + x - 1)]
    BY <2>1 DEF Promote
  <2> QED BY <1>1, <2>1, <2>2
<1>3. Slot(0)' = [x \in 1 .. LEN |-> flash'[0 + x - 1]]
  BY DEF Slot
<1>4. image = [x \in 1 .. LEN |-> image[x]]
  BY <1>1
<1> QED BY <1>1, <1>2, <1>3, <1>4

LEMMA BootableKept ==
    ASSUME Inv, [Next]_vars
    PROVE  Bootable'
<1>1. Framed(Slot(0)) /\ Slot(0) \in [1 .. LEN -> Byte]
  BY SlotType DEF Inv, Bootable, Framed, TypeOK, SpiTypeOK
<1>2. Slot(0)' = Slot(0) \/ Slot(0)' = Surgery(Slot(0))
  BY Slot0Kept, Promoted
<1>3. Framed(Surgery(Slot(0)))
  BY <1>1, SurgeryFramed
<1>4. Framed(Slot(0)')
  BY <1>1, <1>2, <1>3
<1> QED BY <1>4 DEF Bootable, Framed

LEMMA ImageKept ==
    ASSUME Inv, [Next]_vars
    PROVE  ImageInv'
<1> USE DEF Inv, ImageInv, Resting, spiVars, progVars
<1>0. TypeOK /\ ControlInv /\ RestInv /\ image \in [1 .. LEN -> Byte]
  BY DEF TypeOK
<1>1. CASE Promote
  BY <1>1 DEF Promote, Ends, GoOn
<1>2. CASE PowerCycle
  BY <1>2 DEF PowerCycle, Ends, GoOn
<1>3. CASE ~Promote /\ ~PowerCycle
  <2>1. Slot(0)' = Slot(0)
    BY <1>3, Slot0Kept
  <2>2. UNCHANGED flash \/ ~Idle
    BY <1>3, FlashSteps
  <2>3. at = "staged" => UNCHANGED flash
    BY <1>0, <2>2 DEF RestInv
  <2>4. CASE UNCHANGED <<at, mode, image>>
    BY <2>1, <2>3, <2>4
  <2>5. CASE Begin
    BY <2>5 DEF Begin, Prompted, GoTo, GoOn
  <2>6. CASE PollWip
    <3>1. at \in {"erase", "program"} /\ at' \in {at, "halt"} /\ UNCHANGED <<mode, image>>
      BY <2>6, <1>0 DEF PollWip, ControlInv, TypeOK
    <3> QED BY <2>1, <3>1
  <2>7. CASE Page0Read
    <3>1. image' = Surgery(Slot(0)) /\ at' = "slot1" /\ mode' = mode
      BY <2>7, GotImage DEF Page0Read, GoTo, GoOn, From
    <3>2. mode # "t"
      BY <2>7 DEF Page0Read
    <3> QED BY <1>0, <2>1, <3>1, <3>2 DEF TypeOK
  <2>8. CASE Slot1Read
    <3>1. got = Slot(EPCS_TPU_BASE) /\ at = "slot1" /\ UNCHANGED <<flash, mode, image>>
      BY <2>8, GotImage DEF Slot1Read, From, chipVars
    <3>2. at' = "erase" \/ (at' = "staged" /\ got = image)
      BY <2>8 DEF Slot1Read, GoTo, GoOn, Ends
    <3>3. at' = "staged" => \A x \in 1 .. LEN : flash'[EPCS_TPU_BASE + x - 1] = image'[x]
      BY <3>1, <3>2 DEF Slot
    <3> QED BY <2>1, <3>1, <3>2, <3>3
  <2>9. CASE EraseVerified
    BY <2>1, <2>9 DEF EraseVerified, GoTo, GoOn, Ends
  <2>10. CASE PageVerified
    BY <2>1, <2>10 DEF PageVerified, GoTo, GoOn, Ends
  <2>11. CASE ReadBack
    <3>1. got = Slot(EPCS_TPU_BASE) /\ at = "readback" /\ UNCHANGED <<flash, mode, image>>
      BY <2>11, GotImage DEF ReadBack, From, chipVars
    <3>2. at' = "halt" \/ (at' = "staged" /\ got = image)
      BY <2>11 DEF ReadBack, GoOn, Ends
    <3>3. at' = "staged" => \A x \in 1 .. LEN : flash'[EPCS_TPU_BASE + x - 1] = image'[x]
      BY <3>1, <3>2 DEF Slot
    <3> QED BY <2>1, <3>1, <3>2, <3>3
  <2>12. \/ UNCHANGED <<at, mode, image>>
         \/ Begin \/ PollWip \/ Page0Read \/ Slot1Read \/ EraseVerified \/ PageVerified \/ ReadBack
    <3>1. CASE Firmware
      BY <3>1 DEF Firmware, FastRead, ReadByte, ReadStop, ReadNext, ProgramReset, Wren, Erase,
         ProgramFirst, ProgramByte, Shift, ProgramStop, OpIdle, ReadStatus, StatusByte
    <3> QED BY <1>3, <3>1 DEF Next, Controller, Chip, vars
  <2> QED
    BY <2>4, <2>5, <2>6, <2>7, <2>8, <2>9, <2>10, <2>11, <2>12
<1> QED BY <1>1, <1>2, <1>3
-----------------------------------------------------------------------------
(***************************************************************************)
(* The results.                                                            *)
(***************************************************************************)
LEMMA InitGivesInv == Init => Inv
<1> SUFFICES ASSUME Init PROVE Inv
  OBVIOUS
<1> USE DEF Init, SpiInit, NotBusy
<1>1. flash \in [Addr -> Byte] /\ Source \in [1 .. LEN -> Byte]
  BY StagingAssumption
<1>2. SpiTypeOK
  <2>1. page \in Seq(Byte) /\ Len(page) <= PAGE /\ {} \in Byte /\ 0 \in Addr
    BY Constants DEF Byte, Addr
  <2> QED BY <1>1, <2>1, Constants DEF SpiTypeOK
<1>3. TypeOK
  <2>1. got \in Seq(Byte) /\ Len(got) <= LEN /\ 0 \in 0 .. WIP_LIMIT - 1
    BY Constants
  <2> QED BY <1>1, <1>2, <2>1, NextUnit, Constants DEF TypeOK, Resting
<1>4. ControlInv
  BY DEF ControlInv, PC
<1>5. UnitInv
  BY DEF UnitInv
<1>6. ChipInv /\ RestInv /\ ReadInv /\ ImageInv
  BY DEF ChipInv, RestInv, ReadInv, ImageInv, Idle
<1>7. Bootable
  <2>1. Slot(0) = [x \in 1 .. LEN |-> flash[x - 1]]
    <3>1. \A x \in 1 .. LEN : 0 + x - 1 = x - 1
      OBVIOUS
    <3> QED BY <3>1 DEF Slot
  <2> QED BY <2>1, SlotAssumption DEF Bootable
<1> QED BY <1>3, <1>4, <1>5, <1>6, <1>7 DEF Inv

LEMMA StepKeepsInv == Inv /\ [Next]_vars => Inv'
<1> SUFFICES ASSUME Inv, [Next]_vars PROVE Inv'
  OBVIOUS
<1> QED
  BY TypeKept, ControlKept, UnitKept, ChipKept, RestKept, ReadKept, ImageKept, BootableKept
  DEF Inv

(* At every step of every behaviour the controller is where the register
   access to come expects it, slot 0 is out of reach and boots, and what has
   been read of a resting chip is what it holds (epcs.c,
   wb_altasmi_parallel.v, main.c of patch 0046).                            *)
THEOREM InvCorrect == Spec => []Inv
<1> QED BY InitGivesInv, StepKeepsInv, PTL DEF Spec

(* Every register, every counter of the firmware and every address given to
   the chip keeps to its range, for every size of image, page and sector
   (epcs.c, wb_altasmi_parallel.v).                                         *)
THEOREM TypeCorrect == Spec => []TypeOK
<1>1. Inv => TypeOK
  BY DEF Inv
<1> QED BY <1>1, InvCorrect, PTL

(* Whenever the power is cut and whatever is promoted, the frames of slot 0
   carry their CRC, for every edit and every layout of the frames (main.c of
   patch 0046, mode H, "Slot 0 remains safe throughout").                   *)
THEOREM AlwaysBootable == Spec => []Bootable
<1>1. Inv => Bootable
  BY DEF Inv
<1> QED BY <1>1, InvCorrect, PTL

(* The bytes that mode H is to stage are those of page 0 with the edit and
   the CRC of its frame.                                                    *)
LEMMA AskedIs ==
    ASSUME Inv, at = "staged", NEW x \in 1 .. LEN
    PROVE  image[x] = Asked(x)
<1>1. CASE mode = "t"
  BY <1>1 DEF Inv, ImageInv, Asked
<1>2. CASE mode # "t"
  <2> DEFINE page0 == BitRev(Slot(0))
             e == [y \in 1 .. LEN |->
                     CASE y = EDIT_AT -> Xor(page0[y], EDIT)
                       [] y - 1 = EDIT_AT -> CrcOf(Xor(page0[y - 1], EDIT))
                       [] OTHER -> page0[y]]
  <2>1. Slot(0) \in [1 .. LEN -> Byte]
    BY SlotType DEF Inv, TypeOK, SpiTypeOK
  <2>2. image = Surgery(Slot(0)) /\ image \in [1 .. LEN -> Byte]
    BY <1>2 DEF Inv, TypeOK, ImageInv
  <2>3. \A y \in 1 .. LEN : BitRev(image)[y] = e[y]
    BY <2>1, <2>2, SurgeryType
  <2>4. BitRev(image) = e
    <3>1. BitRev(image) = [y \in 1 .. LEN |-> BitRev(image)[y]]
      BY <2>2, BitRevType
    <3> QED BY <2>3, <3>1
  <2>5. BitRev(image) \in [1 .. LEN -> Byte] /\ BitRev(image)[x] = Rev(image[x]) /\ image[x] \in Byte
    BY <2>2, BitRevType
  <2>6. BitRev(e)[x] = Rev(Rev(image[x]))
    BY <2>4, <2>5, BitRevType
  <2>7. Asked(x) = BitRev(e)[x]
    BY <1>2 DEF Asked
  <2> QED BY <2>5, <2>6, <2>7, RevTwice
<1> QED BY <1>1, <1>2

(* An image reported staged is in slot 1, byte for byte, and the chip has
   come to rest, whatever faulty cells, earlier runs and power cuts came
   before (epcs.c, modes t and H).                                          *)
THEOREM AlwaysStagedRight == Spec => []StagedRight
<1>1. Inv => StagedRight
  <2> SUFFICES ASSUME Inv, at = "staged"
               PROVE  Idle /\ \A x \in 1 .. LEN : flash[EPCS_TPU_BASE + x - 1] = Asked(x)
    BY DEF StagedRight
  <2> QED BY AskedIs DEF Inv, RestInv, ImageInv
<1> QED BY <1>1, InvCorrect, PTL

(* No pulse is lost: an operation is started when the controller is idle, and
   a byte is shifted when S_PAUSE looks for it (epcs.c, epcs_wren_pulse to
   epcs_read_status; wb_altasmi_parallel.v).                                *)
THEOREM AlwaysTaken == Spec => PulsesTaken
<1>1. Inv /\ [Next]_vars =>
        [at' = at /\ pc' # pc =>
            /\ pc \in {"wren", "wren_idle", "status"} => state = "S_IDLE"
            /\ pc = "shift" => state = "S_PAUSE"]_vars
  <2> SUFFICES ASSUME Inv, [Next]_vars
               PROVE  at' = at /\ pc' # pc =>
                          /\ pc \in {"wren", "wren_idle", "status"} => state = "S_IDLE"
                          /\ pc = "shift" => state = "S_PAUSE"
    OBVIOUS
  <2> SUFFICES ASSUME at' = at, pc' # pc
               PROVE  /\ pc \in {"wren", "wren_idle", "status"} => state = "S_IDLE"
                      /\ pc = "shift" => state = "S_PAUSE"
    OBVIOUS
  <2>1. ControlInv
    BY DEF Inv
  <2>2. pc \in {"wren", "status"} => state = "S_IDLE"
    BY <2>1 DEF ControlInv
  <2>3. CASE pc \in {"wren_idle", "shift"}
    <3>1. ~Unmoved /\ ~UNCHANGED vars
      BY DEF Unmoved, vars
    <3>2. Erase \/ ProgramFirst \/ Shift \/ Begin \/ PowerCycle \/ Promote
      <4>1. CASE Firmware
        BY <2>3, <4>1 DEF Firmware, FastRead, ReadByte, ReadStop, ReadNext, ProgramReset, Wren,
           ProgramByte, ProgramStop, OpIdle, ReadStatus, StatusByte, PollWip, Page0Read,
           Slot1Read, EraseVerified, PageVerified, ReadBack, Read
      <4> QED BY <3>1, <4>1 DEF Next, Controller, Chip, Unmoved
    <3>3. ~Begin /\ ~PowerCycle /\ ~Promote
      BY <2>1, <2>3 DEF Begin, Prompted, GoTo, GoOn, PowerCycle, Promote, Ends
    <3> QED BY <2>1, <3>2, <3>3 DEF Erase, ProgramFirst, Shift, ControlInv
  <2> QED BY <2>2, <2>3
<1> QED BY <1>1, InvCorrect, PTL DEF Spec, PulsesTaken
=============================================================================
