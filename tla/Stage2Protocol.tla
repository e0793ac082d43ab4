--------------------------- MODULE Stage2Protocol ---------------------------
(***************************************************************************)
(* What a host keeps to in a session with the loader: the protocols that   *)
(* the comments of sd.c and main.c give for the modes, as an assumption    *)
(* on the constant Scripts of Stage2.  A session has a phase after each of *)
(* its steps: what the loader waits for, or has still to answer, when it   *)
(* has taken all that was sent.                                            *)
(***************************************************************************)
EXTENDS Stage2

Phase(at_, segs, lba, left, b, wrote) ==
    [at |-> at_, segs |-> segs, lba |-> lba, left |-> left, b |-> b, wrote |-> wrote]
Plain(label) == Phase(label, 0, 0, 0, Empty, {})
Prompt == Plain("prompt")
Listen == Plain("listen")
Lost == Plain("lost")           \* the step does not belong to the protocol
If(legal, phase) == IF legal THEN phase ELSE Lost

\* The steps of a script, as Send, SendBlock, Hear, HearDone and Rate build them.
Sends(s, is) == s.do = "send" /\ s.item = [is |-> is, val |-> s.item.val] /\ s.over = {}
Writes(s, lba) ==
    /\ s.do = "send" /\ s.item = DataIs(s.item.val) /\ s.over = {lba}
    /\ lba \in Lbas /\ s.item.val \in BlockValues
Hears(s, m) == s.do = "hear" /\ s.messages = {Is(m)} /\ s.done = {}
Confirms(s, m, lba, b) == s.do = "hear" /\ s.messages = {Is(m)} /\ s.done = {<<lba, b>>}
Listens(s) == s.do = "hear" /\ s.done = {} /\ Is("MW_DONE") \notin s.messages
Expects(s) == s.do = "hear" /\ Is("fail") \notin s.messages
Turns(s, b) == s.do = "rate" /\ s.baud = b

(***************************************************************************)
(* The payloads of mode l are a kernel, a device tree and an initramfs of  *)
(* one version, or the device tree is none: it has no sentinel, and ends   *)
(* before the initramfs.  An update that is finished has written a whole   *)
(* version, or wiped the header.                                           *)
(***************************************************************************)
Part(v, lba, bytes) == [i \in 1 .. Blocks(bytes) |-> <<v, lba + i - 1>>]
Parts(v) == <<Part(v, Layout[v].image_lba, Layout[v].image_sz),
              Part(v, Layout[v].dtb_lba, Layout[v].dtb_sz),
              Part(v, Layout[v].initrd_lba, Layout[v].initrd_sz)>>
Fit(loads) ==
    \/ \E v \in Versions : loads = Parts(v)
    \/ /\ loads[2] \in Seq(BlockValues) /\ loads[3] \in Seq(BlockValues) /\ Len(loads[2]) <= INITRD - DTB
       /\ \A i \in DOMAIN loads[2] : ~HasSentinel(loads[2][i])

Extent(v, lba, bytes) == {lba + i - 1 : i \in 1 .. Blocks(bytes)}
Blob(v) == {0} \cup Extent(v, Layout[v].image_lba, Layout[v].image_sz)
               \cup Extent(v, Layout[v].dtb_lba, Layout[v].dtb_sz)
               \cup Extent(v, Layout[v].initrd_lba, Layout[v].initrd_sz)
Complete(wrote) ==
    \/ \E v \in Versions : \A l \in Blob(v) : <<l, <<v, l>>>> \in wrote
    \/ \E w \in wrote : w[1] = 0 /\ ~HasMagic(w[2])

Known == {"W", "w", "d", "B", "R", "s", "b", "l", "u"}
Opened(m) ==
    CASE m = "W" -> "multiInit" [] m = "w" -> "testInit" [] m = "d" -> "dumpLba"
      [] m = "B" -> "baud"      [] m \in {"R", "s"} -> "reply"
      [] m \in {"b", "u"} -> "boot" [] m = "l" -> "load"

Kept(wrote, lba, b) == {w \in wrote : w[1] # lba} \cup {<<lba, b>>}

\* The host has heard that the block of phase p is on the card.
Confirmed(p) ==
    LET wrote == Kept(p.wrote, p.lba, p.b)
    IN  IF p.left > 1 THEN Phase("block", p.segs, p.lba + 1, p.left - 1, Empty, wrote)
        ELSE IF p.segs > 1 THEN Phase("segLba", p.segs - 1, 0, 0, Empty, wrote)
        ELSE Phase("done", 0, 0, 0, Empty, wrote)

After(p, s) ==
    CASE p.at = "prompt"     -> If(Sends(s, "mode") /\ s.item.val \in Known, Plain(Opened(s.item.val)))
      [] p.at = "multiInit"  -> If(Hears(s, "MW_READY"), Plain("multiCount"))
      [] p.at = "multiCount" -> If(Sends(s, "u32"), Phase("multiGo", s.item.val, 0, 0, Empty, {}))
      [] p.at = "multiGo"    -> If(Hears(s, "MW_GO"), Phase("segLba", p.segs, 0, 0, Empty, {}))
      [] p.at = "segLba"     -> If(Sends(s, "u32"), Phase("segCount", p.segs, s.item.val, 0, Empty, p.wrote))
      [] p.at = "segCount"   -> If(Sends(s, "u32"), Phase("block", p.segs, p.lba, s.item.val, Empty, p.wrote))
      [] p.at = "block"      -> IF p.left \in 1 .. MAX_SECS
                                THEN If(Writes(s, p.lba),
                                        Phase("written", p.segs, p.lba, p.left, s.item.val, p.wrote))
                                ELSE If(Expects(s), Listen)
      [] p.at = "written"    -> If(Confirms(s, "K", p.lba, p.b), Confirmed(p))
      [] p.at = "done"       -> If(Hears(s, "MW_DONE") /\ Complete(p.wrote), Listen)
      [] p.at = "testInit"   -> If(Hears(s, "SEND_512"), Plain("testData"))
      [] p.at = "testData"   -> If(Writes(s, TEST_LBA), Phase("testDone", 0, 0, 0, s.item.val, {}))
      [] p.at = "testDone"   -> If(Confirms(s, "WRITE_OK", TEST_LBA, p.b), Listen)
      [] p.at = "dumpLba"    -> If(Sends(s, "u32"), Plain("dumpCount"))
      [] p.at = "dumpCount"  -> If(Sends(s, "u32"), Plain("reply"))
      [] p.at = "baud"       -> If(Sends(s, "u32"), Phase("switch", 0, s.item.val, 0, Empty, {}))
      [] p.at = "switch"     -> If(Hears(s, "BAUD_SWITCH"), Phase("rate", 0, p.lba, 0, Empty, {}))
      [] p.at = "rate"       -> If(Turns(s, p.lba), Plain("probe"))
      [] p.at = "probe"      -> If(Sends(s, "probe"), Plain("probing"))
      [] p.at = "probing"    -> IF Sends(s, "probe") THEN p ELSE If(Listens(s), Listen)
      [] p.at \in {"reply", "listen"} -> If(Listens(s), Listen)
      [] p.at = "boot"       -> If(Sends(s, "payload"), Plain("boot"))
      [] p.at = "load"       -> LET loads == Append(p.b, s.item.val)
                                IN  If(/\ Sends(s, "payload") /\ Len(loads) <= 3
                                       /\ Len(loads) = 3 => Fit(loads),
                                       Phase("load", 0, 0, 0, loads, {}))
      [] OTHER               -> Lost

Phases(script_) ==
    FoldLeft(LAMBDA phases, s : Append(phases, After(phases[Len(phases)], s)), <<Prompt>>, script_)

\* Where a session may end: nothing that the loader is to answer is on its way.
Settled == {"listen", "boot", "load", "multiCount", "segLba", "testData"}

Keeps(script_, phases) ==
    /\ Len(script_) \in Nat /\ script_ = [i \in 1 .. Len(script_) |-> script_[i]]
    /\ phases[1] = Prompt
    /\ \A i \in DOMAIN script_ :
          phases[i + 1] = After(phases[i], script_[i]) /\ phases[i + 1] # Lost
    /\ phases[Len(script_) + 1].at \in Settled

ASSUME ProtocolAssumption == \A s \in Scripts : Keeps(s, Phases(s))

(***************************************************************************)
(* The counts and rates are numbers, the rate at power-on is one that mode *)
(* B would accept, and the card holds version 1 from the start.            *)
(***************************************************************************)
ASSUME ParameterAssumption ==
    /\ {MAX_SEGS, MAX_SECS, MAX_DUMP, NumBlocks, MIN_BAUD, MAX_BAUD, DEFAULT_BAUD} \subseteq Nat
    /\ {KERNEL, DTB, INITRD, MEM_END} \subseteq Nat /\ BLOCK \in Nat \ {0}
    /\ DEFAULT_BAUD \in MIN_BAUD .. MAX_BAUD /\ 1 \in Versions

(***************************************************************************)
(* A blob lies on the card, and its parts fit between the load addresses,  *)
(* with room behind the kernel for the code that mode l writes there.      *)
(* Nothing in the loader checks that.                                      *)
(***************************************************************************)
ASSUME LayoutAssumption ==
    \A v \in Versions :
        LET h == Layout[v]
        IN  /\ {h.image_sz, h.dtb_sz, h.initrd_sz, h.image_lba, h.dtb_lba, h.initrd_lba} \subseteq Nat
            /\ KERNEL + Blocks(h.image_sz) < DTB /\ DTB + Blocks(h.dtb_sz) <= INITRD
            /\ Blob(v) \subseteq Lbas

\* The block of the write test is part of no blob (sd.c, sd_write_test: "safe offset").
TestBlockFree == \A v \in Versions : TEST_LBA \notin Blob(v)
=============================================================================
