---------------------------- MODULE Stage2Proofs ----------------------------
(***************************************************************************)
(* Proofs about Stage2, for every set of sessions that keep to the         *)
(* protocol (Stage2Protocol).  The inductive invariant says how far the    *)
(* loader is behind the host, or the host behind the loader, in each phase *)
(* of a session.                                                           *)
(***************************************************************************)
EXTENDS Stage2Protocol, TLAPS, SequenceTheorems

TermLabels == {"bootInit", "bootHeader", "bootRead", "kernelLoad", "dtbLoad", "initrdLoad",
               "ubootLoad"} \cup Final
WriteLabels == {"multiCount", "segLba", "segCount", "block", "testData", "testRead"}
Prompts == {"first", "cmd"}
Labels == {"start", "smokeInit", "smokeRead", "readInit", "readHeader", "dumpLba", "dumpCount",
           "dumpInit", "dump", "testInit", "multiInit", "baud", "probe"}
          \cup Prompts \cup WriteLabels \cup TermLabels
Excused == Terminal \cup {"timeout", "none", "probe"}
JobFields == {"segs", "lba", "left", "kernel_size", "dtb_size"}

ModeItem(m) == [is |-> "mode", val |-> m]
U32(n) == [is |-> "u32", val |-> n]

\* The script is what is left of a session, and p its phase.
Follows(p, rest) ==
    \E s \in Scripts : \E i \in 1 .. Len(s) + 1 :
        rest = SubSeq(s, i, Len(s)) /\ p = Phases(s)[i]
-----------------------------------------------------------------------------
\* The loader has these items to take; it has said these messages; it has failed.
Awaits(label, items) == at = label /\ rx = items /\ tx = <<>>
AtPrompt(items) == at \in Prompts /\ rx = items /\ tx = <<>>
Answered(label, messages) == at = label /\ rx = <<>> /\ tx = messages
Refused == Answered("cmd", <<Is("fail")>>)
Idle == rx = <<>> /\ at \notin TermLabels
SameRate == hbaud = baud
Unacked(lba) == \A w \in acked : w[1] # lba
Job(p) == job.segs = p.segs
JobAt(p) == Job(p) /\ job.lba = p.lba
JobIn(p) == JobAt(p) /\ job.left = p.left

MultiOpening(p) ==
    /\ SameRate
    /\ \/ /\ p.at = "multiInit"
          /\ \/ AtPrompt(<<ModeItem("W")>>) \/ Awaits("multiInit", <<>>)
             \/ Answered("multiCount", <<Is("MW_READY")>>) \/ Refused
       \/ p.at = "multiCount" /\ Awaits("multiCount", <<>>)
       \/ /\ p.at = "multiGo"
          /\ \/ Awaits("multiCount", <<U32(p.segs)>>)
             \/ Answered("segLba", <<Is("MW_GO")>>) /\ Job(p)
             \/ Refused

MultiSegment(p) ==
    /\ SameRate
    /\ \/ p.at = "segLba" /\ Awaits("segLba", <<>>) /\ Job(p)
       \/ /\ p.at = "segCount"
          /\ \/ Awaits("segLba", <<U32(p.lba)>>) /\ Job(p)
             \/ Awaits("segCount", <<>>) /\ JobAt(p)
       \/ /\ p.at = "block"
          /\ \/ Awaits("segLba", <<U32(p.lba), U32(p.left)>>) /\ Job(p)
             \/ Awaits("segCount", <<U32(p.left)>>) /\ JobAt(p)
             \/ Awaits("block", <<>>) /\ JobIn(p)
             \/ p.left \notin 1 .. MAX_SECS /\ Refused
       \/ p.at = "done" /\ Answered("cmd", <<Is("MW_DONE")>>)

\* The block of p is on the card, and the loader waits for what comes after it.
Stored(p) ==
    /\ disk[p.lba] = p.b /\ loose = {}
    /\ \/ p.left > 1 /\ Answered("block", <<Is("K")>>)
          /\ job.segs = p.segs /\ job.lba = p.lba + 1 /\ job.left = p.left - 1
       \/ ~(p.left > 1) /\ p.segs > 1 /\ Answered("segLba", <<Is("K")>>) /\ job.segs = p.segs - 1
       \/ ~(p.left > 1) /\ ~(p.segs > 1) /\ Answered("cmd", <<Is("K"), Is("MW_DONE")>>)

MultiBlock(p) ==
    /\ SameRate /\ p.at = "written"
    /\ p.lba \in Lbas /\ p.b \in BlockValues /\ p.left \in 1 .. MAX_SECS /\ Unacked(p.lba)
    /\ \/ Awaits("segLba", <<U32(p.lba), U32(p.left), DataIs(p.b)>>) /\ Job(p)
       \/ Awaits("segCount", <<U32(p.left), DataIs(p.b)>>) /\ JobAt(p)
       \/ Awaits("block", <<DataIs(p.b)>>) /\ JobIn(p)
       \/ Stored(p)
       \/ Refused

Testing(p) ==
    /\ SameRate
    /\ \/ /\ p.at = "testInit"
          /\ \/ AtPrompt(<<ModeItem("w")>>) \/ Awaits("testInit", <<>>)
             \/ Answered("testData", <<Is("SEND_512")>>) \/ Refused
       \/ p.at = "testData" /\ Awaits("testData", <<>>)
       \/ /\ p.at = "testDone" /\ p.b \in BlockValues /\ Unacked(TEST_LBA)
          /\ \/ Awaits("testData", <<DataIs(p.b)>>)
             \/ Awaits("testRead", <<>>) /\ disk[TEST_LBA] = p.b
             \/ Answered("cmd", <<Is("WRITE_OK")>>) /\ disk[TEST_LBA] = p.b /\ loose = {}
             \/ Refused

Switching(p) ==
    \/ /\ p.at = "baud" /\ SameRate
       /\ AtPrompt(<<ModeItem("B")>>) \/ Awaits("baud", <<>>)
    \/ /\ p.at = "switch"
       /\ \/ SameRate /\ (AtPrompt(<<ModeItem("B"), U32(p.lba)>>) \/ Awaits("baud", <<U32(p.lba)>>) \/ Refused)
          \/ Answered("probe", <<Is("BAUD_SWITCH")>>) /\ baud = p.lba
    \/ p.at = "rate" /\ Awaits("probe", <<>>) /\ baud = p.lba
    \/ p.at = "probe" /\ SameRate /\ Awaits("probe", <<>>)

Asking(p) ==
    /\ SameRate
    /\ \/ p.at = "prompt" /\ AtPrompt(<<>>)
       \/ p.at = "dumpLba" /\ (AtPrompt(<<ModeItem("d")>>) \/ Awaits("dumpLba", <<>>))
       \/ /\ p.at = "dumpCount"
          /\ \/ \E n : AtPrompt(<<ModeItem("d"), U32(n)>>) \/ Awaits("dumpLba", <<U32(n)>>)
             \/ Awaits("dumpCount", <<>>)
       \/ /\ p.at = "reply"
          /\ \/ \E m \in {"R", "s"} : AtPrompt(<<ModeItem(m)>>)
             \/ \E n, c : AtPrompt(<<ModeItem("d"), U32(n), U32(c)>>)
                          \/ Awaits("dumpLba", <<U32(n), U32(c)>>)
             \/ \E c : Awaits("dumpCount", <<U32(c)>>)
             \/ Idle
       \/ p.at = "listen" /\ Idle

\* The loader boots, or is told to, by a probe too many perhaps, and says nothing any more.
AskedFor(m) == at \in Prompts /\ rx # <<>> /\ Head(rx) = ModeItem(m)
Astray == at \in Prompts /\ rx # <<>> /\ Head(rx).is = "probe"
Boots == tx = <<>> /\ at \in TermLabels /\ mode \in Excused
Booting == Boots \/ (tx = <<>> /\ (Astray \/ \E m \in Terminal : AskedFor(m)))

\* The host sends probes until it sees BAUD_OK; the loader takes one, and another for a mode byte.
OnlyProbes == \E S : rx \in Seq(S) /\ \A x \in S : x.is = "probe"
Probing(p) ==
    /\ p.at = "probing" /\ SameRate /\ OnlyProbes
    /\ \/ at = "probe" /\ rx # <<>> /\ tx = <<>>
       \/ /\ tx = <<Is("BAUD_OK")>>
          /\ at = "cmd" \/ (at \in {"ubootLoad", "halt"} /\ mode = "probe")

InSession(p) == MultiOpening(p) \/ MultiSegment(p) \/ MultiBlock(p) \/ Testing(p) \/ Switching(p) \/ Asking(p)

\* While an update is under way the card is torn, and what it has written so far is
\* acknowledged, but for a block that is being sent again.
Updating(p) ==
    p.at \in {"segLba", "segCount", "block", "written", "done"} =>
        /\ torn
        /\ \A w \in p.wrote : (p.at = "written" /\ w[1] = p.lba) \/ w \in acked
        /\ p.at = "done" => loose = {}

Aligned ==
    \/ Booting
    \/ script = <<>> /\ Idle /\ SameRate
    \/ \E p : Follows(p, script) /\ InSession(p) /\ Updating(p)
    \/ \E p : Follows(p, script) /\ Probing(p)

CardOK ==
    /\ disk \in [Lbas -> BlockValues]
    /\ loose \subseteq Lbas \X BlockValues /\ acked \subseteq Lbas \X BlockValues
    /\ at \in WriteLabels => loose = {}
    /\ \A w \in loose : Unacked(w[1])
    /\ AckedOnCard

ControlOK ==
    /\ at \in Labels
    /\ mode \in {"none", "timeout", "probe", "l", "b", "u", "d", "s", "w", "W", "R", "B"}
    /\ job = [f \in JobFields |-> job[f]]
    /\ at \in {"start", "first", "cmd"} => job = NoJob
    /\ at \in {"segLba", "segCount", "block"} => job.segs \in 1 .. MAX_SEGS
    /\ at = "block" => job.left \in 1 .. MAX_SECS
    /\ at = "start" => mode = "none"
    /\ at \in {"start", "first"} => tx = <<>>
    /\ baud \in MIN_BAUD .. MAX_BAUD
    /\ DOMAIN mem = KERNEL .. MEM_END - 1

LineOK == \E S : rx \in Seq(S)

IInv == ControlOK /\ CardOK /\ Aligned /\ LineOK
-----------------------------------------------------------------------------
(***************************************************************************)
(* Short sequences of items, and the rest of a script.                     *)
(***************************************************************************)

\* The first item of one, two or three, and what is left (uart_raw_recv).
LEMMA Taken ==
    ASSUME NEW a, NEW b, NEW c
    PROVE  /\ Head(<<a>>) = a /\ Tail(<<a>>) = <<>> /\ <<a>> # <<>>
           /\ Head(<<a, b>>) = a /\ Tail(<<a, b>>) = <<b>> /\ <<a, b>> # <<>>
           /\ Head(<<a, b, c>>) = a /\ Tail(<<a, b, c>>) = <<b, c>> /\ <<a, b, c>> # <<>>
  OBVIOUS

\* An item behind one or two others (uart_raw_recv is fed in order).
LEMMA AppendedSecond == ASSUME NEW a, NEW b PROVE Append(<<a>>, b) = <<a, b>>
<1> DEFINE s == Append(<<a>>, b)
           t == <<a, b>>
           S == {a, b}
<1>1. <<a>> \in Seq(S) /\ Len(<<a>>) = 1 /\ <<a>>[1] = a
  OBVIOUS
<1>2. s \in Seq(S) /\ Len(s) = 2 /\ s[1] = a /\ s[2] = b
  BY <1>1
<1>3. t \in Seq(S) /\ Len(t) = 2 /\ t[1] = a /\ t[2] = b
  OBVIOUS
<1> HIDE DEF s, t, S
<1>4. Len(s) = Len(t) /\ \A i \in 1 .. Len(s) : s[i] = t[i]
  BY <1>2, <1>3
<1>5. s = t
  BY <1>2, <1>3, <1>4, SeqEqual
<1>6. QED
  BY <1>5 DEF s, t

LEMMA AppendedThird == ASSUME NEW a, NEW b, NEW c PROVE Append(<<a, b>>, c) = <<a, b, c>>
<1> DEFINE s == Append(<<a, b>>, c)
           t == <<a, b, c>>
           S == {a, b, c}
<1>1. <<a, b>> \in Seq(S) /\ Len(<<a, b>>) = 2 /\ <<a, b>>[1] = a /\ <<a, b>>[2] = b
  OBVIOUS
<1>2. s \in Seq(S) /\ Len(s) = 3 /\ s[1] = a /\ s[2] = b /\ s[3] = c
  BY <1>1
<1>3. t \in Seq(S) /\ Len(t) = 3 /\ t[1] = a /\ t[2] = b /\ t[3] = c
  OBVIOUS
<1> HIDE DEF s, t, S
<1>4. Len(s) = Len(t) /\ \A i \in 1 .. Len(s) : s[i] = t[i]
  BY <1>2, <1>3
<1>5. s = t
  BY <1>2, <1>3, <1>4, SeqEqual
<1>6. QED
  BY <1>5 DEF s, t

\* What is left of a script after its next step.
LEMMA Rest ==
    ASSUME NEW S, NEW s \in Seq(S), NEW i \in 1 .. Len(s) + 1, SubSeq(s, i, Len(s)) # <<>>
    PROVE  /\ i \in 1 .. Len(s)
           /\ Head(SubSeq(s, i, Len(s))) = s[i]
           /\ Tail(SubSeq(s, i, Len(s))) = SubSeq(s, i + 1, Len(s))
<1> DEFINE r == SubSeq(s, i, Len(s))
           t == SubSeq(s, i + 1, Len(s))
           u == Tail(r)
<1>1. i \in 1 .. Len(s) /\ Len(s) \in Nat
  OBVIOUS
<1>2. r \in Seq(S) /\ Len(r) = Len(s) - i + 1 /\ \A j \in 1 .. Len(r) : r[j] = s[i + j - 1]
  BY <1>1
<1>3. t \in Seq(S) /\ Len(t) = Len(s) - i /\ \A j \in 1 .. Len(t) : t[j] = s[i + j]
  BY <1>1
<1> HIDE DEF r, t
<1>4. u \in Seq(S) /\ Len(u) = Len(r) - 1 /\ \A j \in 1 .. Len(r) - 1 : u[j] = r[j + 1]
  BY <1>1, <1>2
<1> HIDE DEF u
<1>5. Len(u) = Len(t) /\ Len(r) - 1 = Len(t)
  BY <1>1, <1>2, <1>3, <1>4
<1>6. ASSUME NEW j \in 1 .. Len(u) PROVE u[j] = t[j]
  <2>1. j \in 1 .. Len(r) - 1 /\ j + 1 \in 1 .. Len(r) /\ j \in 1 .. Len(t)
    BY <1>1, <1>2, <1>5
  <2>2. u[j] = r[j + 1] /\ r[j + 1] = s[i + (j + 1) - 1] /\ t[j] = s[i + j]
    BY <2>1, <1>2, <1>3, <1>4
  <2>3. i + (j + 1) - 1 = i + j
    BY <2>1, <1>1
  <2>4. QED
    BY <2>2, <2>3
<1>7. u = t
  BY <1>3, <1>4, <1>5, <1>6, SeqEqual
<1>8. Head(r) = s[i]
  BY <1>1, <1>2
<1>9. QED
  BY <1>1, <1>7, <1>8 DEF r, t, u

\* Nothing is left of a script behind its last step.
LEMMA NoRest ==
    ASSUME NEW S, NEW s \in Seq(S), NEW i \in 1 .. Len(s) + 1, SubSeq(s, i, Len(s)) = <<>>
    PROVE  i = Len(s) + 1
<1> DEFINE r == SubSeq(s, i, Len(s))
<1>1. Len(s) \in Nat
  OBVIOUS
<1>2. r \in Seq(S) /\ Len(r) = Len(s) - i + 1
  BY <1>1
<1>3. Len(r) = 0
  OBVIOUS
<1>4. QED
  BY <1>1, <1>2, <1>3

(***************************************************************************)
(* A session begins at the prompt, each of its steps leads to the next     *)
(* phase of the protocol, and it ends where nothing is left to be answered *)
(* (ProtocolAssumption, on the sessions that HostBegin chooses from).      *)
(***************************************************************************)
LEMMA ScriptIsSequence == \A s \in Scripts : s \in Seq({s[j] : j \in DOMAIN s})
<1> SUFFICES ASSUME NEW s \in Scripts PROVE s \in Seq({s[j] : j \in DOMAIN s})
  OBVIOUS
<1>1. PICK n \in Nat : s = [j \in 1 .. n |-> s[j]]
  BY ProtocolAssumption DEF Keeps
<1>2. DOMAIN s = 1 .. n
  BY <1>1
<1>3. [j \in 1 .. n |-> s[j]] \in Seq({s[j] : j \in DOMAIN s})
  BY <1>2
<1>4. QED
  BY <1>1, <1>3

LEMMA SessionBegins == ASSUME NEW s \in Scripts PROVE Follows(Prompt, s)
<1> DEFINE S == {s[i] : i \in DOMAIN s}
<1>1. s \in Seq(S) /\ Phases(s)[1] = Prompt
  BY ScriptIsSequence, ProtocolAssumption DEF Keeps
<1> HIDE DEF S
<1>2. SubSeq(s, 1, Len(s)) = s /\ 1 \in 1 .. Len(s) + 1
  BY <1>1
<1>3. QED
  BY <1>1, <1>2 DEF Follows

LEMMA SessionGoesOn ==
    ASSUME NEW p, NEW rest, Follows(p, rest), rest # <<>>
    PROVE  After(p, Head(rest)) # Lost /\ Follows(After(p, Head(rest)), Tail(rest))
<1>1. PICK s \in Scripts : \E i \in 1 .. Len(s) + 1 :
               rest = SubSeq(s, i, Len(s)) /\ p = Phases(s)[i]
  BY DEF Follows
<1>2. PICK i \in 1 .. Len(s) + 1 : rest = SubSeq(s, i, Len(s)) /\ p = Phases(s)[i]
  BY <1>1
<1> DEFINE S == {s[j] : j \in DOMAIN s}
<1>3. /\ s \in Seq(S)
      /\ \A j \in DOMAIN s : Phases(s)[j + 1] = After(Phases(s)[j], s[j]) /\ Phases(s)[j + 1] # Lost
  BY ScriptIsSequence, ProtocolAssumption DEF Keeps
<1> HIDE DEF S
<1>4. i \in 1 .. Len(s) /\ Head(rest) = s[i] /\ Tail(rest) = SubSeq(s, i + 1, Len(s))
  BY <1>2, <1>3, Rest
<1>5. i \in DOMAIN s /\ i + 1 \in 1 .. Len(s) + 1
  BY <1>3, <1>4
<1>6. After(p, Head(rest)) = Phases(s)[i + 1] /\ Phases(s)[i + 1] # Lost
  BY <1>2, <1>3, <1>4, <1>5
<1>7. QED
  BY <1>4, <1>5, <1>6 DEF Follows

LEMMA SessionIsOver ==
    ASSUME NEW p, Follows(p, <<>>)
    PROVE  p.at \in Settled
<1>1. PICK s \in Scripts : \E i \in 1 .. Len(s) + 1 :
               <<>> = SubSeq(s, i, Len(s)) /\ p = Phases(s)[i]
  BY DEF Follows
<1>2. PICK i \in 1 .. Len(s) + 1 : <<>> = SubSeq(s, i, Len(s)) /\ p = Phases(s)[i]
  BY <1>1
<1> DEFINE S == {s[j] : j \in DOMAIN s}
<1>3. s \in Seq(S) /\ Phases(s)[Len(s) + 1].at \in Settled
  BY ScriptIsSequence, ProtocolAssumption DEF Keeps
<1> HIDE DEF S
<1>4. i = Len(s) + 1
  BY <1>2, <1>3, NoRest
<1>5. QED
  BY <1>2, <1>3, <1>4
-----------------------------------------------------------------------------
(***************************************************************************)
(* The steps of the loader in a session: where the loader stands is known  *)
(* from its label, and it comes to stand where the phase allows.           *)
(***************************************************************************)

\* A block that was sent is written where the host means it to be, and acknowledged
\* once it is there, or the update fails (sd_write_multi).
LEMMA BlockInSession ==
    ASSUME NEW p, InSession(p), ControlOK, CardOK, Block, UNCHANGED <<hostVars, cycles>>
    PROVE  InSession(p)'
<1>1. /\ p.at = "written" /\ SameRate /\ tx = <<>> /\ rx = <<DataIs(p.b)>> /\ JobIn(p)
      /\ p.lba \in Lbas /\ p.b \in BlockValues /\ p.left \in 1 .. MAX_SECS /\ Unacked(p.lba)
  BY Taken DEF InSession, MultiOpening, MultiSegment, MultiBlock, Testing, Switching, Asking,
     Awaits, AtPrompt, Answered, Refused, Idle, Stored, Block, Take, Prompts
<1>2. Item = p.b /\ rx' = <<>>
  BY <1>1, Taken DEF Block, Take, Item, DataIs
<1>3. SameRate' /\ Unacked(p.lba)'
  BY <1>1 DEF Block, WriteOk, WriteFails, NextBlock, OnWith, Back, SameRate, hostVars, Unacked
<1>4. CASE WriteOk(job.lba, Item) /\ NextBlock
  <2>1. disk'[p.lba] = p.b /\ loose' = {}
    <3>1. disk' = [disk EXCEPT ![p.lba] = p.b] /\ loose' = loose
      BY <1>1, <1>2, <1>4 DEF WriteOk, JobIn, JobAt
    <3>2. disk \in [Lbas -> BlockValues] /\ loose = {}
      BY DEF CardOK, Block, WriteLabels
    <3>3. QED
      BY <1>1, <3>1, <3>2
  <2>2. Stored(p)'
    <3>1. CASE job.left > 1
      <4>1. at' = "block" /\ job' = [job EXCEPT !.lba = @ + 1, !.left = @ - 1] /\ tx' = <<Is("K")>>
        BY <1>1, <1>4, <3>1 DEF NextBlock, OnWith, Say, SameRate
      <4>2. job'.segs = job.segs /\ job'.lba = job.lba + 1 /\ job'.left = job.left - 1
        BY <4>1 DEF ControlOK, JobFields
      <4>3. QED
        BY <1>1, <1>2, <2>1, <3>1, <4>1, <4>2 DEF Stored, Answered, JobIn, JobAt, Job
    <3>2. CASE ~(job.left > 1) /\ job.segs > 1
      <4>1. at' = "segLba" /\ job' = [NoJob EXCEPT !.segs = job.segs - 1] /\ tx' = <<Is("K")>>
        BY <1>1, <1>4, <3>2 DEF NextBlock, OnWith, Say, SameRate
      <4>2. job'.segs = job.segs - 1
        BY <4>1 DEF NoJob
      <4>3. QED
        BY <1>1, <1>2, <2>1, <3>2, <4>1, <4>2 DEF Stored, Answered, JobIn, JobAt, Job
    <3>3. CASE ~(job.left > 1) /\ ~(job.segs > 1)
      <4>1. at' = "cmd" /\ tx' = <<Is("K"), Is("MW_DONE")>>
        BY <1>1, <1>4, <3>3 DEF NextBlock, Back, Say, SameRate
      <4>2. QED
        BY <1>1, <1>2, <2>1, <3>3, <4>1 DEF Stored, Answered, JobIn, JobAt, Job
    <3>4. QED
      BY <3>1, <3>2, <3>3
  <2>3. QED
    BY <1>1, <1>3, <2>2 DEF InSession, MultiBlock
<1>5. CASE WriteFails(job.lba, Item) /\ Back /\ Say(<<Is("fail")>>)
  <2>1. Refused'
    BY <1>1, <1>2, <1>5 DEF Refused, Answered, Back, Say, SameRate
  <2>2. QED
    BY <1>1, <1>3, <2>1 DEF InSession, MultiBlock
<1>6. QED
  BY <1>4, <1>5 DEF Block

\* The mode of each known byte (main).
LEMMA EntryOf ==
    /\ Entry("W") = "multiInit" /\ Entry("w") = "testInit" /\ Entry("d") = "dumpLba"
    /\ Entry("B") = "baud" /\ Entry("R") = "readInit" /\ Entry("s") = "smokeInit"
    /\ Entry("b") = "bootInit" /\ Entry("l") = "kernelLoad" /\ Entry("u") = "ubootLoad"
    /\ Entry("probe") = "ubootLoad"
  BY DEF Entry

\* The first byte after a prompt is the mode byte of the session, or none comes (main).
LEMMA CommandInSession ==
    ASSUME NEW p, InSession(p), ~Idle \/ p.at = "prompt", ControlOK, Command,
           UNCHANGED <<hostVars, cycles>>
    PROVE  InSession(p)' \/ Boots'
<1>1. SameRate /\ tx = <<>> /\ at \in Prompts
      /\ SameRate' /\ tx' = <<>>
  BY DEF InSession, MultiOpening, MultiSegment, MultiBlock, Testing, Switching, Asking,
     Awaits, AtPrompt, Answered, Refused, Idle, Stored, Command, Prompts, Dispatch, hostVars,
     SameRate, Silent, Take, TermLabels, Final
<1>2. CASE at = "first" /\ rx = <<>> /\ at' = Entry("b") /\ mode' = "timeout"
  BY <1>1, <1>2, EntryOf DEF Booting, Boots, AskedFor, TermLabels, Excused
<1>3. CASE Take /\ Dispatch(IF Head(rx).is = "mode" THEN Item ELSE Head(rx).is)
  <2>1. ASSUME NEW m, Head(rx) = ModeItem(m) PROVE at' = Entry(m) /\ rx' = Tail(rx)
    BY <1>3, <2>1 DEF ModeItem, Item, Dispatch, Take
  <2>2. CASE p.at = "multiInit" /\ rx = <<ModeItem("W")>>
    BY <1>1, <2>1, <2>2, Taken, EntryOf DEF InSession, MultiOpening, Awaits
  <2>3. CASE p.at = "testInit" /\ rx = <<ModeItem("w")>>
    BY <1>1, <2>1, <2>3, Taken, EntryOf DEF InSession, Testing, Awaits
  <2>4. CASE p.at = "baud" /\ rx = <<ModeItem("B")>>
    BY <1>1, <2>1, <2>4, Taken, EntryOf DEF InSession, Switching, Awaits
  <2>5. CASE p.at = "switch" /\ rx = <<ModeItem("B"), U32(p.lba)>>
    BY <1>1, <2>1, <2>5, Taken, EntryOf DEF InSession, Switching, Awaits
  <2>6. CASE p.at = "dumpLba" /\ rx = <<ModeItem("d")>>
    BY <1>1, <2>1, <2>6, Taken, EntryOf DEF InSession, Asking, Awaits
  <2>7. CASE p.at = "dumpCount" /\ \E n : rx = <<ModeItem("d"), U32(n)>>
    <3>1. PICK n : rx = <<ModeItem("d"), U32(n)>>
      BY <2>7
    <3>2. Awaits("dumpLba", <<U32(n)>>)'
      BY <1>1, <2>1, <3>1, Taken, EntryOf DEF Awaits
    <3>3. QED
      BY <1>1, <2>7, <3>2 DEF InSession, Asking
  <2>8. CASE p.at = "reply" /\ \E n, c : rx = <<ModeItem("d"), U32(n), U32(c)>>
    <3>1. PICK n, c : rx = <<ModeItem("d"), U32(n), U32(c)>>
      BY <2>8
    <3>2. Awaits("dumpLba", <<U32(n), U32(c)>>)'
      BY <1>1, <2>1, <3>1, Taken, EntryOf DEF Awaits
    <3>3. QED
      BY <1>1, <2>8, <3>2 DEF InSession, Asking
  <2>9. CASE p.at = "reply" /\ \E m \in {"R", "s"} : rx = <<ModeItem(m)>>
    BY <1>1, <2>1, <2>9, Taken, EntryOf DEF InSession, Asking, Idle, TermLabels, Final
  <2>10. rx # <<>>
    BY <1>3 DEF Take
  <2>11. QED
    BY <1>1, <2>2, <2>3, <2>4, <2>5, <2>6, <2>7, <2>8, <2>9, <2>10 DEF InSession, MultiOpening,
       MultiSegment, MultiBlock, Testing, Switching, Asking, Awaits, AtPrompt, Answered, Refused,
       Idle, Stored, Prompts
<1>4. QED
  BY <1>2, <1>3 DEF Command

\* An update is opened, its count and the place and length of a segment are taken,
\* or refused, before the first block (sd_write_multi).
LEMMA MultiInSession ==
    ASSUME NEW p, InSession(p), ~Idle \/ p.at \notin {"reply", "listen"}, ControlOK, CardOK, Multi,
           UNCHANGED <<hostVars, cycles>>
    PROVE  InSession(p)'
<1> USE DEF InSession, MultiOpening, MultiSegment, MultiBlock, Testing, Switching, Asking,
     Awaits, AtPrompt, Answered, Refused, Idle, Stored, Prompts
<1>1. CASE Opens("multiInit", "multiCount", <<Is("MW_READY")>>, <<Is("fail")>>)
  <2>1. SameRate /\ tx = <<>> /\ rx = <<>> /\ p.at = "multiInit"
    BY <1>1, Taken DEF Opens, TermLabels, Final
  <2>2. /\ SameRate' /\ rx' = <<>>
        /\ (at' = "multiCount" /\ tx' = <<Is("MW_READY")>>) \/ (at' = "cmd" /\ tx' = <<Is("fail")>>)
    BY <1>1, <2>1 DEF Opens, SameRate, hostVars, On, Back, Say, Deaf
  <2>3. QED
    BY <2>1, <2>2
<1>2. CASE MultiCount
  <2>1. SameRate /\ tx = <<>> /\ p.at = "multiGo" /\ rx = <<U32(p.segs)>>
    BY <1>2, Taken DEF MultiCount, Take
  <2>2. Item = p.segs /\ rx' = <<>>
    BY <1>2, <2>1, Taken DEF MultiCount, Take, Item, U32
  <2>3. SameRate'
    BY <1>2, <2>1 DEF MultiCount, SameRate, hostVars, OnWith, Back
  <2>4. CASE OnWith("segLba", [job EXCEPT !.segs = Item]) /\ Say(<<Is("MW_GO")>>)
    <3>1. at' = "segLba" /\ tx' = <<Is("MW_GO")>> /\ job'.segs = p.segs
      BY <2>1, <2>2, <2>4 DEF OnWith, Say, SameRate, ControlOK, JobFields
    <3>2. QED
      BY <2>1, <2>2, <2>3, <3>1 DEF Job
  <2>5. CASE Back /\ Say(<<Is("fail")>>)
    BY <2>1, <2>2, <2>3, <2>5 DEF Back, Say, SameRate
  <2>6. QED
    BY <1>2, <2>4, <2>5 DEF MultiCount
<1>3. CASE SegLba
  <2>1. /\ SameRate /\ tx = <<>> /\ Job(p) /\ p.at \in {"segCount", "block", "written"}
        /\ p.at = "segCount" => rx = <<U32(p.lba)>>
        /\ p.at = "block" => rx = <<U32(p.lba), U32(p.left)>>
        /\ p.at = "written" => /\ rx = <<U32(p.lba), U32(p.left), DataIs(p.b)>>
                               /\ p.lba \in Lbas /\ p.b \in BlockValues /\ p.left \in 1 .. MAX_SECS
                               /\ Unacked(p.lba)
    BY <1>3, Taken DEF SegLba, Take
  <2>2. Item = p.lba
    BY <2>1, Taken DEF Item, U32
  <2>3. SameRate' /\ at' = "segCount" /\ tx' = <<>> /\ rx' = Tail(rx)
    BY <1>3, <2>1 DEF SegLba, Take, SameRate, hostVars, OnWith, Silent
  <2>4. JobAt(p)'
    BY <1>3, <2>1, <2>2 DEF SegLba, OnWith, Job, JobAt, ControlOK, JobFields
  <2>5. Unacked(p.lba) => Unacked(p.lba)'
    BY DEF Unacked, hostVars
  <2>6. CASE p.at = "segCount"
    BY <2>1, <2>3, <2>4, <2>6, Taken
  <2>7. CASE p.at = "block"
    <3>1. rx' = <<U32(p.left)>>
      <4>1. rx = <<U32(p.lba), U32(p.left)>>
        BY <2>1, <2>7
      <4>2. QED
        BY <4>1, <2>3, Taken
    <3> HIDE DEF InSession, MultiOpening, MultiBlock, Testing, Switching, Asking
    <3>2. MultiSegment(p)'
      BY <2>3, <2>4, <2>7, <3>1
    <3>3. QED
      BY <3>2 DEF InSession
  <2>8. CASE p.at = "written"
    <3>1. rx' = <<U32(p.left), DataIs(p.b)>>
      <4>1. rx = <<U32(p.lba), U32(p.left), DataIs(p.b)>>
        BY <2>1, <2>8
      <4>2. QED
        BY <4>1, <2>3, Taken
    <3> HIDE DEF InSession, MultiOpening, MultiSegment, Testing, Switching, Asking, Stored
    <3>2. MultiBlock(p)'
      BY <2>1, <2>3, <2>4, <2>5, <2>8, <3>1
    <3>3. QED
      BY <3>2 DEF InSession
  <2>9. QED
    BY <2>1, <2>6, <2>7, <2>8
<1>4. CASE SegCount
  <2>1. /\ SameRate /\ tx = <<>> /\ JobAt(p) /\ p.at \in {"block", "written"}
        /\ p.at = "block" => rx = <<U32(p.left)>>
        /\ p.at = "written" => /\ rx = <<U32(p.left), DataIs(p.b)>>
                               /\ p.lba \in Lbas /\ p.b \in BlockValues /\ p.left \in 1 .. MAX_SECS
                               /\ Unacked(p.lba)
    BY <1>4, Taken DEF SegCount, Take
  <2>2. Item = p.left
    BY <2>1, Taken DEF Item, U32
  <2>3. SameRate' /\ rx' = Tail(rx)
    BY <1>4, <2>1 DEF SegCount, Take, SameRate, hostVars, OnWith, Back
  <2>4. Unacked(p.lba) => Unacked(p.lba)'
    BY DEF Unacked, hostVars
  <2>5. CASE OnWith("block", [job EXCEPT !.left = Item]) /\ Silent
    <3>1. at' = "block" /\ tx' = <<>> /\ JobIn(p)'
      BY <2>1, <2>2, <2>5 DEF OnWith, Silent, Job, JobAt, JobIn, ControlOK, JobFields
    <3>2. CASE p.at = "block"
      BY <2>1, <2>3, <3>1, <3>2, Taken
    <3>3. CASE p.at = "written"
      <4>1. rx' = <<DataIs(p.b)>>
        <5>1. rx = <<U32(p.left), DataIs(p.b)>>
          BY <2>1, <3>3
        <5>2. QED
          BY <5>1, <2>3, Taken
      <4> HIDE DEF InSession, MultiOpening, MultiSegment, Testing, Switching, Asking, Stored
      <4>2. MultiBlock(p)'
        BY <2>1, <2>3, <2>4, <3>1, <3>3, <4>1
      <4>3. QED
        BY <4>2 DEF InSession
    <3>4. QED
      BY <2>1, <3>2, <3>3
  <2>6. CASE Item \notin 1 .. MAX_SECS /\ Back /\ Say(<<Is("fail")>>)
    <3>1. p.at = "block" /\ p.left \notin 1 .. MAX_SECS
      BY <2>1, <2>2, <2>6
    <3>2. Refused'
      <4>1. rx' = <<>>
        BY <2>1, <2>3, <3>1, Taken
      <4>2. at' = "cmd" /\ tx' = <<Is("fail")>>
        BY <2>1, <2>6 DEF Back, Say, SameRate
      <4>3. QED
        BY <4>1, <4>2
    <3>3. QED
      BY <2>3, <3>1, <3>2
  <2>7. QED
    BY <1>4, <2>5, <2>6 DEF SegCount
<1>5. CASE Block
  BY <1>5, BlockInSession
<1>6. QED
  BY <1>1, <1>2, <1>3, <1>4, <1>5 DEF Multi

\* The write test takes one block, writes it and reads it back (sd_write_test).
LEMMA TestInSession ==
    ASSUME NEW p, InSession(p), ~Idle \/ p.at \notin {"reply", "listen"}, ControlOK, CardOK, WriteTest,
           UNCHANGED <<hostVars, cycles>>
    PROVE  InSession(p)'
<1> USE DEF InSession, MultiOpening, MultiSegment, MultiBlock, Testing, Switching, Asking,
     Awaits, AtPrompt, Answered, Refused, Idle, Stored, Prompts
<1>1. CASE Opens("testInit", "testData", <<Is("SEND_512")>>, <<Is("fail")>>)
  <2>1. SameRate /\ tx = <<>> /\ rx = <<>> /\ p.at = "testInit"
    BY <1>1, Taken DEF Opens, TermLabels, Final
  <2>2. /\ SameRate' /\ rx' = <<>>
        /\ (at' = "testData" /\ tx' = <<Is("SEND_512")>>) \/ (at' = "cmd" /\ tx' = <<Is("fail")>>)
    BY <1>1, <2>1 DEF Opens, SameRate, hostVars, On, Back, Say, Deaf
  <2>3. QED
    BY <2>1, <2>2
<1>2. CASE at = "testData" /\ Take
           /\ \/ WriteOk(TEST_LBA, Item) /\ On("testRead") /\ Silent
              \/ WriteFails(TEST_LBA, Item) /\ Back /\ Say(<<Is("fail")>>)
  <2>1. SameRate /\ tx = <<>> /\ p.at = "testDone" /\ rx = <<DataIs(p.b)>> /\ p.b \in BlockValues
        /\ Unacked(TEST_LBA)
    BY <1>2, Taken DEF Take
  <2>2. Item = p.b /\ rx' = <<>>
    BY <1>2, <2>1, Taken DEF Take, Item, DataIs
  <2>3. SameRate' /\ Unacked(TEST_LBA)'
    BY <1>2, <2>1 DEF SameRate, hostVars, On, Back, Unacked
  <2>4. CASE WriteOk(TEST_LBA, Item) /\ On("testRead") /\ Silent
    <3>1. at' = "testRead" /\ tx' = <<>>
      BY <2>1, <2>4 DEF On, Silent
    <3>2. disk' = [disk EXCEPT ![TEST_LBA] = p.b]
      BY <2>2, <2>4 DEF WriteOk
    <3>3. disk'[TEST_LBA] = p.b
      BY <3>2, Stage2Assumption DEF CardOK
    <3>4. QED
      BY <2>1, <2>2, <2>3, <3>1, <3>3
  <2>5. CASE WriteFails(TEST_LBA, Item) /\ Back /\ Say(<<Is("fail")>>)
    BY <2>1, <2>2, <2>3, <2>5 DEF Back, Say, SameRate
  <2>6. QED
    BY <1>2, <2>4, <2>5
<1>3. CASE at = "testRead" /\ Deaf /\ Back
           /\ \/ ReadOk /\ Say(<<Is("WRITE_OK")>>)
              \/ ReadFails /\ Say(<<Is("fail")>>)
  <2>1. SameRate /\ tx = <<>> /\ rx = <<>> /\ p.at = "testDone" /\ p.b \in BlockValues
        /\ Unacked(TEST_LBA) /\ disk[TEST_LBA] = p.b
    BY <1>3, Taken DEF TermLabels, Final
  <2>2. loose = {} /\ loose' = loose /\ disk' = disk
    BY <1>3 DEF CardOK, WriteLabels, ReadOk, ReadFails, cardVars
  <2>3. SameRate' /\ Unacked(TEST_LBA)' /\ at' = "cmd" /\ rx' = <<>>
        /\ tx' \in {<<Is("WRITE_OK")>>, <<Is("fail")>>}
    BY <1>3, <2>1 DEF SameRate, hostVars, Back, Unacked, Deaf, Say
  <2>4. QED
    BY <2>1, <2>2, <2>3
<1>4. QED
  BY <1>1, <1>2, <1>3 DEF WriteTest

\* The new rate is announced at the old one, and a probe is awaited (mode_set_baud).
LEMMA SwitchInSession ==
    ASSUME NEW p, InSession(p), ~Idle \/ p.at \notin {"reply", "listen"}, SetBaud,
           UNCHANGED <<hostVars, cycles>>
    PROVE  InSession(p)'
<1> USE DEF InSession, MultiOpening, MultiSegment, MultiBlock, Testing, Switching, Asking,
     Awaits, AtPrompt, Answered, Refused, Idle, Stored, Prompts
<1>1. SameRate /\ tx = <<>> /\ p.at = "switch" /\ rx = <<U32(p.lba)>>
  BY Taken DEF SetBaud, Take
<1>2. Item = p.lba /\ rx' = <<>>
  BY <1>1, Taken DEF SetBaud, Take, Item, U32
<1>3. CASE Say(<<Is("BAUD_SWITCH")>>) /\ baud' = Item /\ at' = "probe"
  BY <1>1, <1>2, <1>3 DEF Say, SameRate
<1>4. CASE Back /\ Say(<<Is("fail")>>)
  BY <1>1, <1>2, <1>4 DEF Back, Say, SameRate, hostVars
<1>5. QED
  BY <1>3, <1>4 DEF SetBaud

\* Both numbers of a dump are taken before anything is checked (sd_dump).
LEMMA DumpInSession ==
    ASSUME NEW p, InSession(p), ~Idle \/ p.at \notin {"reply", "listen"}, Dump,
           UNCHANGED <<hostVars, cycles>>
    PROVE  InSession(p)'
<1> USE DEF InSession, MultiOpening, MultiSegment, MultiBlock, Testing, Switching, Asking,
     Awaits, AtPrompt, Answered, Refused, Idle, Stored, Prompts
<1>1. CASE DumpLba
  <2>1. SameRate /\ tx = <<>>
        /\ \/ p.at = "dumpCount" /\ \E n : rx = <<U32(n)>>
           \/ p.at = "reply" /\ \E n, c : rx = <<U32(n), U32(c)>>
    BY <1>1, Taken DEF DumpLba, Take
  <2>2. at' = "dumpCount" /\ tx' = <<>> /\ rx' = Tail(rx) /\ SameRate'
    BY <1>1, <2>1 DEF DumpLba, Take, Silent, OnWith, SameRate, hostVars
  <2>3. CASE p.at = "dumpCount" /\ \E n : rx = <<U32(n)>>
    BY <2>2, <2>3, Taken
  <2>4. CASE p.at = "reply" /\ \E n, c : rx = <<U32(n), U32(c)>>
    <3>1. PICK n, c : rx = <<U32(n), U32(c)>>
      BY <2>4
    <3>2. Awaits("dumpCount", <<U32(c)>>)'
      BY <2>2, <3>1, Taken
    <3>3. QED
      BY <2>2, <2>4, <3>2
  <2>5. QED
    BY <2>1, <2>3, <2>4
<1>2. CASE DumpCount
  <2>1. SameRate /\ tx = <<>> /\ p.at = "reply" /\ \E c : rx = <<U32(c)>>
    BY <1>2, Taken DEF DumpCount, Take
  <2>2. at' \notin TermLabels /\ rx' = <<>> /\ SameRate'
    BY <1>2, <2>1, Taken DEF DumpCount, Take, OnWith, Back, SameRate, hostVars, TermLabels, Final
  <2>3. QED
    BY <2>1, <2>2
<1>3. CASE at \in {"dumpInit", "dump"}
  BY <1>3 DEF TermLabels, Final
<1>4. QED
  BY <1>1, <1>2, <1>3 DEF Dump, DumpBlock, Opens

\* With nothing to take, the loader finishes what it does and waits at the prompt, or
\* boots from the card when no first byte comes (main).
LEMMA IdleGoesOn ==
    ASSUME ControlOK, Idle, SameRate, Loader
    PROVE  (Idle /\ SameRate)' \/ Boots'
<1>1. rx = <<>> /\ at \notin TermLabels /\ hbaud' = hbaud
  BY DEF Idle, Loader, hostVars
<1>2. CASE Start
  <2>1. at = "start" /\ mode = "none" /\ tx = <<>> /\ rx' = <<>> /\ tx' = <<>> /\ baud' = baud /\ mode' = mode
    BY <1>1, <1>2 DEF Start, ControlOK, Deaf, Silent, On, Halt
  <2>2. at' \in {"first", "halt"}
    BY <1>2 DEF Start, On, Halt
  <2>3. QED
    BY <1>1, <2>1, <2>2 DEF Booting, Boots, AskedFor, Idle, SameRate, TermLabels, Final, Excused
<1>3. CASE Command
  <2>1. /\ at = "first" /\ tx = <<>> /\ tx' = <<>>
        /\ at' = Entry("b") /\ mode' = "timeout"
    BY <1>1, <1>3 DEF Command, Take, ControlOK, Silent
  <2>2. QED
    BY <2>1, EntryOf DEF Booting, Boots, AskedFor, TermLabels, Excused
<1>4. CASE Boot \/ Linux \/ Uboot
  BY <1>1, <1>4 DEF Boot, BootHeader, BootRead, Linux, Uboot, TermLabels
<1>5. CASE Smoke \/ ReadHeader \/ Dump \/ WriteTest \/ Multi \/ SetBaud \/ Probe
  <2>1. baud' = baud /\ rx' = <<>>
    BY <1>1, <1>5 DEF Smoke, ReadHeader, Dump, WriteTest, Multi, SetBaud, Probe, Opens, On, OnWith, Back,
       DumpLba, DumpCount, DumpBlock, MultiCount, SegLba, SegCount, Block, Take, Deaf
  <2>2. at' \in {"smokeRead", "readHeader", "dump", "testData", "multiCount", "cmd"}
    BY <1>1, <1>5 DEF Smoke, ReadHeader, Dump, WriteTest, Multi, SetBaud, Probe, Opens, On, OnWith, Back,
       DumpLba, DumpCount, DumpBlock, MultiCount, SegLba, SegCount, Block, Take
  <2>3. QED
    BY <1>1, <2>1, <2>2 DEF Idle, SameRate, TermLabels, Final
<1>6. QED
  BY <1>2, <1>3, <1>4, <1>5 DEF Loader

\* A loader that boots goes on booting, and says nothing (main, mode_sd_boot, mode_linux,
\* mode_uboot): it hands over, or halts.
LEMMA BootingGoesOn ==
    ASSUME ControlOK, Booting, Loader
    PROVE  Boots'
<1>1. CASE at \in TermLabels /\ mode \in Excused
  <2>1. CASE Boot \/ Linux \/ Uboot
    <3>1. tx' = tx /\ mode' = mode /\ at' \in TermLabels
      BY <1>1, <2>1 DEF Boot, BootHeader, BootRead, Linux, KernelLoad, DtbLoad, InitrdLoad, Uboot, On, Halt, Hand,
         Silent, loaderVars, TermLabels, Final
    <3>2. QED
      BY <1>1, <3>1 DEF Booting, Boots, AskedFor
  <2>2. CASE Start \/ Command \/ Smoke \/ ReadHeader \/ Dump \/ WriteTest \/ Multi \/ SetBaud \/ Probe
    BY <1>1, <2>2 DEF Start, Command, Smoke, ReadHeader, Dump, WriteTest, Multi, SetBaud, Probe, Opens,
       DumpLba, DumpCount, DumpBlock, MultiCount, SegLba, SegCount, Block, TermLabels, Final
  <2>3. QED
    BY <2>1, <2>2 DEF Loader
<1>2. CASE tx = <<>> /\ (Astray \/ \E m \in Terminal : AskedFor(m))
  <2>1. at \in Prompts /\ rx # <<>>
        /\ (Head(rx).is = "probe" \/ \E m \in Terminal : Head(rx) = ModeItem(m))
    BY <1>2 DEF Astray, AskedFor
  <2>2. Command
    BY <2>1 DEF Loader, Start, Boot, BootHeader, BootRead, Linux, Uboot, Smoke, ReadHeader, Dump, WriteTest,
       Multi, SetBaud, Probe, Opens, DumpLba, DumpCount, DumpBlock, MultiCount, SegLba, SegCount, Block, Prompts
  <2>3. tx' = <<>> /\ Dispatch(IF Head(rx).is = "mode" THEN Item ELSE Head(rx).is)
    BY <1>2, <2>1, <2>2 DEF Command, Silent
  <2>4. CASE Head(rx).is = "probe"
    BY <2>3, <2>4, EntryOf DEF Dispatch, Boots, TermLabels, Excused
  <2>5. CASE \E m \in Terminal : Head(rx) = ModeItem(m)
    <3>1. PICK m \in Terminal : Head(rx) = ModeItem(m)
      BY <2>5
    <3>2. at' = Entry(m) /\ mode' = m
      BY <2>3, <3>1 DEF Dispatch, ModeItem, Item
    <3>3. QED
      BY <2>3, <3>2, EntryOf DEF Boots, Terminal, TermLabels, Excused
  <2>6. QED
    BY <2>1, <2>4, <2>5
<1>3. QED
  BY <1>1, <1>2 DEF Booting, Boots

\* The loader answers one probe and takes a second one for a mode byte: it starts
\* mode_uboot, which skips the probes that follow or gives up (mode_set_baud, main).
LEMMA ProbingGoesOn ==
    ASSUME NEW p, Probing(p), ControlOK, Loader
    PROVE  Probing(p)' /\ ~AskedFor("l")'
<1>1. SameRate /\ tx \in {<<>>, <<Is("BAUD_OK")>>} /\ hbaud' = hbaud
  BY DEF Probing, Loader, hostVars
<1>2. PICK S : rx \in Seq(S) /\ \A x \in S : x.is = "probe"
  BY DEF Probing, OnlyProbes
<1>3. rx # <<>> => Head(rx).is = "probe"
  <2>1. rx # <<>> => Head(rx) \in S
    BY <1>2
  <2>2. QED
    BY <1>2, <2>1
<1>4. ASSUME rx' = rx \/ Take PROVE rx' \in Seq(S)
  BY <1>2, <1>4 DEF Take
<1>5. ASSUME rx' \in Seq(S) PROVE OnlyProbes' /\ ~AskedFor("l")'
  <2>1. OnlyProbes'
    BY <1>2, <1>5 DEF OnlyProbes
  <2>2. rx' # <<>> => Head(rx') \in S
    BY <1>5
  <2>3. ModeItem("l").is # "probe"
    BY DEF ModeItem
  <2>4. QED
    BY <1>2, <2>1, <2>2, <2>3 DEF AskedFor
<1>6. CASE at = "probe"
  <2>1. Probe
    BY <1>6 DEF Loader, Start, Command, Smoke, ReadHeader, Dump, DumpLba, DumpCount, DumpBlock, WriteTest,
       Multi, MultiCount, SegLba, SegCount, Block, SetBaud, Boot, BootHeader, BootRead, Linux, Uboot, Opens
  <2>2. tx = <<>> /\ tx' = <<Is("BAUD_OK")>> /\ at' = "cmd" /\ baud' = baud /\ rx' \in Seq(S)
    BY <1>1, <1>4, <1>6, <2>1 DEF Probe, Back, Say, SameRate, Probing
  <2>3. QED
    BY <1>1, <1>5, <2>2 DEF Probing, SameRate
<1>7. CASE at = "cmd"
  <2>1. Command
    BY <1>7 DEF Loader, Start, Probe, Smoke, ReadHeader, Dump, DumpLba, DumpCount, DumpBlock, WriteTest,
       Multi, MultiCount, SegLba, SegCount, Block, SetBaud, Boot, BootHeader, BootRead, Linux, Uboot, Opens
  <2>2. tx' = tx /\ Take /\ Dispatch(Head(rx).is)
    BY <1>3, <1>7, <2>1 DEF Command, Silent, Take
  <2>3. at' = "ubootLoad" /\ mode' = "probe" /\ baud' = baud
    BY <1>3, <2>2, EntryOf DEF Dispatch, Take
  <2>4. QED
    BY <1>1, <1>4, <1>5, <1>7, <2>2, <2>3 DEF Probing, SameRate
<1>8. CASE at = "ubootLoad"
  <2>1. Uboot
    BY <1>8 DEF Loader, Start, Command, Probe, Smoke, ReadHeader, Dump, DumpLba, DumpCount, DumpBlock, WriteTest,
       Multi, MultiCount, SegLba, SegCount, Block, SetBaud, Boot, BootHeader, BootRead, Linux, Opens, Prompts
  <2>2. ~Received
    BY <1>3 DEF Received, Take
  <2>3. /\ tx' = tx /\ mode' = mode /\ baud' = baud /\ at' \in {"ubootLoad", "halt"}
        /\ rx' = rx \/ Take
    BY <1>8, <2>1, <2>2 DEF Uboot, Silent, NotReceived, Deaf, Halt, loaderVars
  <2>4. QED
    BY <1>1, <1>4, <1>5, <1>8, <2>3 DEF Probing, SameRate
<1>9. CASE at = "halt"
  BY <1>9 DEF Loader, Start, Command, Probe, Smoke, ReadHeader, Dump, DumpLba, DumpCount, DumpBlock, WriteTest,
     Multi, MultiCount, SegLba, SegCount, Block, SetBaud, Boot, BootHeader, BootRead, Linux, Uboot, Opens
<1>10. QED
  BY <1>6, <1>7, <1>8, <1>9 DEF Probing

\* An update that has written all its blocks waits only for the host to hear of it, and no
\* step of the loader changes what the host knows (sd_write_multi).
LEMMA LoaderKeepsUpdate ==
    ASSUME NEW p, InSession(p), Updating(p), Loader
    PROVE  Updating(p)'
<1>1. torn' = torn /\ acked' = acked
  BY DEF Loader, hostVars
<1>2. CASE p.at = "done"
  <2>1. at = "cmd" /\ rx = <<>>
    BY <1>2 DEF InSession, MultiOpening, MultiSegment, MultiBlock, Testing, Switching, Asking, Answered
  <2>2. QED
    BY <2>1 DEF Loader, Start, Command, Take, Smoke, ReadHeader, Dump, DumpLba, DumpCount, DumpBlock, WriteTest,
       Multi, MultiCount, SegLba, SegCount, Block, SetBaud, Probe, Boot, BootHeader, BootRead, Linux, Uboot, Opens
<1>3. CASE p.at # "done"
  BY <1>1, <1>3 DEF Updating
<1>4. QED
  BY <1>2, <1>3

\* Every step of the loader keeps it aligned with its host, and leaves no request for a
\* boot behind (main and all its modes).
LEMMA LoaderAligned ==
    ASSUME IInv, Loader
    PROVE  Aligned' /\ ~AskedFor("l")'
<1>1. script' = script /\ UNCHANGED <<hostVars, cycles>>
  BY DEF Loader, hostVars
<1>2. ASSUME Boots' PROVE Aligned' /\ ~AskedFor("l")'
  BY <1>2 DEF Aligned, Booting, Boots, AskedFor, TermLabels, Final, Prompts
<1>3. CASE Booting
  BY <1>2, <1>3, BootingGoesOn DEF IInv
<1>4. CASE script = <<>> /\ Idle /\ SameRate
  <2>1. (Idle /\ SameRate)' => Aligned' /\ ~AskedFor("l")'
    BY <1>1, <1>4 DEF Aligned, Idle, AskedFor
  <2>2. QED
    BY <1>2, <1>4, <2>1, IdleGoesOn DEF IInv
<1>5. ASSUME NEW p, Follows(p, script), InSession(p), Updating(p)
      PROVE  Aligned' /\ ~AskedFor("l")'
  <2>1. SUFFICES InSession(p)' \/ Boots'
    <3>1. Updating(p)'
      BY <1>5, LoaderKeepsUpdate
    <3>2. InSession(p)' => ~AskedFor("l")'
      BY Taken DEF InSession, MultiOpening, MultiSegment, MultiBlock, Testing, Switching, Asking, Awaits, AtPrompt,
         Answered, Refused, Idle, Stored, Prompts, AskedFor, ModeItem
    <3>3. QED
      BY <1>1, <1>2, <1>5, <3>1, <3>2 DEF Aligned
  <2>2. CASE p.at \in {"reply", "listen"} /\ Idle
    <3>1. SameRate
      BY <1>5, <2>2 DEF InSession, MultiOpening, MultiSegment, MultiBlock, Testing, Switching, Asking
    <3>2. (Idle /\ SameRate)' \/ Boots'
      BY <2>2, <3>1, IdleGoesOn DEF IInv
    <3>3. QED
      BY <2>2, <3>2 DEF InSession, Asking
  <2>3. CASE ~(p.at \in {"reply", "listen"} /\ Idle)
    <3>1. CASE Command
      BY <1>1, <1>5, <2>3, <3>1, CommandInSession DEF IInv, InSession, MultiOpening, MultiSegment, MultiBlock,
         Testing, Switching, Asking, Awaits, AtPrompt, Answered, Refused, Idle, Stored, Command, Take, Prompts
    <3>2. CASE Multi
      BY <1>1, <1>5, <2>3, <3>2, MultiInSession DEF IInv
    <3>3. CASE WriteTest
      BY <1>1, <1>5, <2>3, <3>3, TestInSession DEF IInv
    <3>4. CASE SetBaud
      BY <1>1, <1>5, <2>3, <3>4, SwitchInSession
    <3>5. CASE Dump
      BY <1>1, <1>5, <2>3, <3>5, DumpInSession
    <3>6. CASE Start \/ Smoke \/ ReadHeader \/ Probe \/ Boot \/ Linux \/ Uboot
      BY <1>5, <2>3, <3>6, Taken DEF InSession, MultiOpening, MultiSegment, MultiBlock, Testing, Switching, Asking,
         Awaits, AtPrompt, Answered, Refused, Idle, Stored, Prompts, Start, Smoke, ReadHeader, Opens,
         Probe, Take, Boot, BootHeader, BootRead, Linux, Uboot, TermLabels, Final
    <3>7. QED
      BY <3>1, <3>2, <3>3, <3>4, <3>5, <3>6 DEF Loader
  <2>4. QED
    BY <2>2, <2>3
<1>6. ASSUME NEW p, Follows(p, script), Probing(p)
      PROVE  Aligned' /\ ~AskedFor("l")'
  BY <1>1, <1>6, ProbingGoesOn DEF IInv, Aligned
<1>7. QED
  BY <1>3, <1>4, <1>5, <1>6 DEF IInv, Aligned
-----------------------------------------------------------------------------
(***************************************************************************)
(* The card.                                                               *)
(***************************************************************************)

\* What the loader is about to write is a block that the host has sent for that place,
\* and that it does not take to be written yet (sd_write_multi, sd_write_test).
LEMMA WritesAsSent ==
    ASSUME Aligned, rx # <<>>
    PROVE  /\ at = "block" => job.lba \in Lbas /\ Item \in BlockValues /\ Unacked(job.lba)
           /\ at = "testData" => Item \in BlockValues /\ Unacked(TEST_LBA)
<1>1. CASE Booting
  BY <1>1 DEF Booting, Boots, Astray, AskedFor, TermLabels, Final, Prompts
<1>2. CASE Idle
  BY <1>2 DEF Idle
<1>3. CASE \E p : Probing(p)
  BY <1>3 DEF Probing
<1>4. ASSUME NEW p, InSession(p), ~Idle
      PROVE  /\ at = "block" => job.lba \in Lbas /\ Item \in BlockValues /\ Unacked(job.lba)
             /\ at = "testData" => Item \in BlockValues /\ Unacked(TEST_LBA)
  <2> USE DEF InSession, MultiOpening, MultiSegment, MultiBlock, Testing, Switching, Asking,
       Awaits, AtPrompt, Answered, Refused, Idle, Stored, Prompts
  <2>1. ASSUME at = "block"
        PROVE  job.lba = p.lba /\ rx = <<DataIs(p.b)>> /\ p.lba \in Lbas /\ p.b \in BlockValues /\ Unacked(p.lba)
    BY <1>4, <2>1 DEF JobIn, JobAt
  <2>2. ASSUME at = "testData"
        PROVE  rx = <<DataIs(p.b)>> /\ p.b \in BlockValues /\ Unacked(TEST_LBA)
    BY <1>4, <2>2
  <2>3. ASSUME rx = <<DataIs(p.b)>> PROVE Item = p.b
    BY <2>3, Taken DEF Item, DataIs
  <2> HIDE DEF InSession, MultiOpening, MultiSegment, MultiBlock, Testing, Switching, Asking
  <2>4. QED
    BY <2>1, <2>2, <2>3
<1>5. QED
  BY <1>1, <1>2, <1>3, <1>4 DEF Aligned

\* A block that is written keeps what had been acknowledged elsewhere, and a write that
\* fails leaves at most that block loose (sd_write_block).
LEMMA WriteKeepsCard ==
    ASSUME NEW lba \in Lbas, NEW b \in BlockValues, CardOK, Unacked(lba), acked' = acked,
           \/ WriteOk(lba, b) /\ loose = {}
           \/ WriteFails(lba, b) /\ at' \notin WriteLabels
    PROVE  CardOK'
<1>1. CASE WriteOk(lba, b) /\ loose = {}
  <2>1. disk' = [disk EXCEPT ![lba] = b] /\ loose' = {}
    BY <1>1 DEF WriteOk
  <2>2. disk' \in [Lbas -> BlockValues]
    BY <2>1 DEF CardOK
  <2>3. AckedOnCard'
    BY <2>1 DEF CardOK, AckedOnCard, Unacked
  <2>4. QED
    BY <2>1, <2>2, <2>3 DEF CardOK
<1>2. CASE WriteFails(lba, b) /\ at' \notin WriteLabels
  <2>1. disk' = disk /\ (loose' = loose \/ loose' = {<<lba, b>>})
    BY <1>2 DEF WriteFails
  <2>2. AckedOnCard'
    BY <2>1 DEF CardOK, AckedOnCard
  <2>3. \A w \in loose' : Unacked(w[1])'
    BY <2>1 DEF CardOK, Unacked
  <2>4. loose' \subseteq Lbas \X BlockValues
    BY <2>1 DEF CardOK
  <2>5. QED
    BY <1>2, <2>1, <2>2, <2>3, <2>4 DEF CardOK
<1>3. QED
  BY <1>1, <1>2

\* A step that leaves the card alone, and begins no writing with a block loose.
LEMMA CardLeftAlone ==
    ASSUME CardOK, UNCHANGED <<disk, loose>>, acked' \subseteq acked, at' \in WriteLabels => loose = {}
    PROVE  CardOK'
  BY DEF CardOK, AckedOnCard, Unacked

\* No step of the loader disturbs a block that the host takes to be written (sd.c).
LEMMA LoaderKeepsCard ==
    ASSUME IInv, Loader
    PROVE  CardOK'
<1>1. acked' = acked /\ CardOK /\ Aligned
  BY DEF Loader, hostVars, IInv
<1>2. CASE Block
  <2>1. at = "block" /\ rx # <<>> /\ loose = {}
    BY <1>1, <1>2 DEF Block, Take, CardOK, WriteLabels
  <2>2. job.lba \in Lbas /\ Item \in BlockValues /\ Unacked(job.lba)
    BY <1>1, <2>1, WritesAsSent
  <2>3. CASE WriteOk(job.lba, Item)
    BY <1>1, <2>1, <2>2, <2>3, WriteKeepsCard
  <2>4. CASE WriteFails(job.lba, Item) /\ Back
    BY <1>1, <2>2, <2>4, WriteKeepsCard DEF Back, WriteLabels
  <2>5. QED
    BY <1>2, <2>3, <2>4 DEF Block
<1>3. CASE at = "testData" /\ Take
           /\ \/ WriteOk(TEST_LBA, Item) /\ On("testRead") /\ Silent
              \/ WriteFails(TEST_LBA, Item) /\ Back /\ Say(<<Is("fail")>>)
  <2>1. rx # <<>> /\ loose = {}
    BY <1>1, <1>3 DEF Take, CardOK, WriteLabels
  <2>2. TEST_LBA \in Lbas /\ Item \in BlockValues /\ Unacked(TEST_LBA)
    BY <1>1, <1>3, <2>1, WritesAsSent, Stage2Assumption
  <2>3. CASE WriteOk(TEST_LBA, Item)
    BY <1>1, <2>1, <2>2, <2>3, WriteKeepsCard
  <2>4. CASE WriteFails(TEST_LBA, Item) /\ Back
    BY <1>1, <2>2, <2>4, WriteKeepsCard DEF Back, WriteLabels
  <2>5. QED
    BY <1>3, <2>3, <2>4
<1>4. ASSUME NEW label, NEW next, NEW greeting, NEW failure, Opens(label, next, greeting, failure)
      PROVE  CardOK'
  BY <1>1, <1>4, CardLeftAlone DEF Opens, InitOk, InitFails, On, Back, WriteLabels, cardVars
<1>5. CASE at = "testRead" /\ Deaf /\ Back
           /\ \/ ReadOk /\ Say(<<Is("WRITE_OK")>>)
              \/ ReadFails /\ Say(<<Is("fail")>>)
  BY <1>1, <1>5, CardLeftAlone DEF ReadOk, ReadFails, Back, WriteLabels, cardVars
<1>6. CASE MultiCount \/ SegLba \/ SegCount
  <2>1. UNCHANGED <<disk, loose>> /\ loose = {}
    BY <1>1, <1>6 DEF MultiCount, SegLba, SegCount, NoCall, cardVars, CardOK, WriteLabels
  <2>2. QED
    BY <1>1, <2>1, CardLeftAlone
<1>7. CASE Start \/ Command
  <2>1. UNCHANGED <<disk, loose>>
    BY <1>7 DEF Start, Command, NoCall, cardVars
  <2>2. at' \notin WriteLabels
    <3>1. CASE Start
      BY <3>1 DEF Start, On, Halt, WriteLabels
    <3>2. CASE Command
      <4>1. PICK m : at' = Entry(m)
        BY <3>2 DEF Command, Dispatch
      <4>2. QED
        BY <4>1 DEF Entry, WriteLabels
    <3>3. QED
      BY <1>7, <3>1, <3>2
  <2>3. QED
    BY <1>1, <2>1, <2>2, CardLeftAlone
<1>8. CASE ReadHeader \/ Smoke
  <2>1. CASE at \in {"readHeader", "smokeRead"}
    BY <1>1, <1>8, <2>1, CardLeftAlone DEF ReadHeader, Smoke, Opens, ReadOk, ReadFails, Back, WriteLabels, cardVars
  <2>2. QED
    BY <1>4, <1>8, <2>1 DEF ReadHeader, Smoke
<1>9. CASE DumpLba \/ DumpCount \/ DumpBlock
  BY <1>1, <1>9, CardLeftAlone DEF DumpLba, DumpCount, DumpBlock, NoCall, ReadOk, ReadFails, Back, On, OnWith,
     WriteLabels, cardVars
<1>10. CASE SetBaud \/ Probe
  BY <1>1, <1>10, CardLeftAlone DEF SetBaud, Probe, NoCall, Back, WriteLabels, cardVars
<1>11. CASE Boot
  BY <1>1, <1>11, CardLeftAlone DEF Boot, BootHeader, BootRead, InitOk, InitFails, ReadOk, ReadFails, On, Halt, Hand,
     WriteLabels, cardVars
<1>12. CASE Linux \/ Uboot
  BY <1>1, <1>12, CardLeftAlone DEF Linux, KernelLoad, DtbLoad, InitrdLoad, Uboot, Received, NotReceived, NoCall, Halt,
     Hand, WriteLabels, cardVars, loaderVars
<1>13. QED
  BY <1>2, <1>3, <1>4, <1>5, <1>6, <1>7, <1>8, <1>9, <1>10, <1>11, <1>12 DEF Loader, Dump, WriteTest, Multi
-----------------------------------------------------------------------------
(***************************************************************************)
(* The loader's own state.                                                 *)
(***************************************************************************)

\* A byte that the dispatcher takes is the known mode byte of a session, or a probe (main).
LEMMA ModeIsKnown ==
    ASSUME Aligned, at \in Prompts, rx # <<>>
    PROVE  Head(rx).is = "probe" \/ \E m \in Known : Head(rx) = ModeItem(m)
<1>1. CASE Booting
  BY <1>1 DEF Booting, Boots, Astray, AskedFor, TermLabels, Final, Prompts, Terminal, Known
<1>2. CASE Idle
  BY <1>2 DEF Idle
<1>3. ASSUME NEW p, InSession(p), ~Idle
      PROVE  \E m \in Known : Head(rx) = ModeItem(m)
  <2>1. \/ \E m \in Known : rx = <<ModeItem(m)>>
        \/ \E m \in Known : \E n : rx = <<ModeItem(m), U32(n)>>
        \/ \E m \in Known : \E n, c : rx = <<ModeItem(m), U32(n), U32(c)>>
    BY <1>3 DEF InSession, MultiOpening, MultiSegment, MultiBlock, Testing, Switching, Asking,
       Awaits, AtPrompt, Answered, Refused, Idle, Stored, Prompts, Known
  <2>2. QED
    BY <2>1, Taken
<1>4. CASE \E p : Probing(p)
  <2>1. PICK S : rx \in Seq(S) /\ \A x \in S : x.is = "probe"
    BY <1>4 DEF Probing, OnlyProbes
  <2>2. Head(rx) \in S
    BY <2>1
  <2>3. QED
    BY <2>1, <2>2
<1>5. QED
  BY <1>1, <1>2, <1>3, <1>4 DEF Aligned

\* No job is a job.
LEMMA NoJobIsJob == NoJob = [f \in JobFields |-> NoJob[f]]
  BY DEF NoJob, JobFields

\* The loader's state keeps to its range at each of its steps (main and all its modes).
LEMMA LoaderKeepsControl ==
    ASSUME IInv, Loader
    PROVE  ControlOK'
<1>1. ControlOK /\ Aligned /\ hbaud' = hbaud
  BY DEF Loader, hostVars, IInv
<1>2. CASE Start
  BY <1>1, <1>2 DEF Start, On, Halt, Silent, ControlOK, Labels, Prompts, TermLabels, Final
<1>3. CASE Command
  <2>1. UNCHANGED <<job, baud, mem, tx>> /\ at \in Prompts
    BY <1>3 DEF Command, Dispatch, Silent, Prompts
  <2>2. CASE at' = Entry("b") /\ mode' = "timeout"
    <3>1. at' = "bootInit" /\ mode' = "timeout"
      BY <2>2, EntryOf
    <3>2. QED
      BY <1>1, <2>1, <3>1 DEF ControlOK, Labels, TermLabels
  <2>3. CASE Take /\ Dispatch(IF Head(rx).is = "mode" THEN Item ELSE Head(rx).is)
    <3>1. PICK m \in Known \cup {"probe"} : at' = Entry(m) /\ mode' = m
      <4>1. rx # <<>>
        BY <2>3 DEF Take
      <4>2. CASE Head(rx).is = "probe"
        BY <2>3, <4>2 DEF Dispatch
      <4>3. CASE \E m \in Known : Head(rx) = ModeItem(m)
        BY <2>3, <4>3 DEF ModeItem, Item, Dispatch
      <4>4. QED
        BY <1>1, <2>1, <4>1, <4>2, <4>3, ModeIsKnown
    <3>2. at' \in {"multiInit", "testInit", "dumpLba", "baud", "readInit", "smokeInit", "bootInit", "kernelLoad",
                   "ubootLoad"}
      BY <3>1, EntryOf DEF Known
    <3>3. QED
      BY <1>1, <2>1, <3>1, <3>2 DEF ControlOK, Labels, TermLabels, Known
  <2>4. QED
    BY <1>3, <2>2, <2>3 DEF Command
<1>4. ASSUME NEW label, NEW next \in {"smokeRead", "readHeader", "dump", "testData", "multiCount"}, NEW greeting,
             NEW failure, Opens(label, next, greeting, failure)
      PROVE  ControlOK'
  <2>1. CASE On(next)
    BY <1>1, <1>4, <2>1 DEF On, ControlOK, Labels, WriteLabels
  <2>2. CASE Back
    BY <1>1, <2>2, NoJobIsJob DEF Back, ControlOK, Labels, Prompts
  <2>3. QED
    BY <1>4, <2>1, <2>2 DEF Opens
<1>5. ASSUME Back PROVE ControlOK'
  BY <1>1, <1>5, NoJobIsJob DEF Back, ControlOK, Labels, Prompts
<1>6. CASE ReadHeader \/ Smoke
  BY <1>4, <1>5, <1>6 DEF ReadHeader, Smoke
<1>7. CASE Dump
  <2>1. ASSUME NEW f \in {"lba", "left"}, NEW x, NEW next \in {"dumpCount", "dumpInit"},
               OnWith(next, [job EXCEPT ![f] = x])
        PROVE  ControlOK'
    BY <1>1, <2>1 DEF OnWith, ControlOK, Labels, JobFields
  <2>2. ASSUME OnWith("dump", [job EXCEPT !.lba = @ + 1, !.left = @ - 1])
        PROVE  ControlOK'
    BY <1>1, <2>2 DEF OnWith, ControlOK, Labels, JobFields
  <2>3. CASE DumpLba
    BY <2>1, <2>3 DEF DumpLba
  <2>4. CASE DumpCount
    BY <1>5, <2>1, <2>4 DEF DumpCount
  <2>5. CASE DumpBlock
    BY <1>5, <2>2, <2>5 DEF DumpBlock
  <2>6. QED
    BY <1>4, <1>7, <2>3, <2>4, <2>5 DEF Dump
<1>8. CASE WriteTest
  <2>1. ASSUME On("testRead") PROVE ControlOK'
    BY <1>1, <2>1 DEF On, ControlOK, Labels, WriteLabels
  <2>2. QED
    BY <1>4, <1>5, <1>8, <2>1 DEF WriteTest
<1>9. CASE Multi
  <2>1. CASE MultiCount
    <3>1. CASE Item \in 1 .. MAX_SEGS /\ OnWith("segLba", [job EXCEPT !.segs = Item])
      BY <1>1, <3>1 DEF OnWith, ControlOK, Labels, WriteLabels, JobFields
    <3>2. QED
      BY <1>5, <2>1, <3>1 DEF MultiCount
  <2>2. CASE SegLba
    BY <1>1, <2>2 DEF SegLba, OnWith, ControlOK, Labels, WriteLabels, JobFields
  <2>3. CASE SegCount
    <3>1. CASE Item \in 1 .. MAX_SECS /\ OnWith("block", [job EXCEPT !.left = Item])
      BY <1>1, <2>3, <3>1 DEF SegCount, OnWith, ControlOK, Labels, WriteLabels, JobFields
    <3>2. QED
      BY <1>5, <2>3, <3>1 DEF SegCount
  <2>4. CASE Block
    <3>1. at = "block" /\ job.segs \in 1 .. MAX_SEGS /\ job.left \in 1 .. MAX_SECS
      BY <1>1, <2>4 DEF Block, ControlOK
    <3>2. MAX_SEGS \in Nat /\ MAX_SECS \in Nat
      BY ParameterAssumption
    <3>3. CASE job.left > 1 /\ OnWith("block", [job EXCEPT !.lba = @ + 1, !.left = @ - 1])
      <4>1. job'.segs = job.segs /\ job'.left = job.left - 1 /\ job' = [f \in JobFields |-> job'[f]]
        BY <1>1, <3>3 DEF OnWith, ControlOK, JobFields
      <4>2. job'.left \in 1 .. MAX_SECS
        BY <3>1, <3>2, <3>3, <4>1
      <4>3. QED
        BY <1>1, <3>1, <3>3, <4>1, <4>2 DEF OnWith, ControlOK, Labels, WriteLabels
    <3>4. CASE job.segs > 1 /\ OnWith("segLba", [NoJob EXCEPT !.segs = job.segs - 1])
      <4>1. job'.segs = job.segs - 1 /\ job' = [f \in JobFields |-> job'[f]]
        BY <3>4 DEF OnWith, NoJob, JobFields
      <4>2. job'.segs \in 1 .. MAX_SEGS
        BY <3>1, <3>2, <3>4, <4>1
      <4>3. QED
        BY <1>1, <3>4, <4>1, <4>2 DEF OnWith, ControlOK, Labels, WriteLabels
    <3>5. QED
      BY <1>5, <2>4, <3>3, <3>4 DEF Block, NextBlock
  <2>5. QED
    BY <1>4, <1>9, <2>1, <2>2, <2>3, <2>4 DEF Multi
<1>10. CASE SetBaud
  <2>1. CASE Item \in MIN_BAUD .. MAX_BAUD /\ baud' = Item /\ at' = "probe" /\ UNCHANGED <<mode, job, mem>>
    BY <1>1, <2>1 DEF ControlOK, Labels
  <2>2. QED
    BY <1>5, <1>10, <2>1 DEF SetBaud
<1>11. CASE Probe
  BY <1>5, <1>11 DEF Probe
<1>12. CASE Boot \/ Linux \/ Uboot
  <2>1. at \in TermLabels /\ at' \in TermLabels /\ mode' = mode /\ baud' = baud /\ DOMAIN mem' = DOMAIN mem
    BY <1>12 DEF Boot, BootHeader, BootRead, Linux, KernelLoad, DtbLoad, InitrdLoad, Uboot, On, Halt, Hand,
       Loaded, PatchedDtb, loaderVars, TermLabels, Final
  <2>2. job' = [f \in JobFields |-> job'[f]]
    BY <1>1, <1>12 DEF Boot, BootHeader, BootRead, Linux, KernelLoad, DtbLoad, InitrdLoad, Uboot, On, Halt, Hand,
       ControlOK, loaderVars, JobFields
  <2>3. QED
    BY <1>1, <2>1, <2>2 DEF ControlOK, Labels, TermLabels, Final
<1>13. QED
  BY <1>2, <1>3, <1>6, <1>7, <1>8, <1>9, <1>10, <1>11, <1>12 DEF Loader
-----------------------------------------------------------------------------
(***************************************************************************)
(* The steps of the host.                                                  *)
(***************************************************************************)

\* What a host may send in phase p, and the phase that it comes to.
Sending(p, s, q) ==
    \/ p.at = "prompt" /\ \E m \in Known : s.item = ModeItem(m) /\ q = Plain(Opened(m))
    \/ p.at = "multiCount" /\ \E n : s.item = U32(n) /\ q = Phase("multiGo", n, 0, 0, Empty, {})
    \/ p.at = "segLba" /\ s.over = {}
       /\ \E n : s.item = U32(n) /\ q = Phase("segCount", p.segs, n, 0, Empty, p.wrote)
    \/ p.at = "segCount" /\ s.over = {}
       /\ \E n : s.item = U32(n) /\ q = Phase("block", p.segs, p.lba, n, Empty, p.wrote)
    \/ p.at = "block" /\ p.left \in 1 .. MAX_SECS /\ p.lba \in Lbas /\ s.over = {p.lba}
       /\ \E b \in BlockValues :
             /\ s.item = DataIs(b)
             /\ q = Phase("written", p.segs, p.lba, p.left, b, p.wrote)
    \/ p.at = "testData" /\ s.over = {TEST_LBA}
       /\ \E b \in BlockValues : s.item = DataIs(b) /\ q = Phase("testDone", 0, 0, 0, b, {})
    \/ p.at = "dumpLba" /\ \E n : s.item = U32(n) /\ q = Plain("dumpCount")
    \/ p.at = "dumpCount" /\ \E n : s.item = U32(n) /\ q = Plain("reply")
    \/ p.at = "baud" /\ \E n : s.item = U32(n) /\ q = Phase("switch", 0, n, 0, Empty, {})
    \/ p.at = "probe" /\ \E n : s.item = [is |-> "probe", val |-> n] /\ q = Plain("probing")

\* What a host may send in each phase, and the phase that it comes to then (the protocol
\* comments of sd.c and main.c).
LEMMA SendPhases ==
    ASSUME NEW p, NEW s, NEW q, s.do = "send", q = After(p, s), q # Lost, p.at \notin {"boot", "load", "probing"}
    PROVE  Sending(p, s, q)
<1> USE DEF Sending
<1>1. CASE p.at = "prompt"
  BY <1>1 DEF After, If, Sends, ModeItem
<1>2. CASE p.at \in {"multiCount", "segLba", "segCount"}
  BY <1>2 DEF After, If, Sends, U32
<1>3. CASE p.at \in {"block", "testData"}
  BY <1>3 DEF After, If, Writes, Expects
<1>4. CASE p.at \in {"dumpLba", "dumpCount", "baud", "probe"}
  <2>1. CASE p.at \in {"dumpLba", "dumpCount"}
    BY <2>1 DEF After, If, Sends, U32
  <2>2. CASE p.at \in {"baud", "probe"}
    BY <2>2 DEF After, If, Sends, U32
  <2>3. QED
    BY <1>4, <2>1, <2>2
<1>5. CASE p.at \in {"multiInit", "multiGo", "written", "done", "testInit", "testDone", "switch", "rate",
                     "reply", "listen"}
  BY <1>5 DEF After, If, Hears, Confirms, Listens, Turns
<1>6. QED
  BY <1>1, <1>2, <1>3, <1>4, <1>5 DEF After

\* What a host may wait for in phase p, and the phase that it comes to.
Hearing(p, s, q) ==
    \/ p.at = "multiInit" /\ s.messages = {Is("MW_READY")} /\ s.done = {}
       /\ q = Plain("multiCount")
    \/ p.at = "multiGo" /\ s.messages = {Is("MW_GO")} /\ s.done = {}
       /\ q = Phase("segLba", p.segs, 0, 0, Empty, {})
    \/ p.at = "block" /\ p.left \notin 1 .. MAX_SECS /\ Is("fail") \notin s.messages
    \/ p.at = "written" /\ s.messages = {Is("K")} /\ s.done = {<<p.lba, p.b>>} /\ q = Confirmed(p)
    \/ p.at = "done" /\ s.messages = {Is("MW_DONE")} /\ s.done = {} /\ Complete(p.wrote)
       /\ q = Listen
    \/ p.at = "testInit" /\ s.messages = {Is("SEND_512")} /\ s.done = {}
       /\ q = Plain("testData")
    \/ p.at = "testDone" /\ s.messages = {Is("WRITE_OK")} /\ s.done = {<<TEST_LBA, p.b>>}
       /\ q = Listen
    \/ p.at = "switch" /\ s.messages = {Is("BAUD_SWITCH")} /\ s.done = {}
       /\ q = Phase("rate", 0, p.lba, 0, Empty, {})
    \/ p.at \in {"reply", "listen"} /\ s.done = {} /\ Is("MW_DONE") \notin s.messages
       /\ q = Listen

\* What a host may wait for in each phase, and the phase that it comes to when it has
\* heard that (the protocol comments of sd.c and main.c).
LEMMA HearPhases ==
    ASSUME NEW p, NEW s, NEW q, s.do = "hear", q = After(p, s), q # Lost, p.at \notin {"boot", "load", "probing"}
    PROVE  Hearing(p, s, q)
<1> USE DEF Hearing
<1>1. CASE p.at \in {"multiInit", "multiGo", "done", "testInit", "switch"}
  <2>1. CASE p.at = "multiInit"
    BY <2>1 DEF After, If, Hears
  <2>2. CASE p.at = "multiGo"
    BY <2>2 DEF After, If, Hears
  <2>3. CASE p.at = "done"
    BY <2>3 DEF After, If, Hears
  <2>4. CASE p.at = "testInit"
    BY <2>4 DEF After, If, Hears
  <2>5. CASE p.at = "switch"
    BY <2>5 DEF After, If, Hears
  <2>6. QED
    BY <1>1, <2>1, <2>2, <2>3, <2>4, <2>5
<1>2. CASE p.at = "block"
  BY <1>2 DEF After, If, Writes, Expects
<1>3. CASE p.at \in {"written", "testDone"}
  BY <1>3 DEF After, If, Confirms
<1>4. CASE p.at \in {"reply", "listen"}
  BY <1>4 DEF After, If, Listens
<1>5. CASE p.at \in {"prompt", "multiCount", "segLba", "segCount", "testData", "dumpLba", "dumpCount", "baud",
                     "rate", "probe"}
  BY <1>5 DEF After, If, Sends, Writes, Turns
<1>6. QED
  BY <1>1, <1>2, <1>3, <1>4, <1>5 DEF After

\* The host turns to the new rate once the switch is announced (mode_set_baud).
LEMMA RatePhases ==
    ASSUME NEW p, NEW s, NEW q, s.do = "rate", q = After(p, s), q # Lost, p.at \notin {"boot", "load", "probing"}
    PROVE  p.at = "rate" /\ s.baud = p.lba /\ q = Plain("probe")
<1>1. CASE p.at = "rate"
  BY <1>1 DEF After, If, Turns
<1>2. CASE p.at \in {"prompt", "multiInit", "multiCount", "multiGo", "segLba", "segCount", "block", "written",
                     "done", "testInit", "testData", "testDone", "dumpLba", "dumpCount", "baud", "switch", "probe",
                     "reply", "listen"}
  BY <1>2 DEF After, If, Sends, Writes, Hears, Confirms, Listens, Expects
<1>3. QED
  BY <1>1, <1>2 DEF After

\* The host probes until it hears of the new rate (mode_set_baud).
LEMMA ProbePhases ==
    ASSUME NEW p, NEW s, NEW q, p.at = "probing", q = After(p, s), q # Lost
    PROVE  \/ s.do = "send" /\ s.item.is = "probe" /\ q = p
           \/ s.do = "hear" /\ s.done = {} /\ q = Listen
  BY DEF After, If, Sends, Listens

\* A session has no phase of a boot that is still aligned: the loader boots by then (main).
LEMMA SessionPhases ==
    ASSUME NEW p, InSession(p)
    PROVE  /\ p.at \notin {"boot", "load", "probing"}
           /\ p.at \in {"listen", "reply", "prompt", "dumpLba", "dumpCount"} => SameRate
  BY DEF InSession, MultiOpening, MultiSegment, MultiBlock, Testing, Switching, Asking

\* What the host sends in an update takes back the acknowledgement of the block alone that
\* it is to be written to (sd_write_multi).
LEMMA SendKeepsUpdate ==
    ASSUME NEW p, NEW s, NEW q, Sending(p, s, q), Updating(p), torn' = torn,
           acked' = {w \in acked : w[1] \notin s.over}
    PROVE  Updating(q)'
<1>1. CASE p.at \in {"segLba", "segCount"}
  <2>1. q.at \in {"segCount", "block"} /\ q.wrote = p.wrote /\ s.over = {}
    BY <1>1 DEF Sending, Phase
  <2>2. QED
    BY <1>1, <2>1 DEF Updating
<1>2. CASE p.at = "block"
  <2>1. q.at = "written" /\ q.wrote = p.wrote /\ q.lba = p.lba /\ s.over = {p.lba}
    BY <1>2 DEF Sending, Phase
  <2>2. QED
    BY <1>2, <2>1 DEF Updating
<1>3. CASE p.at \in {"prompt", "multiCount", "testData", "dumpLba", "dumpCount", "baud", "probe"}
  <2>1. q.at \notin {"segLba", "segCount", "block", "written", "done"}
    <3>1. CASE p.at = "prompt"
      BY <3>1 DEF Sending, Plain, Phase, Opened, Known
    <3>2. CASE p.at \in {"multiCount", "testData", "baud"}
      BY <3>2 DEF Sending, Phase
    <3>3. CASE p.at = "dumpLba"
      BY <3>3 DEF Sending, Plain, Phase
    <3>4. CASE p.at = "dumpCount"
      BY <3>4 DEF Sending, Plain, Phase
    <3>5. CASE p.at = "probe"
      <4>1. q = Plain("probing")
        BY <3>5 DEF Sending
      <4>2. QED
        BY <4>1 DEF Plain, Phase
    <3>6. QED
      BY <1>3, <3>1, <3>2, <3>3, <3>4, <3>5
  <2>2. QED
    BY <2>1 DEF Updating
<1>4. QED
  BY <1>1, <1>2, <1>3 DEF Sending

\* An item that the host sends goes behind the few that the loader has still to take
\* (uart_raw_recv).
LEMMA SendAligned ==
    ASSUME IInv, HostSend, UNCHANGED <<loaderVars, cardVars, faults, cycles>>
    PROVE  Aligned'
<1>s. PICK s : s = Head(script)
  OBVIOUS
<1>1. /\ script # <<>> /\ s.do = "send" /\ script' = Tail(script)
      /\ rx' = IF hbaud = baud THEN Append(rx, s.item) ELSE rx
      /\ acked' = {w \in acked : w[1] \notin s.over}
      /\ UNCHANGED <<at, mode, job, baud, mem, disk, loose, tx, hbaud, torn>>
  BY <1>s DEF HostSend, loaderVars, cardVars
<1>2. CASE Booting
  <2>1. PICK S : rx \in Seq(S)
    BY DEF IInv, LineOK
  <2>2. rx # <<>> => rx' # <<>> /\ Head(rx') = Head(rx)
    BY <1>1, <2>1
  <2>3. Booting'
    BY <1>1, <1>2, <2>2 DEF Booting, Boots, Astray, AskedFor
  <2>4. QED
    BY <2>3 DEF Aligned
<1>p. ASSUME NEW p, Follows(p, script), Probing(p)
      PROVE  Aligned'
  <2>1. PICK q : q = After(p, s) /\ q # Lost /\ Follows(q, script')
    BY <1>s, <1>1, <1>p, SessionGoesOn
  <2>2. q = p /\ s.item.is = "probe"
    BY <1>1, <1>p, <2>1, ProbePhases DEF Probing
  <2>3. PICK S : rx \in Seq(S) /\ \A x \in S : x.is = "probe"
    BY <1>p DEF Probing, OnlyProbes
  <2>4. rx' = Append(rx, s.item) /\ SameRate'
    BY <1>1, <1>p DEF Probing, SameRate
  <2>5. PICK T : T = S \cup {s.item}
    OBVIOUS
  <2>6. rx \in Seq(T) /\ s.item \in T /\ \A x \in T : x.is = "probe"
    BY <2>2, <2>3, <2>5
  <2>7. rx' \in Seq(T) /\ rx' # <<>>
    BY <2>4, <2>6
  <2>8. Probing(p)'
    BY <1>1, <1>p, <2>4, <2>6, <2>7 DEF Probing, OnlyProbes
  <2>9. QED
    BY <2>1, <2>2, <2>8 DEF Aligned
<1>3. ASSUME NEW p, Follows(p, script), InSession(p), Updating(p)
      PROVE  Aligned'
  <2>1. PICK q : q = After(p, s) /\ q # Lost /\ Follows(q, script')
    BY <1>s, <1>1, <1>3, SessionGoesOn
  <2>2. p.at \notin {"boot", "load", "probing"}
    BY <1>3, SessionPhases
  <2>15. Sending(p, s, q)
    BY <1>1, <2>1, <2>2, SendPhases
  <2>3. SUFFICES InSession(q)' \/ Probing(q)' \/ Booting'
    <3>1. Updating(q)'
      BY <1>1, <1>3, <2>15, SendKeepsUpdate
    <3>2. QED
      BY <2>1, <3>1 DEF Aligned
  <2>4. Unacked(p.lba) => Unacked(p.lba)'
    BY <1>1 DEF Unacked
  <2>5. CASE p.at = "prompt" /\ \E m \in Known : s.item = ModeItem(m) /\ q = Plain(Opened(m))
    <3>1. SameRate /\ AtPrompt(<<>>)
      BY <1>3, <2>5 DEF InSession, MultiOpening, MultiSegment, MultiBlock, Testing, Switching, Asking
    <3>2. PICK m \in Known : s.item = ModeItem(m) /\ q = Plain(Opened(m))
      BY <2>5
    <3>3. rx' = <<ModeItem(m)>> /\ tx' = <<>> /\ at' \in Prompts /\ SameRate'
      BY <1>1, <3>1, <3>2 DEF SameRate, AtPrompt
    <3>4. q.at = Opened(m)
      BY <3>2 DEF Plain, Phase
    <3>5. CASE m \in Terminal
      <4>1. Head(rx') = ModeItem(m) /\ rx' # <<>>
        BY <3>3, Taken
      <4>2. QED
        BY <3>3, <3>5, <4>1 DEF Booting, AskedFor
    <3>6. CASE m = "W"
      BY <3>3, <3>4, <3>6 DEF Opened, InSession, MultiOpening, AtPrompt
    <3>7. CASE m = "w"
      BY <3>3, <3>4, <3>7 DEF Opened, InSession, Testing, AtPrompt
    <3>8. CASE m = "d"
      BY <3>3, <3>4, <3>8 DEF Opened, InSession, Asking, AtPrompt
    <3>9. CASE m = "B"
      BY <3>3, <3>4, <3>9 DEF Opened, InSession, Switching, AtPrompt
    <3>10. CASE m \in {"R", "s"}
      BY <3>3, <3>4, <3>10 DEF Opened, InSession, Asking, AtPrompt
    <3>11. QED
      BY <3>5, <3>6, <3>7, <3>8, <3>9, <3>10 DEF Known, Terminal
  <2>6. CASE p.at = "multiCount" /\ \E n : s.item = U32(n) /\ q = Phase("multiGo", n, 0, 0, Empty, {})
    <3>1. SameRate /\ Awaits("multiCount", <<>>)
      BY <1>3, <2>6 DEF InSession, MultiOpening, MultiSegment, MultiBlock, Testing, Switching, Asking
    <3>2. q.at = "multiGo" /\ s.item = U32(q.segs)
      BY <2>6 DEF Phase
    <3>3. rx' = <<U32(q.segs)>> /\ tx' = <<>> /\ at' = "multiCount" /\ SameRate'
      BY <1>1, <3>1, <3>2 DEF SameRate, Awaits
    <3>4. QED
      BY <3>2, <3>3 DEF InSession, MultiOpening, Awaits
  <2>7. CASE p.at = "segLba" /\ s.over = {}
             /\ \E n : s.item = U32(n) /\ q = Phase("segCount", p.segs, n, 0, Empty, p.wrote)
    <3>1. SameRate /\ Awaits("segLba", <<>>) /\ Job(p)
      BY <1>3, <2>7 DEF InSession, MultiOpening, MultiSegment, MultiBlock, Testing, Switching, Asking
    <3>2. q.at = "segCount" /\ s.item = U32(q.lba) /\ q.segs = p.segs
      BY <2>7 DEF Phase
    <3>3. rx' = <<U32(q.lba)>> /\ tx' = <<>> /\ at' = "segLba" /\ SameRate' /\ Job(q)'
      BY <1>1, <3>1, <3>2 DEF SameRate, Awaits, Job
    <3>4. QED
      BY <3>2, <3>3 DEF InSession, MultiSegment, Awaits
  <2>8. CASE p.at = "segCount" /\ s.over = {}
             /\ \E n : s.item = U32(n) /\ q = Phase("block", p.segs, p.lba, n, Empty, p.wrote)
    <3>1. SameRate /\ \/ Awaits("segLba", <<U32(p.lba)>>) /\ Job(p)
                      \/ Awaits("segCount", <<>>) /\ JobAt(p)
      BY <1>3, <2>8 DEF InSession, MultiOpening, MultiSegment, MultiBlock, Testing, Switching, Asking
    <3>2. q.at = "block" /\ s.item = U32(q.left) /\ q.segs = p.segs /\ q.lba = p.lba
      BY <2>8 DEF Phase
    <3>3. CASE Awaits("segLba", <<U32(p.lba)>>) /\ Job(p)
      <4>1. rx' = <<U32(q.lba), U32(q.left)>>
        BY <1>1, <3>1, <3>2, <3>3, AppendedSecond DEF SameRate, Awaits
      <4>2. tx' = <<>> /\ at' = "segLba" /\ SameRate' /\ Job(q)'
        BY <1>1, <3>1, <3>2, <3>3 DEF SameRate, Awaits, Job
      <4>3. QED
        BY <3>2, <4>1, <4>2 DEF InSession, MultiSegment, Awaits
    <3>4. CASE Awaits("segCount", <<>>) /\ JobAt(p)
      <4>1. rx' = <<U32(q.left)>> /\ tx' = <<>> /\ at' = "segCount" /\ SameRate' /\ JobAt(q)'
        BY <1>1, <3>1, <3>2, <3>4 DEF SameRate, Awaits, Job, JobAt
      <4>2. QED
        BY <3>2, <4>1 DEF InSession, MultiSegment, Awaits
    <3>5. QED
      BY <3>1, <3>3, <3>4
  <2>9. CASE p.at = "block" /\ p.left \in 1 .. MAX_SECS /\ p.lba \in Lbas /\ s.over = {p.lba}
             /\ \E b \in BlockValues :
                   s.item = DataIs(b) /\ q = Phase("written", p.segs, p.lba, p.left, b, p.wrote)
    <3>1. SameRate /\ \/ Awaits("segLba", <<U32(p.lba), U32(p.left)>>) /\ Job(p)
                      \/ Awaits("segCount", <<U32(p.left)>>) /\ JobAt(p)
                      \/ Awaits("block", <<>>) /\ JobIn(p)
      BY <1>3, <2>9 DEF InSession, MultiOpening, MultiSegment, MultiBlock, Testing, Switching, Asking
    <3>2. q.at = "written" /\ s.item = DataIs(q.b) /\ q.b \in BlockValues /\ q.segs = p.segs /\ q.lba = p.lba
          /\ q.left = p.left
      BY <2>9 DEF Phase
    <3>3. Unacked(q.lba)'
      BY <1>1, <2>9, <3>2 DEF Unacked
    <3>4. SUFFICES MultiBlock(q)'
      BY DEF InSession
    <3>5. CASE Awaits("segLba", <<U32(p.lba), U32(p.left)>>) /\ Job(p)
      <4>1. rx' = <<U32(q.lba), U32(q.left), DataIs(q.b)>>
        BY <1>1, <3>1, <3>2, <3>5, AppendedThird DEF SameRate, Awaits
      <4>2. tx' = <<>> /\ at' = "segLba" /\ SameRate' /\ Job(q)'
        BY <1>1, <3>1, <3>2, <3>5 DEF SameRate, Awaits, Job
      <4>3. QED
        BY <2>9, <3>2, <3>3, <4>1, <4>2 DEF MultiBlock, Awaits
    <3>6. CASE Awaits("segCount", <<U32(p.left)>>) /\ JobAt(p)
      <4>1. rx' = <<U32(q.left), DataIs(q.b)>>
        BY <1>1, <3>1, <3>2, <3>6, AppendedSecond DEF SameRate, Awaits
      <4>2. tx' = <<>> /\ at' = "segCount" /\ SameRate' /\ JobAt(q)'
        BY <1>1, <3>1, <3>2, <3>6 DEF SameRate, Awaits, Job, JobAt
      <4>3. QED
        BY <2>9, <3>2, <3>3, <4>1, <4>2 DEF MultiBlock, Awaits
    <3>7. CASE Awaits("block", <<>>) /\ JobIn(p)
      <4>1. rx' = <<DataIs(q.b)>> /\ tx' = <<>> /\ at' = "block" /\ SameRate' /\ JobIn(q)'
        BY <1>1, <3>1, <3>2, <3>7 DEF SameRate, Awaits, Job, JobAt, JobIn
      <4>2. QED
        BY <2>9, <3>2, <3>3, <4>1 DEF MultiBlock, Awaits
    <3>8. QED
      BY <3>1, <3>5, <3>6, <3>7
  <2>10. CASE p.at = "testData" /\ s.over = {TEST_LBA}
              /\ \E b \in BlockValues : s.item = DataIs(b) /\ q = Phase("testDone", 0, 0, 0, b, {})
    <3>1. SameRate /\ Awaits("testData", <<>>)
      BY <1>3, <2>10 DEF InSession, MultiOpening, MultiSegment, MultiBlock, Testing, Switching, Asking
    <3>2. q.at = "testDone" /\ s.item = DataIs(q.b) /\ q.b \in BlockValues
      BY <2>10 DEF Phase
    <3>3. rx' = <<DataIs(q.b)>> /\ tx' = <<>> /\ at' = "testData" /\ SameRate'
      BY <1>1, <3>1, <3>2 DEF SameRate, Awaits
    <3>4. Unacked(TEST_LBA)'
      BY <1>1, <2>10 DEF Unacked
    <3>5. QED
      BY <3>2, <3>3, <3>4 DEF InSession, Testing, Awaits
  <2>11. CASE p.at = "dumpLba" /\ \E n : s.item = U32(n) /\ q = Plain("dumpCount")
    <3>1. SameRate /\ (AtPrompt(<<ModeItem("d")>>) \/ Awaits("dumpLba", <<>>))
      BY <1>3, <2>11 DEF InSession, MultiOpening, MultiSegment, MultiBlock, Testing, Switching, Asking
    <3>2. PICK n : s.item = U32(n) /\ q.at = "dumpCount"
      BY <2>11 DEF Plain, Phase
    <3>3. SameRate' /\ tx' = <<>> /\ at' = at
      BY <1>1, <3>1 DEF SameRate, AtPrompt, Awaits
    <3>4. CASE AtPrompt(<<ModeItem("d")>>)
      <4>1. AtPrompt(<<ModeItem("d"), U32(n)>>)'
        BY <1>1, <3>1, <3>2, <3>3, <3>4, AppendedSecond DEF SameRate, AtPrompt
      <4>2. QED
        BY <3>2, <3>3, <4>1 DEF InSession, Asking
    <3>5. CASE Awaits("dumpLba", <<>>)
      <4>1. Awaits("dumpLba", <<U32(n)>>)'
        BY <1>1, <3>1, <3>2, <3>3, <3>5 DEF SameRate, Awaits
      <4>2. QED
        BY <3>2, <3>3, <4>1 DEF InSession, Asking
    <3>6. QED
      BY <3>1, <3>4, <3>5
  <2>12. CASE p.at = "dumpCount" /\ \E n : s.item = U32(n) /\ q = Plain("reply")
    <3>1. SameRate /\ \/ \E n : AtPrompt(<<ModeItem("d"), U32(n)>>) \/ Awaits("dumpLba", <<U32(n)>>)
                      \/ Awaits("dumpCount", <<>>)
      BY <1>3, <2>12 DEF InSession, MultiOpening, MultiSegment, MultiBlock, Testing, Switching, Asking
    <3>2. PICK c : s.item = U32(c) /\ q.at = "reply"
      BY <2>12 DEF Plain, Phase
    <3>3. SameRate' /\ tx' = <<>> /\ at' = at
      BY <1>1, <3>1 DEF SameRate, AtPrompt, Awaits
    <3>4. ASSUME NEW n, AtPrompt(<<ModeItem("d"), U32(n)>>) PROVE InSession(q)'
      <4>1. AtPrompt(<<ModeItem("d"), U32(n), U32(c)>>)'
        BY <1>1, <3>1, <3>2, <3>3, <3>4, AppendedThird DEF SameRate, AtPrompt
      <4>2. QED
        BY <3>2, <3>3, <4>1 DEF InSession, Asking
    <3>5. ASSUME NEW n, Awaits("dumpLba", <<U32(n)>>) PROVE InSession(q)'
      <4>1. Awaits("dumpLba", <<U32(n), U32(c)>>)'
        BY <1>1, <3>1, <3>2, <3>3, <3>5, AppendedSecond DEF SameRate, Awaits
      <4>2. QED
        BY <3>2, <3>3, <4>1 DEF InSession, Asking
    <3>6. CASE Awaits("dumpCount", <<>>)
      <4>1. Awaits("dumpCount", <<U32(c)>>)'
        BY <1>1, <3>1, <3>2, <3>3, <3>6 DEF SameRate, Awaits
      <4>2. QED
        BY <3>2, <3>3, <4>1 DEF InSession, Asking
    <3>7. QED
      BY <3>1, <3>4, <3>5, <3>6
  <2>13. CASE p.at = "baud" /\ \E n : s.item = U32(n) /\ q = Phase("switch", 0, n, 0, Empty, {})
    <3>1. SameRate /\ (AtPrompt(<<ModeItem("B")>>) \/ Awaits("baud", <<>>))
      BY <1>3, <2>13 DEF InSession, MultiOpening, MultiSegment, MultiBlock, Testing, Switching, Asking
    <3>2. s.item = U32(q.lba) /\ q.at = "switch"
      BY <2>13 DEF Phase
    <3>3. SameRate' /\ tx' = <<>> /\ at' = at
      BY <1>1, <3>1 DEF SameRate, AtPrompt, Awaits
    <3>4. CASE AtPrompt(<<ModeItem("B")>>)
      <4>1. AtPrompt(<<ModeItem("B"), U32(q.lba)>>)'
        BY <1>1, <3>1, <3>2, <3>3, <3>4, AppendedSecond DEF SameRate, AtPrompt
      <4>2. QED
        BY <3>2, <3>3, <4>1 DEF InSession, Switching
    <3>5. CASE Awaits("baud", <<>>)
      <4>1. Awaits("baud", <<U32(q.lba)>>)'
        BY <1>1, <3>1, <3>2, <3>3, <3>5 DEF SameRate, Awaits
      <4>2. QED
        BY <3>2, <3>3, <4>1 DEF InSession, Switching
    <3>6. QED
      BY <3>1, <3>4, <3>5
  <2>14. CASE p.at = "probe" /\ \E n : s.item = [is |-> "probe", val |-> n] /\ q = Plain("probing")
    <3>1. SameRate /\ Awaits("probe", <<>>)
      BY <1>3, <2>14 DEF InSession, MultiOpening, MultiSegment, MultiBlock, Testing, Switching, Asking
    <3>2. PICK x : x = s.item
      OBVIOUS
    <3>3. x.is = "probe" /\ q.at = "probing"
      <4>1. PICK n : s.item = [is |-> "probe", val |-> n] /\ q = Plain("probing")
        BY <2>14
      <4>2. QED
        BY <3>2, <4>1 DEF Plain, Phase
    <3>4. at' = "probe" /\ rx' = <<x>> /\ tx' = <<>> /\ SameRate'
      BY <1>1, <3>1, <3>2 DEF SameRate, Awaits
    <3>5. PICK S : S = {x}
      OBVIOUS
    <3>6. rx' \in Seq(S) /\ rx' # <<>> /\ \A y \in S : y.is = "probe"
      BY <3>3, <3>4, <3>5
    <3>7. OnlyProbes'
      BY <3>6 DEF OnlyProbes
    <3>8. QED
      BY <3>3, <3>4, <3>6, <3>7 DEF Probing
  <2>16. QED
    <3>1. CASE p.at \in {"prompt", "multiCount"}
      BY <2>5, <2>6, <2>15, <3>1 DEF Sending
    <3>2. CASE p.at = "segLba"
      BY <2>7, <2>15, <3>2 DEF Sending
    <3>3. CASE p.at = "segCount"
      BY <2>8, <2>15, <3>3 DEF Sending
    <3>4. CASE p.at \in {"block", "testData"}
      BY <2>9, <2>10, <2>15, <3>4 DEF Sending
    <3>5. CASE p.at \in {"dumpLba", "dumpCount", "baud", "probe"}
      BY <2>11, <2>12, <2>13, <2>14, <2>15, <3>5 DEF Sending
    <3>6. QED
      BY <2>15, <3>1, <3>2, <3>3, <3>4, <3>5 DEF Sending
<1>4. QED
  BY <1>1, <1>2, <1>p, <1>3 DEF IInv, Aligned

\* The host waits for a message only from a loader that has nothing to take and can be
\* heard; what it says ends the session, or is what the phase expects (sd.c, main.c).
LEMMA HearInSession ==
    ASSUME NEW p, InSession(p), NEW s, NEW q, tx # <<>>, Hearing(p, s, q)
    PROVE  /\ Idle
           /\ Head(tx) \notin s.messages => SameRate
           /\ Head(tx) \in s.messages =>
                 \/ p.at = "multiInit" /\ SameRate /\ at = "multiCount" /\ Tail(tx) = <<>>
                    /\ q = Plain("multiCount") /\ s.done = {}
                 \/ p.at = "multiGo" /\ SameRate /\ at = "segLba" /\ Tail(tx) = <<>> /\ Job(p)
                    /\ q = Phase("segLba", p.segs, 0, 0, Empty, {}) /\ s.done = {}
                 \/ p.at = "written" /\ SameRate /\ Stored(p) /\ q = Confirmed(p) /\ s.done = {<<p.lba, p.b>>}
                    /\ p.lba \in Lbas /\ p.b \in BlockValues
                 \/ p.at = "testInit" /\ SameRate /\ at = "testData" /\ Tail(tx) = <<>>
                    /\ q = Plain("testData") /\ s.done = {}
                 \/ p.at = "testDone" /\ SameRate /\ q = Listen /\ s.done = {<<TEST_LBA, p.b>>}
                    /\ p.b \in BlockValues /\ disk[TEST_LBA] = p.b /\ loose = {}
                 \/ p.at = "switch" /\ at = "probe" /\ Tail(tx) = <<>> /\ baud = p.lba
                    /\ q = Phase("rate", 0, p.lba, 0, Empty, {}) /\ s.done = {}
                 \/ p.at \in {"done", "reply", "listen"} /\ SameRate /\ q = Listen /\ s.done = {}
<1> USE DEF Hearing
<1>m. /\ Is("fail") \notin {Is("MW_READY"), Is("MW_GO"), Is("K"), Is("MW_DONE"), Is("SEND_512"), Is("WRITE_OK"),
                            Is("BAUD_SWITCH")}
      /\ Is("MW_READY") # Is("MW_GO") /\ Is("SEND_512") # Is("WRITE_OK")
  BY DEF Is
<1>o. ASSUME NEW m, tx = <<m>> PROVE Head(tx) = m /\ Tail(tx) = <<>>
  BY <1>o, Taken
<1>1. CASE p.at \in {"multiInit", "multiGo"}
  <2>1. MultiOpening(p)
    BY <1>1 DEF InSession, MultiOpening, MultiSegment, MultiBlock, Testing, Switching, Asking
  <2>2. SameRate /\ Idle
    BY <1>1, <2>1 DEF MultiOpening, AtPrompt, Awaits, Answered, Refused, Idle, TermLabels, Final
  <2>3. \/ tx = <<Is("MW_READY")>> /\ p.at = "multiInit" /\ at = "multiCount"
        \/ tx = <<Is("MW_GO")>> /\ p.at = "multiGo" /\ at = "segLba" /\ Job(p)
        \/ tx = <<Is("fail")>>
    BY <1>1, <2>1 DEF MultiOpening, AtPrompt, Awaits, Answered, Refused
  <2>4. QED
    BY <1>1, <1>m, <1>o, <2>2, <2>3
<1>2. CASE p.at \in {"block", "done"}
  <2>1. MultiSegment(p)
    BY <1>2 DEF InSession, MultiOpening, MultiSegment, MultiBlock, Testing, Switching, Asking
  <2>2. SameRate /\ Idle
    BY <1>2, <2>1 DEF MultiSegment, Awaits, Answered, Refused, Idle, TermLabels, Final
  <2>3. \/ tx = <<Is("MW_DONE")>> /\ p.at = "done"
        \/ tx = <<Is("fail")>> /\ p.at = "block"
    BY <1>2, <2>1 DEF MultiSegment, Awaits, Answered, Refused
  <2>4. QED
    BY <1>2, <1>m, <1>o, <2>2, <2>3
<1>3. CASE p.at = "written"
  <2>1. MultiBlock(p)
    BY <1>3 DEF InSession, MultiOpening, MultiSegment, MultiBlock, Testing, Switching, Asking
  <2>2. SameRate /\ Idle /\ p.lba \in Lbas /\ p.b \in BlockValues
    BY <1>3, <2>1 DEF MultiBlock, Stored, Awaits, Answered, Refused, Idle, TermLabels, Final
  <2>3. Stored(p) \/ tx = <<Is("fail")>>
    BY <1>3, <2>1 DEF MultiBlock, Awaits, Refused, Answered
  <2>4. QED
    BY <1>3, <1>m, <1>o, <2>2, <2>3
<1>4. CASE p.at \in {"testInit", "testDone"}
  <2>1. Testing(p)
    BY <1>4 DEF InSession, MultiOpening, MultiSegment, MultiBlock, Testing, Switching, Asking
  <2>2. SameRate /\ Idle
    BY <1>4, <2>1 DEF Testing, AtPrompt, Awaits, Answered, Refused, Idle, TermLabels, Final
  <2>3. \/ tx = <<Is("SEND_512")>> /\ p.at = "testInit" /\ at = "testData"
        \/ tx = <<Is("WRITE_OK")>> /\ p.at = "testDone" /\ p.b \in BlockValues /\ disk[TEST_LBA] = p.b /\ loose = {}
        \/ tx = <<Is("fail")>>
    BY <1>4, <2>1 DEF Testing, AtPrompt, Awaits, Answered, Refused
  <2>4. QED
    BY <1>4, <1>m, <1>o, <2>2, <2>3
<1>5. CASE p.at = "switch"
  <2>1. Switching(p)
    BY <1>5 DEF InSession, MultiOpening, MultiSegment, MultiBlock, Testing, Switching, Asking
  <2>2. Idle
    BY <1>5, <2>1 DEF Switching, AtPrompt, Awaits, Answered, Refused, Idle, TermLabels, Final
  <2>3. \/ tx = <<Is("BAUD_SWITCH")>> /\ at = "probe" /\ baud = p.lba
        \/ tx = <<Is("fail")>> /\ SameRate
    BY <1>5, <2>1 DEF Switching, AtPrompt, Awaits, Answered, Refused
  <2>4. QED
    BY <1>5, <1>m, <1>o, <2>2, <2>3
<1>6. CASE p.at \in {"reply", "listen"}
  <2>1. Asking(p)
    BY <1>6 DEF InSession, MultiOpening, MultiSegment, MultiBlock, Testing, Switching, Asking
  <2>2. SameRate /\ Idle
    BY <1>6, <2>1 DEF Asking, AtPrompt, Awaits
  <2>3. QED
    BY <1>6, <2>2
<1>7. QED
  BY <1>1, <1>2, <1>3, <1>4, <1>5, <1>6

\* A host that has probed hears BAUD_OK, or gives the session up; the loader is at the
\* prompt then, unless it has a probe to take still, or took it (mode_set_baud, main).
LEMMA ProbesHeard ==
    ASSUME IInv, HostHear, UNCHANGED <<loaderVars, cardVars, faults, cycles>>,
           NEW p, Follows(p, script), Probing(p)
    PROVE  Aligned' /\ CardOK'
<1>1. PICK s : s = Head(script)
  OBVIOUS
<1>2. /\ script # <<>> /\ s.do = "hear" /\ tx # <<>> /\ tx' = Tail(tx)
      /\ UNCHANGED <<at, mode, job, baud, mem, disk, loose, rx, hbaud>>
      /\ Head(tx) \in s.messages => script' = Tail(script) /\ acked' = acked \cup s.done
      /\ Head(tx) \notin s.messages => script' = <<>> /\ acked' = acked
  BY <1>1 DEF HostHear, loaderVars, cardVars
<1>3. PICK q : q = After(p, s) /\ q # Lost /\ Follows(q, Tail(script))
  BY <1>1, <1>2, SessionGoesOn
<1>4. s.done = {} /\ q = Listen
  BY <1>2, <1>3, ProbePhases DEF Probing
<1>5. /\ tx' = <<>> /\ SameRate' /\ UNCHANGED <<at, mode, rx, acked>>
      /\ at = "cmd" \/ (at \in {"ubootLoad", "halt"} /\ mode = "probe")
  BY <1>2, <1>4, Taken DEF Probing, SameRate
<1>6. CardOK'
  BY <1>2, <1>5, CardLeftAlone DEF IInv, CardOK
<1>7. CASE at \in {"ubootLoad", "halt"} /\ mode = "probe"
  BY <1>5, <1>6, <1>7 DEF Aligned, Booting, Boots, TermLabels, Final, Excused
<1>8. CASE at = "cmd" /\ rx # <<>>
  <2>1. PICK S : rx \in Seq(S) /\ \A x \in S : x.is = "probe"
    BY DEF Probing, OnlyProbes
  <2>2. Head(rx) \in S
    BY <1>8, <2>1
  <2>3. Astray'
    BY <1>5, <1>8, <2>1, <2>2 DEF Astray, Prompts
  <2>4. QED
    BY <1>5, <1>6, <2>3 DEF Aligned, Booting
<1>9. CASE at = "cmd" /\ rx = <<>>
  <2>1. Idle'
    BY <1>5, <1>9 DEF Idle, TermLabels, Final
  <2>2. CASE Head(tx) \notin s.messages
    BY <1>2, <1>5, <1>6, <2>1, <2>2 DEF Aligned
  <2>3. CASE Head(tx) \in s.messages
    <3>1. q.at = "listen"
      BY <1>4 DEF Listen, Plain, Phase
    <3>2. InSession(q)' /\ Updating(q)'
      BY <1>5, <2>1, <3>1 DEF InSession, Asking, Updating
    <3>3. QED
      BY <1>2, <1>3, <1>6, <2>3, <3>2 DEF Aligned
  <2>4. QED
    BY <2>2, <2>3
<1>10. QED
  BY <1>5, <1>7, <1>8, <1>9

\* A message that the host hears takes it to the next phase, where the loader is by then,
\* or ends the session with the loader at the prompt (sd.c, main.c).
LEMMA HearAligned ==
    ASSUME IInv, HostHear, UNCHANGED <<loaderVars, cardVars, faults, cycles>>
    PROVE  Aligned' /\ CardOK'
<1>s. PICK s : s = Head(script)
  OBVIOUS
<1>1. /\ script # <<>> /\ s.do = "hear" /\ tx # <<>> /\ tx' = Tail(tx)
      /\ UNCHANGED <<at, mode, job, baud, mem, disk, loose, rx, hbaud>>
      /\ Head(tx) \in s.messages => script' = Tail(script) /\ acked' = acked \cup s.done
      /\ Head(tx) \notin s.messages => script' = <<>> /\ acked' = acked
  BY <1>s DEF HostHear, loaderVars, cardVars
<1>t. /\ Head(tx) \in s.messages /\ Head(tx) = Is("MW_GO") => torn' = TRUE
      /\ Head(tx) \in s.messages /\ Head(tx) = Is("K") => torn' = torn
  <2>1. Is("K") # Is("MW_GO") /\ Is("K") # Is("MW_DONE") /\ Is("MW_GO") # Is("MW_DONE")
    BY DEF Is
  <2>2. Head(tx) \in s.messages => torn' = CASE Head(tx) = Is("MW_GO")   -> TRUE
                                             [] Head(tx) = Is("MW_DONE") -> FALSE
                                             [] OTHER                    -> torn
    BY <1>s DEF HostHear
  <2>3. QED
    BY <2>1, <2>2
<1>p. CASE \E p : Follows(p, script) /\ Probing(p)
  BY <1>p, ProbesHeard
<1>q. SUFFICES ASSUME ~\E p : Follows(p, script) /\ Probing(p) PROVE Aligned' /\ CardOK'
  BY <1>p
<1>2. PICK p : Follows(p, script) /\ InSession(p) /\ Updating(p)
  BY <1>1, <1>q DEF IInv, Aligned, Booting, Boots, AskedFor
<1>3. PICK q : q = After(p, s) /\ q # Lost /\ Follows(q, Tail(script))
  BY <1>s, <1>1, <1>2, SessionGoesOn
<1>4. p.at \notin {"boot", "load", "probing"}
  BY <1>2, SessionPhases
<1>5. Hearing(p, s, q)
  BY <1>1, <1>3, <1>4, HearPhases
<1>6. Idle'
  BY <1>1, <1>2, <1>5, HearInSession DEF Idle
<1>7. CASE Head(tx) \notin s.messages
  <2>1. SameRate
    BY <1>1, <1>2, <1>5, <1>7, HearInSession
  <2>2. SameRate' /\ script' = <<>>
    BY <1>1, <1>7, <2>1 DEF SameRate
  <2>3. CardOK'
    BY <1>1, <1>7, CardLeftAlone DEF IInv, CardOK
  <2>4. QED
    BY <1>6, <2>2, <2>3 DEF Aligned
<1>8. CASE Head(tx) \in s.messages
  <2>1. SUFFICES InSession(q)' /\ Updating(q)' /\ CardOK'
    BY <1>1, <1>3, <1>8 DEF Aligned
  <2>u. q.at \notin {"segLba", "segCount", "block", "written", "done"} => Updating(q)'
    BY DEF Updating
  <2>2. ASSUME s.done = {} PROVE CardOK'
    BY <1>1, <1>8, <2>2, CardLeftAlone DEF IInv, CardOK
  <2>3. ASSUME NEW l \in Lbas, NEW b \in BlockValues, s.done = {<<l, b>>}, disk[l] = b, loose = {}
        PROVE  CardOK'
    BY <1>1, <1>8, <2>3 DEF IInv, CardOK, AckedOnCard
  <2>4. SameRate => SameRate'
    BY <1>1 DEF SameRate
  <2>5. CASE p.at = "multiInit" /\ SameRate /\ at = "multiCount" /\ Tail(tx) = <<>>
             /\ q = Plain("multiCount") /\ s.done = {}
    <3>1. q.at = "multiCount"
      BY <2>5 DEF Plain, Phase
    <3>2. QED
      BY <2>u, <1>1, <1>6, <2>2, <2>4, <2>5, <3>1 DEF InSession, MultiOpening, Awaits, Idle
  <2>6. CASE p.at = "multiGo" /\ SameRate /\ at = "segLba" /\ Tail(tx) = <<>> /\ Job(p)
             /\ q = Phase("segLba", p.segs, 0, 0, Empty, {}) /\ s.done = {}
    <3>1. q.at = "segLba" /\ q.segs = p.segs
      BY <2>6 DEF Phase
    <3>2. Head(tx) = Is("MW_GO") /\ q.wrote = {}
      <4>1. s.messages = {Is("MW_GO")}
        BY <1>5, <2>6 DEF Hearing
      <4>2. QED
        BY <1>8, <2>6, <4>1 DEF Phase
    <3>5. torn'
      BY <1>t, <1>8, <3>2
    <3>3. Updating(q)'
      BY <3>1, <3>2, <3>5 DEF Updating
    <3>4. QED
      BY <1>1, <1>6, <2>2, <2>4, <2>6, <3>1, <3>3 DEF InSession, MultiSegment, Awaits, Idle, Job
  <2>7. CASE p.at = "written" /\ SameRate /\ Stored(p) /\ q = Confirmed(p) /\ s.done = {<<p.lba, p.b>>}
             /\ p.lba \in Lbas /\ p.b \in BlockValues
    <3>1. disk[p.lba] = p.b /\ loose = {}
      BY <2>7 DEF Stored
    <3>2. CardOK'
      BY <2>3, <2>7, <3>1
    <3>7. q.at # "written" /\ q.wrote = Kept(p.wrote, p.lba, p.b)
      BY <2>7 DEF Confirmed, Phase
    <3>8. Updating(q)'
      <4>1. Head(tx) = Is("K")
        <5>1. s.messages = {Is("K")}
          BY <1>5, <2>7 DEF Hearing
        <5>2. QED
          BY <1>8, <5>1
      <4>2. torn /\ \A w \in p.wrote : w[1] = p.lba \/ w \in acked
        BY <1>2, <2>7 DEF Updating
      <4>3. torn' = torn
        BY <1>t, <1>8, <4>1
      <4>4. torn'
        BY <4>2, <4>3
      <4>5. acked' = acked \cup {<<p.lba, p.b>>}
        BY <1>1, <1>8, <2>7
      <4>6. \A w \in q.wrote : w \in acked'
        BY <3>7, <4>2, <4>5 DEF Kept
      <4>7. loose' = {}
        BY <1>1, <3>1
      <4>8. QED
        BY <3>7, <4>4, <4>6, <4>7 DEF Updating
    <3>3. CASE p.left > 1 /\ Answered("block", <<Is("K")>>)
               /\ job.segs = p.segs /\ job.lba = p.lba + 1 /\ job.left = p.left - 1
      <4>1. q.at = "block" /\ q.segs = p.segs /\ q.lba = p.lba + 1 /\ q.left = p.left - 1
        BY <2>7, <3>3 DEF Confirmed, Phase
      <4>2. tx = <<Is("K")>>
        BY <3>3 DEF Answered
      <4>3. tx' = <<>> /\ at' = "block" /\ JobIn(q)'
        BY <1>1, <3>3, <4>1, <4>2, Taken DEF Answered, JobIn, JobAt, Job
      <4>4. QED
        BY <1>6, <2>4, <2>7, <3>2, <3>8, <4>1, <4>3 DEF InSession, MultiSegment, Awaits, Idle
    <3>4. CASE ~(p.left > 1) /\ p.segs > 1 /\ Answered("segLba", <<Is("K")>>) /\ job.segs = p.segs - 1
      <4>1. q.at = "segLba" /\ q.segs = p.segs - 1
        BY <2>7, <3>4 DEF Confirmed, Phase
      <4>2. tx = <<Is("K")>>
        BY <3>4 DEF Answered
      <4>3. tx' = <<>> /\ at' = "segLba" /\ Job(q)'
        BY <1>1, <3>4, <4>1, <4>2, Taken DEF Answered, Job
      <4>4. QED
        BY <1>6, <2>4, <2>7, <3>2, <3>8, <4>1, <4>3 DEF InSession, MultiSegment, Awaits, Idle
    <3>5. CASE ~(p.left > 1) /\ ~(p.segs > 1) /\ Answered("cmd", <<Is("K"), Is("MW_DONE")>>)
      <4>1. q.at = "done"
        BY <2>7, <3>5 DEF Confirmed, Phase
      <4>2. tx = <<Is("K"), Is("MW_DONE")>> /\ at = "cmd"
        BY <3>5 DEF Answered
      <4>3. tx' = <<Is("MW_DONE")>> /\ at' = "cmd"
        BY <1>1, <4>2, Taken
      <4>4. QED
        BY <1>6, <2>4, <2>7, <3>2, <3>8, <4>1, <4>3 DEF InSession, MultiSegment, Answered, Idle
    <3>6. QED
      BY <2>7, <3>3, <3>4, <3>5 DEF Stored
  <2>8. CASE p.at = "testInit" /\ SameRate /\ at = "testData" /\ Tail(tx) = <<>>
             /\ q = Plain("testData") /\ s.done = {}
    <3>1. q.at = "testData"
      BY <2>8 DEF Plain, Phase
    <3>2. QED
      BY <2>u, <1>1, <1>6, <2>2, <2>4, <2>8, <3>1 DEF InSession, Testing, Awaits, Idle
  <2>9. CASE p.at = "testDone" /\ SameRate /\ q = Listen /\ s.done = {<<TEST_LBA, p.b>>}
             /\ p.b \in BlockValues /\ disk[TEST_LBA] = p.b /\ loose = {}
    <3>1. q.at = "listen"
      BY <2>9 DEF Listen, Plain, Phase
    <3>2. CardOK'
      BY <2>3, <2>9, Stage2Assumption
    <3>3. QED
      BY <2>u, <1>6, <2>4, <2>9, <3>1, <3>2 DEF InSession, Asking
  <2>10. CASE p.at = "switch" /\ at = "probe" /\ Tail(tx) = <<>> /\ baud = p.lba
              /\ q = Phase("rate", 0, p.lba, 0, Empty, {}) /\ s.done = {}
    <3>1. q.at = "rate" /\ q.lba = p.lba
      BY <2>10 DEF Phase
    <3>2. QED
      BY <2>u, <1>1, <1>6, <2>2, <2>10, <3>1 DEF InSession, Switching, Awaits, Idle
  <2>11. CASE p.at \in {"done", "reply", "listen"} /\ SameRate /\ q = Listen /\ s.done = {}
    <3>1. q.at = "listen"
      BY <2>11 DEF Listen, Plain, Phase
    <3>2. QED
      BY <2>u, <1>6, <2>2, <2>4, <2>11, <3>1 DEF InSession, Asking
  <2>12. QED
    BY <1>1, <1>2, <1>5, <1>8, <2>5, <2>6, <2>7, <2>8, <2>9, <2>10, <2>11, HearInSession
<1>9. QED
  BY <1>7, <1>8

\* The host turns to the new rate while the loader waits for its probe (mode_set_baud).
LEMMA RateAligned ==
    ASSUME IInv, HostRate, UNCHANGED <<loaderVars, cardVars, faults, cycles>>
    PROVE  Aligned'
<1>s. PICK s : s = Head(script)
  OBVIOUS
<1>1. /\ script # <<>> /\ s.do = "rate" /\ hbaud' = s.baud /\ script' = Tail(script)
      /\ UNCHANGED <<at, mode, job, baud, mem, disk, loose, rx, tx, acked>>
  BY <1>s DEF HostRate, loaderVars, cardVars
<1>2. CASE Booting
  BY <1>1, <1>2 DEF Booting, Boots, Astray, AskedFor, Aligned
<1>3. ASSUME NEW p, Follows(p, script), InSession(p)
      PROVE  Aligned'
  <2>1. PICK q : q = After(p, s) /\ q # Lost /\ Follows(q, script')
    BY <1>s, <1>1, <1>3, SessionGoesOn
  <2>2. p.at \notin {"boot", "load", "probing"}
    BY <1>3, SessionPhases
  <2>3. p.at = "rate" /\ s.baud = p.lba /\ q = Plain("probe")
    BY <1>1, <2>1, <2>2, RatePhases
  <2>4. Awaits("probe", <<>>) /\ baud = p.lba
    BY <1>3, <2>3 DEF InSession, MultiOpening, MultiSegment, MultiBlock, Testing, Switching, Asking
  <2>5. q.at = "probe"
    BY <2>3 DEF Plain, Phase
  <2>6. Awaits("probe", <<>>)' /\ SameRate'
    BY <1>1, <2>3, <2>4 DEF Awaits, SameRate
  <2>7. InSession(q)'
    BY <2>5, <2>6 DEF InSession, Switching
  <2>8. Updating(q)'
    BY <2>5 DEF Updating
  <2>9. QED
    BY <2>1, <2>7, <2>8 DEF Aligned
<1>4. ASSUME NEW p, Follows(p, script), Probing(p)
      PROVE  FALSE
  <2>1. PICK q : q = After(p, s) /\ q # Lost
    BY <1>s, <1>1, <1>4, SessionGoesOn
  <2>2. s.do # "rate"
    BY <1>4, <2>1, ProbePhases DEF Probing
  <2>3. QED
    BY <1>1, <2>2
<1>5. QED
  BY <1>1, <1>2, <1>3, <1>4 DEF IInv, Aligned

\* A session begins at the prompt of a loader with nothing to take (main).
LEMMA BeginAligned ==
    ASSUME IInv, Host
    PROVE  Aligned'
<1>1. /\ script = <<>> /\ at \in Prompts /\ script' \in Scripts /\ tx' = <<>>
      /\ UNCHANGED <<at, mode, job, baud, mem, disk, loose, rx, hbaud, acked>>
  BY DEF Host, HostBegin, Prompts, loaderVars, cardVars
<1>2. CASE Booting
  BY <1>1, <1>2 DEF Booting, Boots, Astray, AskedFor, Aligned
<1>3. CASE Idle /\ SameRate
  <2>1. PICK q : q = Prompt
    OBVIOUS
  <2>2. q.at = "prompt"
    BY <2>1 DEF Prompt, Plain, Phase
  <2>3. InSession(q)'
    BY <1>1, <1>3, <2>2 DEF InSession, Asking, Idle, SameRate, AtPrompt
  <2>4. Follows(q, script')
    BY <1>1, <2>1, SessionBegins
  <2>5. Updating(q)'
    BY <2>2 DEF Updating
  <2>6. QED
    BY <2>3, <2>4, <2>5 DEF Aligned
<1>4. ASSUME NEW p, Follows(p, script), InSession(p)
      PROVE  Idle /\ SameRate
  <2>1. p.at \in Settled
    BY <1>1, <1>4, SessionIsOver
  <2>2. QED
    BY <1>1, <1>4, <2>1 DEF Settled, InSession, MultiOpening, MultiSegment, MultiBlock, Testing, Switching, Asking,
       Awaits, Prompts
<1>5. ASSUME NEW p, Follows(p, script), Probing(p)
      PROVE  FALSE
  BY <1>1, <1>5, SessionIsOver DEF Settled, Probing
<1>6. QED
  BY <1>2, <1>3, <1>4, <1>5 DEF IInv, Aligned
-----------------------------------------------------------------------------
(***************************************************************************)
(* What the card does by itself, and the power.                            *)
(***************************************************************************)

\* A write that was given up lands: a block that the host does not take to be written
\* (sd_write_block).
LEMMA LandedCard ==
    ASSUME CardOK, disk' \in Landed \cup {disk}, loose' = {}, acked' = acked
    PROVE  CardOK'
<1>1. CASE disk' = disk
  BY <1>1 DEF CardOK, AckedOnCard
<1>2. ASSUME NEW w \in loose, disk' = [disk EXCEPT ![w[1]] = w[2]]
      PROVE  CardOK'
  <2>1. w[1] \in Lbas /\ w[2] \in BlockValues /\ Unacked(w[1])
    BY DEF CardOK
  <2>2. disk' \in [Lbas -> BlockValues]
    BY <1>2, <2>1 DEF CardOK
  <2>3. AckedOnCard'
    BY <1>2, <2>1 DEF CardOK, AckedOnCard, Unacked
  <2>4. QED
    BY <2>2, <2>3 DEF CardOK
<1>3. QED
  BY <1>1, <1>2 DEF Landed

\* A write that lands late disturbs no session: none is at a step that needs that block
\* (sd_init waits for the card).
LEMMA LandAligned ==
    ASSUME IInv, Land
    PROVE  Aligned'
<1>1. /\ loose # {}
      /\ UNCHANGED <<at, mode, job, baud, mem, rx, tx, hbaud, script, acked, torn>> /\ loose' = {}
  BY DEF Land, loaderVars, hostVars
<1>2. CASE Booting
  BY <1>1, <1>2 DEF Booting, Boots, Astray, AskedFor, Aligned
<1>3. CASE script = <<>> /\ Idle /\ SameRate
  BY <1>1, <1>3 DEF Idle, SameRate, Aligned
<1>4. ASSUME NEW p, Follows(p, script), InSession(p), Updating(p)
      PROVE  Aligned'
  <2>1. ~Stored(p) /\ at # "testRead"
    BY <1>1 DEF Stored, IInv, CardOK, WriteLabels
  <2>2. Unacked(p.lba) => Unacked(p.lba)'
    BY <1>1 DEF Unacked
  <2>3. Unacked(TEST_LBA) => Unacked(TEST_LBA)'
    BY <1>1 DEF Unacked
  <2>4. SameRate => SameRate'
    BY <1>1 DEF SameRate
  <2>s. SUFFICES InSession(p)'
    <3>1. Updating(p)'
      BY <1>1, <1>4 DEF Updating
    <3>2. QED
      BY <1>1, <1>4, <3>1 DEF Aligned
  <2>5. CASE MultiOpening(p)
    BY <1>1, <2>4, <2>5 DEF InSession, MultiOpening, AtPrompt, Awaits, Answered, Refused, Job
  <2>6. CASE MultiSegment(p)
    BY <1>1, <2>4, <2>6 DEF InSession, MultiSegment, Awaits, Answered, Refused, Job, JobAt, JobIn
  <2>7. CASE MultiBlock(p)
    BY <1>1, <2>1, <2>2, <2>4, <2>7 DEF InSession, MultiBlock, Awaits, Answered, Refused, Job, JobAt, JobIn
  <2>8. CASE Testing(p)
    BY <1>1, <2>1, <2>3, <2>4, <2>8 DEF InSession, Testing, AtPrompt, Awaits, Answered, Refused
  <2>9. CASE Switching(p)
    BY <1>1, <2>4, <2>9 DEF InSession, Switching, AtPrompt, Awaits, Answered, Refused
  <2>10. CASE Asking(p)
    BY <1>1, <2>4, <2>10 DEF InSession, Asking, AtPrompt, Awaits, Idle
  <2>11. QED
    BY <1>4, <2>5, <2>6, <2>7, <2>8, <2>9, <2>10 DEF InSession
<1>5. ASSUME NEW p, Follows(p, script), Probing(p)
      PROVE  Aligned'
  BY <1>1, <1>5 DEF Probing, OnlyProbes, SameRate, Aligned
<1>6. QED
  BY <1>2, <1>3, <1>4, <1>5 DEF IInv, Aligned
-----------------------------------------------------------------------------
(***************************************************************************)
(* The invariant, and what follows from it.                                *)
(***************************************************************************)

\* Items are taken from the front of the line, or not at all (uart_getc).
LEMMA LoaderTakes ==
    ASSUME Loader
    PROVE  UNCHANGED rx \/ Take
<1>1. CASE Start \/ Command \/ Smoke \/ ReadHeader \/ WriteTest \/ SetBaud \/ Probe
  BY <1>1 DEF Start, Command, Smoke, ReadHeader, WriteTest, SetBaud, Probe, Opens, Deaf
<1>2. CASE Dump \/ Multi
  BY <1>2 DEF Dump, DumpLba, DumpCount, DumpBlock, Multi, MultiCount, SegLba, SegCount, Block, Opens, Deaf
<1>3. CASE Boot \/ Linux \/ Uboot
  BY <1>3 DEF Boot, BootHeader, BootRead, Linux, KernelLoad, DtbLoad, InitrdLoad, Uboot, Received, NotReceived, Deaf
<1>4. QED
  BY <1>1, <1>2, <1>3 DEF Loader

\* What is on the line is a sequence of items (the UART of the loader).
LEMMA LineKept ==
    ASSUME LineOK, [Next]_vars
    PROVE  LineOK'
<1>1. PICK S : rx \in Seq(S)
  BY DEF LineOK
<1>2. CASE UNCHANGED rx
  BY <1>1, <1>2 DEF LineOK
<1>3. CASE Take
  <2>1. Tail(rx) \in Seq(S)
    BY <1>1, <1>3 DEF Take
  <2>2. QED
    BY <1>3, <2>1 DEF Take, LineOK
<1>4. CASE HostSend
  <2>1. PICK T : T = S \cup {Head(script).item}
    OBVIOUS
  <2>2. rx \in Seq(T) /\ Head(script).item \in T
    BY <1>1, <2>1
  <2>3. rx' \in Seq(T)
    BY <1>4, <2>2 DEF HostSend
  <2>4. QED
    BY <2>3 DEF LineOK
<1>5. CASE PowerCycle
  <2>1. rx' \in Seq({})
    BY <1>5 DEF PowerCycle
  <2>2. QED
    BY <2>1 DEF LineOK
<1>6. QED
  BY <1>2, <1>3, <1>4, <1>5, LoaderTakes DEF Next, HostStep, HostHear, HostRate, Host, HostBegin, Land, vars

\* A step of the host, or of the card, leaves the loader's own state alone, and the
\* power brings it back to the start (main).
LEMMA ControlKept ==
    ASSUME ControlOK, HostStep \/ Host \/ Land \/ PowerCycle
    PROVE  ControlOK'
<1>1. CASE HostStep \/ Host \/ Land
  <2>1. UNCHANGED <<at, mode, job, baud, mem>>
    BY <1>1 DEF HostStep, Host, Land, loaderVars
  <2>2. tx = <<>> => tx' = <<>>
    BY <1>1 DEF HostStep, HostSend, HostHear, HostRate, Host, HostBegin, Land
  <2>3. QED
    BY <2>1, <2>2 DEF ControlOK
<1>2. CASE PowerCycle
  <2>1. DEFAULT_BAUD \in MIN_BAUD .. MAX_BAUD
    BY ParameterAssumption
  <2>2. DOMAIN mem' = KERNEL .. MEM_END - 1
    BY <1>2 DEF PowerCycle, NoMem
  <2>3. at' = "start" /\ mode' = "none" /\ job' = NoJob /\ baud' = DEFAULT_BAUD /\ tx' = <<>>
    BY <1>2 DEF PowerCycle
  <2>4. QED
    BY <2>1, <2>2, <2>3, NoJobIsJob DEF ControlOK, Labels
<1>3. QED
  BY <1>1, <1>2

\* At power-on nothing was said, and the card holds version 1 (main).
LEMMA InitInvariant == Init => IInv
<1> SUFFICES ASSUME Init PROVE IInv
  OBVIOUS
<1> USE DEF Init
<1>1. ControlOK
  <2>1. DEFAULT_BAUD \in MIN_BAUD .. MAX_BAUD
    BY ParameterAssumption
  <2>2. DOMAIN mem = KERNEL .. MEM_END - 1
    BY DEF NoMem
  <2>3. QED
    BY <2>1, <2>2, NoJobIsJob DEF ControlOK, Labels
<1>2. CardOK
  <2>1. \A l \in Lbas : <<1, l>> \in BlockValues
    BY ParameterAssumption DEF BlockValues
  <2>2. disk \in [Lbas -> BlockValues]
    BY <2>1
  <2>3. QED
    BY <2>2 DEF CardOK, AckedOnCard
<1>3. Aligned
  BY DEF Aligned, Idle, SameRate, TermLabels, Final
<1>4. LineOK
  <2>1. rx \in Seq({})
    OBVIOUS
  <2>2. QED
    BY <2>1 DEF LineOK
<1>5. QED
  BY <1>1, <1>2, <1>3, <1>4 DEF IInv

\* Every step keeps the invariant (main, the modes, the host's protocol, the card).
LEMMA NextInvariant == IInv /\ [Next]_vars => IInv'
<1> SUFFICES ASSUME IInv, [Next]_vars PROVE IInv'
  OBVIOUS
<1>1. LineOK'
  BY LineKept DEF IInv
<1>2. CASE Loader
  BY <1>1, <1>2, LoaderAligned, LoaderKeepsCard, LoaderKeepsControl DEF IInv
<1>3. CASE HostStep
  <2>1. ControlOK'
    BY <1>3, ControlKept DEF IInv
  <2>2. CASE HostSend
    <3>1. UNCHANGED <<disk, loose, at>> /\ acked' \subseteq acked
      BY <1>3, <2>2 DEF HostStep, HostSend, loaderVars, cardVars
    <3>2. CardOK'
      BY <3>1, CardLeftAlone DEF IInv, CardOK
    <3>3. QED
      BY <1>1, <1>3, <2>1, <2>2, <3>2, SendAligned DEF IInv, HostStep
  <2>3. CASE HostHear
    BY <1>1, <1>3, <2>1, <2>3, HearAligned DEF IInv, HostStep
  <2>4. CASE HostRate
    <3>1. UNCHANGED <<disk, loose, at, acked>>
      BY <1>3, <2>4 DEF HostStep, HostRate, loaderVars, cardVars
    <3>2. CardOK'
      BY <3>1, CardLeftAlone DEF IInv, CardOK
    <3>3. QED
      BY <1>1, <1>3, <2>1, <2>4, <3>2, RateAligned DEF IInv, HostStep
  <2>5. QED
    BY <1>3, <2>2, <2>3, <2>4 DEF HostStep
<1>4. CASE Host
  <2>1. UNCHANGED <<disk, loose, at, acked>>
    BY <1>4 DEF Host, HostBegin, loaderVars, cardVars
  <2>2. CardOK'
    BY <2>1, CardLeftAlone DEF IInv, CardOK
  <2>3. QED
    BY <1>1, <1>4, <2>2, ControlKept, BeginAligned DEF IInv
<1>5. CASE Land
  <2>1. CardOK'
    BY <1>5, LandedCard DEF IInv, Land, hostVars
  <2>2. QED
    BY <1>1, <1>5, <2>1, ControlKept, LandAligned DEF IInv
<1>6. CASE PowerCycle
  <2>1. CardOK'
    BY <1>6, LandedCard DEF IInv, PowerCycle
  <2>2. Aligned'
    BY <1>6 DEF PowerCycle, Aligned, Idle, SameRate, TermLabels, Final
  <2>3. QED
    BY <1>1, <1>6, <2>1, <2>2, ControlKept DEF IInv
<1>7. CASE UNCHANGED vars
  <2>1. UNCHANGED <<at, mode, job, baud, mem, disk, loose, script, hbaud, rx, tx, acked, torn>>
    BY <1>7 DEF vars, loaderVars, cardVars, hostVars
  <2>2. ControlOK' /\ CardOK'
    BY <2>1 DEF IInv, ControlOK, CardOK, AckedOnCard, Unacked
  <2>3. Booting => Booting'
    BY <2>1 DEF Booting, Boots, Astray, AskedFor
  <2>4. script = <<>> /\ Idle /\ SameRate => (script = <<>> /\ Idle /\ SameRate)'
    BY <2>1 DEF Idle, SameRate
  <2>5. ASSUME NEW p, Follows(p, script), InSession(p), Updating(p)
        PROVE  Follows(p, script)' /\ InSession(p)' /\ Updating(p)'
    BY <2>1, <2>5 DEF InSession, MultiOpening, MultiSegment, MultiBlock, Testing, Switching, Asking, Stored, AtPrompt,
       Awaits, Answered, Refused, Idle, SameRate, Unacked, Job, JobAt, JobIn, Updating
  <2>6. ASSUME NEW p, Follows(p, script), Probing(p)
        PROVE  Follows(p, script)' /\ Probing(p)'
    BY <2>1, <2>6 DEF Probing, OnlyProbes, SameRate
  <2>7. Aligned'
    BY <2>3, <2>4, <2>5, <2>6 DEF IInv, Aligned
  <2>8. QED
    BY <1>1, <2>2, <2>7 DEF IInv
<1>8. QED
  BY <1>2, <1>3, <1>4, <1>5, <1>6, <1>7 DEF Next

\* The loader and its host stay aligned, in every session that keeps to the protocol,
\* through failed writes and power failures (main.c, sd.c).
THEOREM Stage2Invariant == Spec => []IInv
<1>1. QED
  BY InitInvariant, NextInvariant, PTL DEF Spec

\* Every variable of the loader keeps to its range; in particular a block is received only
\* within an update whose counts were accepted (main.c, sd_write_multi).
THEOREM Stage2TypeCorrect == Spec => []TypeOK
<1>1. IInv => TypeOK
  BY DEF IInv, ControlOK, CardOK, TypeOK, Labels, WriteLabels, TermLabels, Prompts
<1>2. QED
  BY <1>1, Stage2Invariant, PTL

\* What the host has been told is written is on the card, through later sessions, writes
\* that fail and land late, and power failures (sd_write_multi, sd_write_test).
THEOREM AcknowledgedOnCard == Spec => []AckedOnCard
<1>1. IInv => AckedOnCard
  BY DEF IInv, CardOK
<1>2. QED
  BY <1>1, Stage2Invariant, PTL

\* But for a host that probes again before it has heard BAUD_OK, the loader hands over or
\* halts only after a boot was asked for, by a mode byte or by silence, or when its memory
\* failed: no item that was meant for a mode ever comes to the dispatcher (main).
THEOREM LeavesAsAskedHolds == Spec => []LeavesAsAsked
<1>1. ASSUME Aligned, at \in Final PROVE mode \in Excused
  BY <1>1 DEF Aligned, Booting, Boots, Astray, AskedFor, InSession, MultiOpening, MultiSegment, MultiBlock, Testing,
     Switching, Asking, Stored, AtPrompt, Awaits, Answered, Refused, Idle, Prompts, TermLabels, Final, Probing, Excused
<1>2. IInv => LeavesAsAsked
  BY <1>1 DEF IInv, LeavesAsAsked, Excused
<1>3. QED
  BY <1>2, Stage2Invariant, PTL
-----------------------------------------------------------------------------
(***************************************************************************)
(* What Stage2 boots is whole: the card holds what an update has           *)
(* acknowledged, block by block, and mode l takes the three payloads of    *)
(* one session in order.                                                   *)
(***************************************************************************)
\* A header on the card is that of a whole version.
DiskSound == \A v \in Versions : disk[0] = <<v, 0>> => \A l \in Blob(v) : disk[l] = <<v, l>>

\* Between updates the card is sound, and only the block of the write test may change late.
CardSound == ~torn => DiskSound /\ \A w \in loose : w[1] = TEST_LBA

\* The SD boot reads a card that came up, and has found a header on it.
BootCard ==
    /\ at \in {"bootHeader", "bootRead"} => loose = {}
    /\ at = "bootRead" => HasMagic(disk[0])

\* Mode l has taken d of its payloads; before that, -1, its mode byte is the next item.
Standing(d) ==
    \/ d = -1 /\ AskedFor("l")
    \/ d = 0 /\ at = "kernelLoad"
    \/ d = 1 /\ at = "dtbLoad"
    \/ d = 2 /\ at = "initrdLoad"

\* The host is where it may send another payload after those in all, or a new mode byte.
Feeding(all) ==
    /\ SameRate
    /\ \E p : Follows(p, script) /\ (p.at = "prompt" \/ (p.at = "load" /\ p.b = all))

\* Of the payloads of the session that began with mode l, all that were sent, d were taken;
\* the others are on the line, and behind them nothing, or what is no payload.
Payload(b) == [is |-> "payload", val |-> b]
Feeds(d, all) ==
    /\ \E T : all \in Seq(T)
    /\ d <= Len(all) /\ Len(all) <= 3 /\ (Len(all) = 3 => Fit(all))
    /\ Len(rx) >= Len(all) - d
    /\ \A j \in 1 .. Len(all) : j > d => rx[j - d] = Payload(all[j])
    /\ \/ Len(rx) = Len(all) - d /\ Feeding(all)
       \/ Len(rx) > Len(all) - d /\ rx[Len(all) - d + 1].is # "payload"

\* The payloads that were taken are in memory, over whatever was there.
Held(d, all) ==
    \E m : /\ DOMAIN m = KERNEL .. MEM_END - 1
           /\ d = 1 => mem = Loaded(m, KERNEL, all[1]) /\ job.kernel_size = Len(all[1])
           /\ d = 2 => /\ mem = Loaded(Loaded(m, KERNEL, all[1]), DTB, all[2])
                       /\ job.kernel_size = Len(all[1]) /\ job.dtb_size = Len(all[2])

LinuxOK == \A d \in -1 .. 2 : Standing(d) => \E all : Feeds(d, all) /\ Held(d, all)

BootInv == IInv /\ CardSound /\ BootCard /\ LinuxOK /\ BootsWhole
-----------------------------------------------------------------------------
(***************************************************************************)
(* Numbers of blocks.                                                      *)
(***************************************************************************)

\* The quotient of a division.
LEMMA Quotient ==
    ASSUME NEW a \in Nat, NEW b \in Nat \ {0}
    PROVE  a \div b \in Nat /\ b * (a \div b) <= a /\ a < b * (a \div b) + b
  OBVIOUS

\* A block that begins within the bytes is one of their blocks (sd_read_many).
LEMMA BlockWithin == ASSUME NEW n \in Nat, NEW i \in Nat, i * BLOCK < n PROVE i + 1 <= Blocks(n)
<1>1. PICK q : q = Blocks(n)
  OBVIOUS
<1>2. q \in Nat /\ BLOCK * q <= n + BLOCK - 1 /\ n + BLOCK - 1 < BLOCK * q + BLOCK
  BY <1>1, ParameterAssumption, Quotient DEF Blocks
<1>3. q < i + 1 => BLOCK * q <= BLOCK * i
  BY <1>2, ParameterAssumption
<1>4. QED
  BY <1>1, <1>2, <1>3, ParameterAssumption

\* The blocks of some bytes hold them, and less than a block more (sd_read_many).
LEMMA BlocksHold ==
    ASSUME NEW n \in Nat
    PROVE  Blocks(n) \in Nat /\ Blocks(n) * BLOCK \in n .. n + BLOCK - 1
<1>1. PICK q : q = Blocks(n)
  OBVIOUS
<1>2. q \in Nat /\ BLOCK * q <= n + BLOCK - 1 /\ n + BLOCK - 1 < BLOCK * q + BLOCK
  BY <1>1, ParameterAssumption, Quotient DEF Blocks
<1>3. QED
  BY <1>1, <1>2, ParameterAssumption

(***************************************************************************)
(* The card.                                                               *)
(***************************************************************************)

\* The header of a version is that version's (boot_header).
LEMMA HeaderIs == ASSUME NEW v \in Versions PROVE HasMagic(<<v, 0>>) /\ HeaderOf(<<v, 0>>) = Layout[v]
<1>1. \A w \in Versions : <<v, 0>> = <<w, 0>> => w = v
  OBVIOUS
<1>2. (CHOOSE w \in Versions : <<v, 0>> = <<w, 0>>) = v
  BY <1>1
<1>3. QED
  BY <1>2 DEF HasMagic, HeaderOf

\* A block that is part of no blob leaves the card sound (sd_write_test).
LEMMA TestKeepsSound ==
    ASSUME TestBlockFree, disk \in [Lbas -> BlockValues], DiskSound, NEW b, disk' = [disk EXCEPT ![TEST_LBA] = b]
    PROVE  DiskSound'
<1> SUFFICES ASSUME NEW v \in Versions, disk'[0] = <<v, 0>>, NEW l \in Blob(v)
             PROVE  disk'[l] = <<v, l>>
  BY DEF DiskSound
<1>1. TEST_LBA # 0 /\ TEST_LBA # l /\ 0 \in Lbas /\ l \in Lbas
  BY LayoutAssumption DEF TestBlockFree, Blob
<1>2. disk'[0] = disk[0] /\ disk'[l] = disk[l]
  BY <1>1
<1>3. QED
  BY <1>2 DEF DiskSound

\* Only an update writes to another block than the write test's, and the card counts as
\* torn meanwhile (sd_write_multi).
LEMMA BlockIsTorn ==
    ASSUME IInv, at = "block", rx # <<>>
    PROVE  torn
<1>1. PICK p : InSession(p) /\ Updating(p) /\ ~Idle
  BY DEF IInv, Aligned, Booting, Boots, Astray, AskedFor, Idle, TermLabels, Final, Prompts, Probing
<1>2. p.at = "written"
  BY <1>1 DEF InSession, MultiOpening, MultiSegment, MultiBlock, Testing, Switching, Asking, Awaits, AtPrompt,
     Answered, Refused, Idle, Prompts
<1>3. QED
  BY <1>1, <1>2 DEF Updating

\* What the loader does to the card: a block of an update, the block of the write test,
\* or nothing (sd_write_multi, sd_write_test).
LEMMA LoaderWrites ==
    ASSUME Loader
    PROVE  \/ UNCHANGED <<disk, loose>>
           \/ at = "block" /\ rx # <<>> /\ at' \in {"cmd", "block", "segLba"}
           \/ /\ at = "testData" /\ at' \in {"cmd", "testRead"}
              /\ \E b : WriteOk(TEST_LBA, b) \/ WriteFails(TEST_LBA, b)
<1>1. CASE Start \/ Command \/ Smoke \/ ReadHeader \/ SetBaud \/ Probe
  BY <1>1 DEF Start, Command, Smoke, ReadHeader, SetBaud, Probe, Opens, NoCall, InitOk, InitFails, ReadOk, ReadFails,
     cardVars
<1>2. CASE Dump
  BY <1>2 DEF Dump, DumpLba, DumpCount, DumpBlock, Opens, NoCall, InitOk, InitFails, ReadOk, ReadFails, cardVars
<1>3. CASE WriteTest
  BY <1>3 DEF WriteTest, Opens, InitOk, InitFails, ReadOk, ReadFails, cardVars, On, Back
<1>4. CASE Multi
  <2>1. CASE Block
    BY <2>1 DEF Block, Take, NextBlock, OnWith, Back
  <2>2. CASE ~Block
    BY <1>4, <2>2 DEF Multi, MultiCount, SegLba, SegCount, Opens, NoCall, InitOk, InitFails, cardVars
  <2>3. QED
    BY <2>1, <2>2
<1>5. CASE Boot \/ Linux \/ Uboot
  BY <1>5 DEF Boot, BootHeader, BootRead, Linux, KernelLoad, DtbLoad, InitrdLoad, Uboot, Received, NotReceived,
     NoCall, InitOk, InitFails, ReadOk, ReadFails, cardVars
<1>6. QED
  BY <1>1, <1>2, <1>3, <1>4, <1>5 DEF Loader

\* A write that lands late, or is lost with the power, leaves the card sound
\* (sd_write_test, the programming of a block).
LEMMA LandingKeepsSound ==
    ASSUME TestBlockFree, CardOK, CardSound, torn' = torn, disk' \in Landed \cup {disk}, loose' = {}
    PROVE  CardSound'
<1> SUFFICES ASSUME ~torn PROVE DiskSound'
  BY DEF CardSound
<1>1. CASE disk' = disk
  BY <1>1 DEF CardSound, DiskSound
<1>2. ASSUME NEW w \in loose, disk' = [disk EXCEPT ![w[1]] = w[2]]
      PROVE  DiskSound'
  <2>1. w[1] = TEST_LBA
    BY DEF CardSound
  <2>2. QED
    BY <1>2, <2>1, TestKeepsSound DEF CardOK, CardSound
<1>3. QED
  BY <1>1, <1>2 DEF Landed

\* An update whose end the host hears has left the card whole, or without a header
\* (sd_write_multi).
LEMMA CompleteIsSound ==
    ASSUME CardOK, NEW wrote, Complete(wrote), wrote \subseteq acked
    PROVE  DiskSound
<1>1. \A w \in wrote : disk[w[1]] = w[2]
  BY DEF CardOK, AckedOnCard
<1>2. CASE \E w \in wrote : w[1] = 0 /\ ~HasMagic(w[2])
  BY <1>1, <1>2 DEF DiskSound, HasMagic
<1>3. ASSUME NEW v \in Versions, \A l \in Blob(v) : <<l, <<v, l>>>> \in wrote
      PROVE  DiskSound
  <2>1. \A l \in Blob(v) : disk[l] = <<v, l>>
    BY <1>1, <1>3
  <2>2. disk[0] = <<v, 0>>
    BY <2>1 DEF Blob
  <2>3. QED
    BY <2>1, <2>2 DEF DiskSound
<1>4. QED
  BY <1>2, <1>3 DEF Complete

\* The host hears the end of an update only when the card is as the update meant it
\* (sd_write_multi).
LEMMA HearKeepsSound ==
    ASSUME IInv, CardSound, HostHear, UNCHANGED <<loaderVars, cardVars, faults, cycles>>
    PROVE  CardSound'
<1>s. PICK s : s = Head(script)
  OBVIOUS
<1>1. /\ script # <<>> /\ s.do = "hear" /\ tx # <<>> /\ UNCHANGED <<disk, loose>>
  BY <1>s DEF HostHear, cardVars
<1>2. CASE torn' \/ torn' = torn
  BY <1>1, <1>2 DEF CardSound, DiskSound
<1>3. CASE Head(tx) = Is("MW_DONE") /\ Head(tx) \in s.messages
  <2>0. ASSUME NEW p, Probing(p) PROVE FALSE
    <3>1. Head(tx) = Is("BAUD_OK")
      BY <1>1, <2>0, Taken DEF Probing
    <3>2. QED
      BY <1>3, <3>1 DEF Is
  <2>1. PICK p : Follows(p, script) /\ InSession(p) /\ Updating(p)
    BY <1>1, <2>0 DEF IInv, Aligned, Booting, Boots, AskedFor
  <2>2. PICK q : q = After(p, s) /\ q # Lost
    BY <1>s, <1>1, <2>1, SessionGoesOn
  <2>3. Hearing(p, s, q)
    BY <1>1, <2>1, <2>2, SessionPhases, HearPhases
  <2>4. Is("MW_DONE") \notin {Is("MW_READY"), Is("MW_GO"), Is("K"), Is("SEND_512"), Is("WRITE_OK"), Is("BAUD_SWITCH")}
    BY DEF Is
  <2>5. p.at # "block"
    <3>1. SUFFICES ASSUME p.at = "block" PROVE FALSE
      OBVIOUS
    <3>2. tx = <<Is("fail")>>
      BY <1>1, <2>1, <3>1 DEF InSession, MultiOpening, MultiSegment, MultiBlock, Testing, Switching, Asking, Awaits,
         Answered, Refused
    <3>3. Head(tx) = Is("fail") /\ Is("fail") # Is("MW_DONE")
      BY <3>2, Taken DEF Is
    <3>4. QED
      BY <1>3, <3>3
  <2>6. p.at = "done" /\ Complete(p.wrote)
    BY <1>3, <2>3, <2>4, <2>5 DEF Hearing
  <2>7. p.wrote \subseteq acked /\ loose = {}
    BY <2>1, <2>6 DEF Updating
  <2>8. DiskSound
    BY <2>6, <2>7, CompleteIsSound DEF IInv
  <2>9. QED
    BY <1>1, <2>7, <2>8 DEF CardSound, DiskSound
<1>4. torn' = TRUE \/ torn' = torn \/ (Head(tx) = Is("MW_DONE") /\ Head(tx) \in s.messages)
  <2>1. CASE Head(tx) \in s.messages
    <3>1. torn' = CASE Head(tx) = Is("MW_GO")   -> TRUE
                    [] Head(tx) = Is("MW_DONE") -> FALSE
                    [] OTHER                    -> torn
      BY <1>s, <2>1 DEF HostHear
    <3>2. Is("MW_GO") # Is("MW_DONE")
      BY DEF Is
    <3>3. QED
      BY <2>1, <3>1, <3>2
  <2>2. CASE Head(tx) \notin s.messages
    BY <1>s, <2>2 DEF HostHear
  <2>3. QED
    BY <2>1, <2>2
<1>5. QED
  <2>1. CASE torn' = TRUE
    BY <1>2, <2>1
  <2>2. QED
    BY <1>2, <1>3, <1>4, <2>1

\* Every step leaves a card that is not torn sound (sd_write_multi, sd_write_test).
LEMMA SoundKept ==
    ASSUME TestBlockFree, IInv, CardSound, [Next]_vars
    PROVE  CardSound'
<1>1. CASE UNCHANGED <<disk, loose, torn>>
  BY <1>1 DEF CardSound, DiskSound
<1>2. CASE Loader
  <2>1. torn' = torn
    BY <1>2 DEF Loader, hostVars
  <2>2. CASE at = "block" /\ rx # <<>>
    <3>1. torn
      BY <2>2, BlockIsTorn
    <3>2. QED
      BY <2>1, <3>1 DEF CardSound
  <2>3. ASSUME NEW b, WriteOk(TEST_LBA, b) PROVE CardSound'
    <3>1. disk' = [disk EXCEPT ![TEST_LBA] = b] /\ loose' = loose
      BY <2>3 DEF WriteOk
    <3>2. ~torn => DiskSound'
      BY <3>1, TestKeepsSound DEF IInv, CardOK, CardSound
    <3>3. QED
      BY <2>1, <3>1, <3>2 DEF CardSound
  <2>4. ASSUME NEW b, WriteFails(TEST_LBA, b) PROVE CardSound'
    BY <2>1, <2>4 DEF WriteFails, CardSound, DiskSound
  <2>5. QED
    BY <1>1, <1>2, <2>1, <2>2, <2>3, <2>4, LoaderWrites
<1>3. CASE HostStep
  <2>1. CASE HostHear
    BY <1>3, <2>1, HearKeepsSound DEF HostStep
  <2>2. CASE ~HostHear
    BY <1>1, <1>3, <2>2 DEF HostStep, HostSend, HostRate, cardVars
  <2>3. QED
    BY <2>1, <2>2
<1>4. CASE Host \/ UNCHANGED vars
  BY <1>1, <1>4 DEF Host, HostBegin, cardVars, hostVars, vars
<1>5. CASE Land \/ PowerCycle
  BY <1>5, LandingKeepsSound DEF Land, PowerCycle, hostVars, IInv
<1>6. QED
  BY <1>2, <1>3, <1>4, <1>5 DEF Next

\* The card that the SD boot reads does not change under it (mode_sd_boot).
LEMMA BootCardKept ==
    ASSUME BootCard, [Next]_vars
    PROVE  BootCard'
<1>1. CASE Loader
  <2>1. CASE at' \in {"bootHeader", "bootRead"}
    <3>1. Boot
      <4>1. at' \notin {"cmd", "testRead"}
        BY <2>1
      <4>2. CASE Command
        <5>1. PICK m : at' = Entry(m)
          BY <4>2 DEF Command, Dispatch
        <5>2. QED
          BY <2>1, <5>1 DEF Entry
      <4>3. CASE Start \/ Smoke \/ ReadHeader \/ Dump \/ WriteTest \/ Multi
        BY <2>1, <4>3 DEF Start, Smoke, ReadHeader, Dump, DumpLba, DumpCount, DumpBlock, WriteTest, Multi, MultiCount,
           SegLba, SegCount, Block, NextBlock, Opens, On, OnWith, Back, Halt
      <4>4. CASE SetBaud \/ Probe \/ Linux \/ Uboot
        BY <2>1, <4>4 DEF SetBaud, Probe, Linux, KernelLoad, DtbLoad, InitrdLoad, Uboot, Back, Halt, Hand,
           loaderVars
      <4>5. QED
        BY <1>1, <4>2, <4>3, <4>4 DEF Loader
    <3>2. UNCHANGED <<disk, loose>> /\ at \in {"bootInit", "bootHeader"}
      BY <2>1, <3>1 DEF Boot, BootHeader, BootRead, InitOk, InitFails, ReadOk, ReadFails, cardVars, On, Halt, Hand
    <3>3. CASE at = "bootInit"
      BY <2>1, <3>1, <3>3 DEF Boot, BootHeader, BootRead, InitOk, cardVars, On, Halt, BootCard
    <3>4. CASE at = "bootHeader"
      BY <2>1, <3>1, <3>2, <3>4 DEF Boot, BootHeader, BootRead, On, Halt, BootCard, HasMagic
    <3>5. QED
      BY <3>2, <3>3, <3>4
  <2>2. QED
    BY <2>1 DEF BootCard
<1>2. CASE HostStep \/ Host \/ UNCHANGED vars
  BY <1>2 DEF HostStep, Host, loaderVars, cardVars, vars, BootCard, HasMagic
<1>3. CASE Land
  BY <1>3 DEF Land, loaderVars, BootCard
<1>4. CASE PowerCycle
  BY <1>4 DEF PowerCycle, BootCard
<1>5. QED
  BY <1>1, <1>2, <1>3, <1>4 DEF Next
-----------------------------------------------------------------------------
(***************************************************************************)
(* Memory.                                                                 *)
(***************************************************************************)

\* The three parts of a boot in memory, and a few words of code at an address, or none.
AllLoaded(m, loads) == Loaded(Loaded(Loaded(m, KERNEL, loads[1]), DTB, loads[2]), INITRD, loads[3])
WithCode(m, a) == {m, [m EXCEPT ![a] = Code]}

\* A load of some blocks of version v, from lba on, has left this in memory.
LoadsTo(m, addr, v, lba, bytes, after) ==
    /\ DOMAIN after = DOMAIN m
    /\ \A j \in Nat : j < Blocks(bytes) /\ addr + j \in DOMAIN m => after[addr + j] = <<v, lba + j>>
    /\ \A a \in DOMAIN m : a < addr \/ a >= addr + Blocks(bytes) => after[a] = m[a]

\* The device tree of version v is in memory.
DtbIn(m, v, n) == \A j \in Nat : j < n => m[DTB + j] = <<v, Layout[v].dtb_lba + j>>

\* What is in memory when the three parts of version v are.
PartsIn(m, v) ==
    LET h == Layout[v]
    IN  /\ DOMAIN m = KERNEL .. MEM_END - 1
        /\ \A j \in Nat : j < Blocks(h.image_sz) => m[KERNEL + j] = <<v, h.image_lba + j>>
        /\ DtbIn(m, v, Blocks(h.dtb_sz))
        /\ \A j \in Nat : j < Blocks(h.initrd_sz) /\ INITRD + j < MEM_END => m[INITRD + j] = <<v, h.initrd_lba + j>>

\* What a load leaves in memory (sd_read_many, mode_linux).
LEMMA LoadedPart ==
    ASSUME NEW m, NEW addr \in Nat, NEW v, NEW lba \in Nat, NEW bytes \in Nat, DOMAIN m \subseteq Nat
    PROVE  LoadsTo(m, addr, v, lba, bytes, Loaded(m, addr, Part(v, lba, bytes)))
<1>0. PICK after : after = Loaded(m, addr, Part(v, lba, bytes))
  OBVIOUS
<1>1. Blocks(bytes) \in Nat
  BY BlocksHold
<1>2. DOMAIN Part(v, lba, bytes) = 1 .. Blocks(bytes)
  BY DEF Part
<1>3. ASSUME NEW j \in Nat, j < Blocks(bytes), addr + j \in DOMAIN m
      PROVE  after[addr + j] = <<v, lba + j>>
  <2>1. addr + j - addr + 1 = j + 1 /\ j + 1 \in 1 .. Blocks(bytes) /\ lba + (j + 1) - 1 = lba + j
    BY <1>1, <1>3
  <2>2. Part(v, lba, bytes)[j + 1] = <<v, lba + j>>
    BY <2>1 DEF Part
  <2>3. QED
    BY SMTT(30), <1>0, <1>2, <1>3, <2>1, <2>2 DEF Loaded
<1>4. ASSUME NEW a \in DOMAIN m, a < addr \/ a >= addr + Blocks(bytes)
      PROVE  after[a] = m[a]
  <2>1. a \in Nat
    OBVIOUS
  <2>2. a - addr + 1 \notin 1 .. Blocks(bytes)
    BY <1>1, <1>4, <2>1
  <2>3. QED
    BY <1>0, <1>2, <2>2 DEF Loaded
<1>5. DOMAIN after = DOMAIN m
  BY <1>0 DEF Loaded
<1>6. QED
  BY <1>0, <1>3, <1>4, <1>5 DEF LoadsTo

\* The load addresses and sizes are numbers that keep the parts apart (main.c, the load
\* addresses; LayoutAssumption).
LEMMA Places ==
    ASSUME NEW v \in Versions, NEW h, h = Layout[v]
    PROVE  /\ h.image_sz \in Nat /\ h.dtb_sz \in Nat /\ h.initrd_sz \in Nat
           /\ h.image_lba \in Nat /\ h.dtb_lba \in Nat /\ h.initrd_lba \in Nat
           /\ Blocks(h.image_sz) \in Nat /\ Blocks(h.dtb_sz) \in Nat /\ Blocks(h.initrd_sz) \in Nat
           /\ KERNEL \in Nat /\ DTB \in Nat /\ INITRD \in Nat /\ MEM_END \in Nat /\ BLOCK \in Nat \ {0}
           /\ KERNEL + Blocks(h.image_sz) < DTB /\ DTB + Blocks(h.dtb_sz) <= INITRD
           /\ KERNEL < DTB /\ DTB < INITRD /\ INITRD < MEM_END
  BY LayoutAssumption, ParameterAssumption, Stage2Assumption, BlocksHold

\* The parts of one version, loaded one after the other, do not touch one another
\* (mode_sd_boot, mode_linux).
LEMMA PartsLoaded ==
    ASSUME NEW v \in Versions, NEW m, DOMAIN m = KERNEL .. MEM_END - 1,
           NEW m3, m3 = AllLoaded(m, Parts(v))
    PROVE  PartsIn(m3, v)
<1>h. PICK h : h = Layout[v]
  OBVIOUS
<1> DEFINE D == KERNEL .. MEM_END - 1
<1>1. PICK m1 : m1 = Loaded(m, KERNEL, Part(v, h.image_lba, h.image_sz))
  OBVIOUS
<1>2. PICK m2 : m2 = Loaded(m1, DTB, Part(v, h.dtb_lba, h.dtb_sz))
  OBVIOUS
<1>3. m3 = Loaded(m2, INITRD, Part(v, h.initrd_lba, h.initrd_sz))
  BY <1>h, <1>1, <1>2 DEF Parts, AllLoaded
<1>4. PICK k, n, i : k = Blocks(h.image_sz) /\ n = Blocks(h.dtb_sz) /\ i = Blocks(h.initrd_sz)
  OBVIOUS
<1>5. /\ h.image_sz \in Nat /\ h.dtb_sz \in Nat /\ h.initrd_sz \in Nat
      /\ h.image_lba \in Nat /\ h.dtb_lba \in Nat /\ h.initrd_lba \in Nat
      /\ k \in Nat /\ n \in Nat /\ i \in Nat
      /\ KERNEL \in Nat /\ DTB \in Nat /\ INITRD \in Nat /\ MEM_END \in Nat
      /\ KERNEL + k < DTB /\ DTB + n <= INITRD
      /\ KERNEL < DTB /\ DTB < INITRD /\ INITRD < MEM_END
  BY <1>h, <1>4, Places
<1>6. D \subseteq Nat
  BY <1>5
<1> HIDE DEF D
<1>7. /\ DOMAIN m1 = D
      /\ \A j \in Nat : j < k /\ KERNEL + j \in D => m1[KERNEL + j] = <<v, h.image_lba + j>>
  <2>1. DOMAIN m = D
    BY DEF D
  <2>2. LoadsTo(m, KERNEL, v, h.image_lba, h.image_sz, m1)
    BY <1>1, <1>5, <1>6, <2>1, LoadedPart
  <2>3. QED
    BY <1>4, <2>1, <2>2 DEF LoadsTo
<1>8. /\ DOMAIN m2 = D
      /\ \A j \in Nat : j < n /\ DTB + j \in D => m2[DTB + j] = <<v, h.dtb_lba + j>>
      /\ \A a \in D : a < DTB => m2[a] = m1[a]
  <2>1. LoadsTo(m1, DTB, v, h.dtb_lba, h.dtb_sz, m2)
    BY <1>2, <1>5, <1>6, <1>7, LoadedPart
  <2>2. QED
    BY <1>4, <1>7, <2>1 DEF LoadsTo
<1>9. /\ DOMAIN m3 = D
      /\ \A j \in Nat : j < i /\ INITRD + j \in D => m3[INITRD + j] = <<v, h.initrd_lba + j>>
      /\ \A a \in D : a < INITRD => m3[a] = m2[a]
  <2>1. DOMAIN m2 \subseteq Nat
    BY <1>6, <1>8
  <2>2. LoadsTo(m2, INITRD, v, h.initrd_lba, h.initrd_sz, m3)
    BY <1>3, <1>5, <2>1, LoadedPart
  <2>3. QED
    BY <1>4, <1>8, <2>2 DEF LoadsTo
<1>10. ASSUME NEW j \in Nat, j < k PROVE m3[KERNEL + j] = <<v, h.image_lba + j>>
  <2>1. KERNEL + j \in D /\ KERNEL + j < DTB /\ KERNEL + j < INITRD
    BY <1>5, <1>10 DEF D
  <2>2. QED
    BY <1>7, <1>8, <1>9, <1>10, <2>1
<1>11. ASSUME NEW j \in Nat, j < n PROVE m3[DTB + j] = <<v, h.dtb_lba + j>>
  <2>1. DTB + j \in D /\ DTB + j < INITRD
    BY <1>5, <1>11 DEF D
  <2>2. QED
    BY <1>8, <1>9, <1>11, <2>1
<1>12. ASSUME NEW j \in Nat, j < i, INITRD + j < MEM_END PROVE m3[INITRD + j] = <<v, h.initrd_lba + j>>
  <2>1. INITRD + j \in D
    BY <1>5, <1>12 DEF D
  <2>2. QED
    BY <1>9, <1>12, <2>1
<1>13. QED
  BY <1>h, <1>4, <1>9, <1>10, <1>11, <1>12 DEF D, DtbIn, PartsIn

\* The device tree of a version has its sentinel in its first block alone
\* (patch_dtb_initrd_end).
LEMMA OnlySentinel ==
    ASSUME NEW v \in Versions, NEW n \in Nat, NEW m, DtbIn(m, v, n), OneSentinel(m, n)
    PROVE  SentinelsIn(m, n) = {DTB} /\ n > 0
<1>h. PICK h : h = Layout[v]
  OBVIOUS
<1>1. DTB \in Nat /\ h.dtb_lba \in Nat
  BY <1>h, Places
<1>2. ASSUME NEW a \in DTB .. DTB + n - 1, HasSentinel(m[a]) PROVE a = DTB
  <2>1. PICK j \in Nat : a = DTB + j /\ j < n
    <3>1. a - DTB \in Nat /\ a = DTB + (a - DTB) /\ a - DTB < n
      BY <1>1
    <3>2. QED
      BY <3>1
  <2>2. m[a] = <<v, h.dtb_lba + j>>
    BY <1>h, <2>1 DEF DtbIn
  <2>3. PICK w \in Versions : m[a] = <<w, Layout[w].dtb_lba>>
    BY <1>2 DEF HasSentinel
  <2>4. h.dtb_lba + j = h.dtb_lba
    BY <1>h, <2>2, <2>3
  <2>5. QED
    BY <1>1, <2>1, <2>4
<1>3. PICK a \in SentinelsIn(m, n) : SentinelsIn(m, n) = {a}
  BY DEF OneSentinel
<1>4. a \in DTB .. DTB + n - 1 /\ HasSentinel(m[a])
  BY DEF SentinelsIn
<1>5. a = DTB
  BY <1>2, <1>4
<1>6. QED
  BY <1>1, <1>3, <1>4, <1>5

\* The first block of the device tree has been patched, and one block behind the kernel
\* may have been written over.
PatchedAlone(m, p, v, end) ==
    /\ \A a \in DOMAIN m : a # DTB /\ a # KERNEL + Blocks(Layout[v].image_sz) => p[a] = m[a]
    /\ p[DTB] = Patched(m[DTB], INITRD * BLOCK + end)

\* The parts of one version in memory are whole when the first block of the device tree
\* has been patched, whatever became of the block behind the kernel (mode_linux).
LEMMA PartsAreWhole ==
    ASSUME NEW v \in Versions, NEW m, PartsIn(m, v), Blocks(Layout[v].dtb_sz) > 0,
           NEW end, PatchedAlone(m, mem', v, end), end \in Layout[v].initrd_sz .. Layout[v].initrd_sz + BLOCK - 1
    PROVE  Whole(v)'
<1>1. PICK h : h = Layout[v]
  OBVIOUS
<1>2. PICK k, n, i : k = Blocks(h.image_sz) /\ n = Blocks(h.dtb_sz) /\ i = Blocks(h.initrd_sz)
  OBVIOUS
<1>3. /\ h.image_sz \in Nat /\ h.dtb_sz \in Nat /\ h.initrd_sz \in Nat /\ h.dtb_lba \in Nat
      /\ k \in Nat /\ n \in Nat /\ i \in Nat
      /\ KERNEL \in Nat /\ DTB \in Nat /\ INITRD \in Nat /\ MEM_END \in Nat /\ BLOCK \in Nat \ {0}
      /\ KERNEL + k < DTB /\ DTB + n <= INITRD
      /\ KERNEL < DTB /\ DTB < INITRD /\ INITRD < MEM_END
  BY <1>1, <1>2, Places
<1>4. /\ DOMAIN m = KERNEL .. MEM_END - 1
      /\ \A j \in Nat : j < k => m[KERNEL + j] = <<v, h.image_lba + j>>
      /\ \A j \in Nat : j < n => m[DTB + j] = <<v, h.dtb_lba + j>>
      /\ \A j \in Nat : j < i /\ INITRD + j < MEM_END => m[INITRD + j] = <<v, h.initrd_lba + j>>
  BY <1>1, <1>2 DEF PartsIn, DtbIn
<1>5. /\ \A a \in DOMAIN m : a # DTB /\ a # KERNEL + k => mem'[a] = m[a]
      /\ mem'[DTB] = Patched(m[DTB], INITRD * BLOCK + end)
  BY <1>1, <1>2 DEF PatchedAlone
<1>6. n > 0
  BY <1>1, <1>2
<1>7. Holds(KERNEL, v, h.image_lba, h.image_sz)'
  <2>1. SUFFICES ASSUME NEW j \in 0 .. MEM_END - KERNEL - 1, j * BLOCK < h.image_sz
                 PROVE  mem'[KERNEL + j] = <<v, h.image_lba + j>>
    BY DEF Holds
  <2>2. j \in Nat
    BY <1>3
  <2>3. j + 1 <= k
    BY <1>2, <1>3, <2>1, <2>2, BlockWithin
  <2>4. KERNEL + j \in KERNEL .. MEM_END - 1 /\ KERNEL + j # DTB /\ KERNEL + j # KERNEL + k /\ j < k
    BY <1>3, <2>2, <2>3
  <2>5. QED
    BY <1>4, <1>5, <2>2, <2>4
<1>8. Holds(DTB + 1, v, h.dtb_lba + 1, h.dtb_sz - BLOCK)'
  <2>1. SUFFICES ASSUME NEW j \in 0 .. MEM_END - (DTB + 1) - 1, j * BLOCK < h.dtb_sz - BLOCK
                 PROVE  mem'[DTB + 1 + j] = <<v, h.dtb_lba + 1 + j>>
    BY DEF Holds
  <2>2. j \in Nat
    BY <1>3
  <2>3. j + 1 \in Nat /\ (j + 1) * BLOCK < h.dtb_sz
    BY <1>3, <2>1, <2>2
  <2>4. j + 1 + 1 <= n
    BY <1>2, <1>3, <2>3, BlockWithin
  <2>5. /\ DTB + (j + 1) \in KERNEL .. MEM_END - 1 /\ DTB + (j + 1) # DTB /\ DTB + (j + 1) # KERNEL + k
        /\ j + 1 < n /\ DTB + 1 + j = DTB + (j + 1)
    BY <1>3, <2>2, <2>4
  <2>6. mem'[DTB + (j + 1)] = <<v, h.dtb_lba + (j + 1)>>
    BY <1>4, <1>5, <2>3, <2>5
  <2>7. h.dtb_lba + (j + 1) = h.dtb_lba + 1 + j
    BY <1>3, <2>2
  <2>8. QED
    BY <2>5, <2>6, <2>7
<1>9. Holds(INITRD, v, h.initrd_lba, h.initrd_sz)'
  <2>1. SUFFICES ASSUME NEW j \in 0 .. MEM_END - INITRD - 1, j * BLOCK < h.initrd_sz
                 PROVE  mem'[INITRD + j] = <<v, h.initrd_lba + j>>
    BY DEF Holds
  <2>2. j \in Nat /\ INITRD + j < MEM_END
    BY <1>3
  <2>3. j + 1 <= i
    BY <1>2, <1>3, <2>1, <2>2, BlockWithin
  <2>4. INITRD + j \in KERNEL .. MEM_END - 1 /\ INITRD + j # DTB /\ INITRD + j # KERNEL + k /\ j < i
    BY <1>3, <2>2, <2>3
  <2>5. QED
    BY <1>4, <1>5, <2>2, <2>4
<1>10. mem'[DTB] = Patched(<<v, h.dtb_lba>>, INITRD * BLOCK + end)
  <2>1. DTB + 0 = DTB /\ h.dtb_lba + 0 = h.dtb_lba /\ 0 \in Nat /\ 0 < n
    BY <1>3, <1>6
  <2>2. m[DTB] = <<v, h.dtb_lba>>
    BY <1>4, <2>1
  <2>3. QED
    BY <1>5, <2>2
<1>11. QED
  BY <1>1, <1>7, <1>8, <1>9, <1>10 DEF Whole

\* The kernel, the device tree and the initramfs of one version, loaded one after the
\* other, with the device tree's one sentinel patched and, in mode l, a few words of code
\* behind the kernel, are whole (mode_sd_boot, mode_linux, patch_dtb_initrd_end).
LEMMA LoadedIsWhole ==
    ASSUME NEW v \in Versions, NEW m, DOMAIN m = KERNEL .. MEM_END - 1, NEW m3, NEW n, NEW end,
           m3 = AllLoaded(m, Parts(v)), n = Blocks(Layout[v].dtb_sz), OneSentinel(m3, n),
           end \in Layout[v].initrd_sz .. Layout[v].initrd_sz + BLOCK - 1,
           mem' \in WithCode(PatchedDtb(m3, n, end), KERNEL + Blocks(Layout[v].image_sz))
    PROVE  Whole(v)'
<1>1. PartsIn(m3, v)
  BY PartsLoaded
<1>2. n \in Nat
  BY Places
<1>p. /\ Blocks(Layout[v].image_sz) \in Nat /\ KERNEL \in Nat /\ DTB \in Nat /\ MEM_END \in Nat
      /\ KERNEL + Blocks(Layout[v].image_sz) < DTB /\ KERNEL < DTB /\ DTB < MEM_END
  <2>1. PICK h : h = Layout[v]
    OBVIOUS
  <2>2. /\ Blocks(h.image_sz) \in Nat /\ KERNEL \in Nat /\ DTB \in Nat /\ INITRD \in Nat /\ MEM_END \in Nat
        /\ KERNEL + Blocks(h.image_sz) < DTB /\ KERNEL < DTB /\ DTB < INITRD /\ INITRD < MEM_END
    BY <2>1, Places, Zenon
  <2>3. QED
    BY <2>1, <2>2
<1>3. SentinelsIn(m3, n) = {DTB} /\ n > 0
  BY <1>1, <1>2, OnlySentinel DEF PartsIn
<1>4. PatchedAlone(m3, mem', v, end)
  <2>1. PICK k : k = KERNEL + Blocks(Layout[v].image_sz)
    OBVIOUS
  <2>2. PICK p : p = PatchedDtb(m3, n, end)
    OBVIOUS
  <2>3. p = [a \in DOMAIN m3 |-> IF a = DTB THEN Patched(m3[a], INITRD * BLOCK + end) ELSE m3[a]]
    BY <1>3, <2>2 DEF PatchedDtb
  <2>4. DTB \in DOMAIN m3
    BY <1>1, <1>p DEF PartsIn
  <2>5. DTB # k
    BY <2>1, <1>p
  <2>6. mem' = p \/ mem' = [p EXCEPT ![k] = Code]
    BY <2>1, <2>2 DEF WithCode
  <2>7. QED
    BY <2>1, <2>3, <2>4, <2>5, <2>6 DEF PatchedAlone
<1>5. QED
  BY <1>1, <1>3, <1>4, PartsAreWhole

\* The blocks of a part of a version, on a card that is sound (sd_read_many).
LEMMA PartOnCard ==
    ASSUME NEW v \in Versions, \A l \in Blob(v) : disk[l] = <<v, l>>,
           NEW lba, NEW bytes, Extent(v, lba, bytes) \subseteq Blob(v)
    PROVE  OnCard(lba, Blocks(bytes)) = Part(v, lba, bytes)
<1>1. \A i \in 1 .. Blocks(bytes) : disk[lba + i - 1] = <<v, lba + i - 1>>
  BY DEF Extent
<1>2. QED
  BY <1>1 DEF OnCard, Part

\* The SD boot hands over a whole version (mode_sd_boot).
LEMMA BootIsWhole ==
    ASSUME IInv, CardSound, BootCard, ~torn, BootRead, at' = "kernel"
    PROVE  \E v \in Versions : Whole(v)'
<1>1. PICK v \in Versions : disk[0] = <<v, 0>>
  BY DEF BootRead, BootCard, HasMagic
<1>2. PICK h : h = Layout[v]
  OBVIOUS
<1>3. HeaderOf(disk[0]) = h
  BY <1>1, <1>2, HeaderIs
<1>4. \A l \in Blob(v) : disk[l] = <<v, l>>
  BY <1>1 DEF CardSound, DiskSound
<1>5. PICK n : n = Blocks(h.dtb_sz)
  OBVIOUS
<1>6. PICK m3 : m3 = AllLoaded(mem, Parts(v))
  OBVIOUS
<1>7. /\ OnCard(h.image_lba, Blocks(h.image_sz)) = Parts(v)[1]
      /\ OnCard(h.dtb_lba, n) = Parts(v)[2]
      /\ OnCard(h.initrd_lba, Blocks(h.initrd_sz)) = Parts(v)[3]
  <2>1. /\ Extent(v, h.image_lba, h.image_sz) \subseteq Blob(v)
        /\ Extent(v, h.dtb_lba, h.dtb_sz) \subseteq Blob(v)
        /\ Extent(v, h.initrd_lba, h.initrd_sz) \subseteq Blob(v)
    BY <1>2 DEF Blob
  <2>2. /\ OnCard(h.image_lba, Blocks(h.image_sz)) = Part(v, h.image_lba, h.image_sz)
        /\ OnCard(h.dtb_lba, n) = Part(v, h.dtb_lba, h.dtb_sz)
        /\ OnCard(h.initrd_lba, Blocks(h.initrd_sz)) = Part(v, h.initrd_lba, h.initrd_sz)
    BY <1>4, <1>5, <2>1, PartOnCard
  <2>3. QED
    BY <1>2, <2>2 DEF Parts
<1>8. m3 = Loaded(Loaded(Loaded(mem, KERNEL, OnCard(h.image_lba, Blocks(h.image_sz))), DTB, OnCard(h.dtb_lba, n)),
                  INITRD, OnCard(h.initrd_lba, Blocks(h.initrd_sz)))
  BY <1>6, <1>7 DEF AllLoaded
<1>9. OneSentinel(m3, n) /\ mem' = PatchedDtb(m3, n, h.initrd_sz)
  <2>1. \/ OneSentinel(m3, n) /\ Hand(PatchedDtb(m3, n, h.initrd_sz))
        \/ Halt
    BY <1>3, <1>5, <1>8 DEF BootRead
  <2>2. QED
    BY <2>1 DEF Hand, Halt
<1>10. h.initrd_sz \in h.initrd_sz .. h.initrd_sz + BLOCK - 1
  BY <1>2, Places
<1>11. DOMAIN mem = KERNEL .. MEM_END - 1
  BY DEF IInv, ControlOK
<1>12. mem' \in WithCode(PatchedDtb(m3, n, h.initrd_sz), KERNEL + Blocks(h.image_sz))
  BY <1>9 DEF WithCode
<1>13. Whole(v)'
  BY <1>2, <1>5, <1>6, <1>9, <1>10, <1>11, <1>12, LoadedIsWhole
<1>14. QED
  BY <1>13
-----------------------------------------------------------------------------
(***************************************************************************)
(* The payloads of mode l.                                                 *)
(***************************************************************************)

\* What is taken while payloads are owed is the mode byte, and then the next of them
\* (mode_linux).
LEMMA FeedTaken ==
    ASSUME NEW d \in -1 .. 2, NEW all, LineOK, Feeds(d, all), Take, UNCHANGED <<script, hbaud, baud>>,
           d = -1 \/ Head(rx).is = "payload"
    PROVE  /\ Feeds(d + 1, all)'
           /\ d >= 0 => d + 1 \in 1 .. Len(all) /\ Item = all[d + 1]
<1>1. PICK n : n = Len(all)
  OBVIOUS
<1>2. PICK S : rx \in Seq(S)
  BY DEF LineOK
<1>3. n \in Nat /\ d <= n /\ n <= 3 /\ (n = 3 => Fit(all)) /\ Len(rx) >= n - d
  BY <1>1 DEF Feeds
<1>4. /\ \A j \in 1 .. n : j > d => rx[j - d] = Payload(all[j])
      /\ \/ Len(rx) = n - d /\ Feeding(all)
         \/ Len(rx) > n - d /\ rx[n - d + 1].is # "payload"
  BY <1>1 DEF Feeds
<1>5. /\ Len(rx) \in Nat /\ Len(rx) > 0 /\ Head(rx) = rx[1]
      /\ Len(rx') = Len(rx) - 1 /\ \A j \in 1 .. Len(rx) - 1 : rx'[j] = rx[j + 1]
  BY <1>2 DEF Take
<1>6. d + 1 <= n /\ (d >= 0 => d + 1 \in 1 .. n)
  <2>1. CASE d = n
    <3>1. n - d + 1 = 1 /\ n - d = 0 /\ n # -1
      BY <1>3, <2>1
    <3>2. rx[1].is # "payload"
      BY <1>4, <1>5, <3>1
    <3>3. QED
      BY <1>3, <1>5, <2>1, <3>2
  <2>2. QED
    BY <1>3, <2>1
<1>7. ASSUME d >= 0 PROVE Item = all[d + 1]
  <2>1. d + 1 \in 1 .. n /\ d + 1 > d /\ (d + 1) - d = 1
    BY <1>6, <1>7
  <2>2. rx[1] = Payload(all[d + 1])
    BY <1>4, <2>1
  <2>3. QED
    BY <1>5, <2>2 DEF Item, Payload
<1>8. Feeding(all)' = Feeding(all)
  BY DEF Feeding, SameRate
<1>9. ASSUME NEW j \in 1 .. n, j > d + 1 PROVE rx'[j - (d + 1)] = Payload(all[j])
  <2>1. j > d /\ j - (d + 1) \in 1 .. Len(rx) - 1 /\ j - (d + 1) + 1 = j - d
    BY <1>3, <1>5, <1>9
  <2>2. QED
    BY <1>4, <1>5, <2>1
<1>10. \/ Len(rx') = n - (d + 1) /\ Feeding(all)'
       \/ Len(rx') > n - (d + 1) /\ rx'[n - (d + 1) + 1].is # "payload"
  <2>1. CASE Len(rx) = n - d /\ Feeding(all)
    BY <1>3, <1>5, <1>8, <2>1
  <2>2. CASE Len(rx) > n - d /\ rx[n - d + 1].is # "payload"
    <3>1. n - (d + 1) + 1 \in 1 .. Len(rx) - 1 /\ n - (d + 1) + 1 + 1 = n - d + 1 /\ Len(rx') > n - (d + 1)
      BY <1>3, <1>5, <1>6, <2>2
    <3>2. QED
      BY <1>5, <2>2, <3>1
  <2>3. QED
    BY <1>4, <2>1, <2>2
<1>11. Len(rx') >= n - (d + 1)
  BY <1>3, <1>5
<1>12. \E T : all \in Seq(T)
  BY DEF Feeds
<1>13. QED
  BY <1>1, <1>3, <1>6, <1>7, <1>9, <1>10, <1>11, <1>12 DEF Feeds

\* Mode l hands over a whole version: of a device tree without a sentinel it boots
\* nothing (mode_linux).
LEMMA LinuxIsWhole ==
    ASSUME LineOK, NEW all, Feeds(2, all), Held(2, all), Received, OneSentinel(Loaded(mem, INITRD, Item), job.dtb_size),
           mem' = [PatchedDtb(Loaded(mem, INITRD, Item), job.dtb_size, Len(Item) * BLOCK)
                      EXCEPT ![KERNEL + job.kernel_size] = Code],
           UNCHANGED <<script, hbaud, baud>>
    PROVE  \E v \in Versions : Whole(v)'
<1>1. Item = all[3] /\ Len(all) = 3 /\ Fit(all)
  <2>1. 3 \in 1 .. Len(all) /\ Item = all[2 + 1]
    BY FeedTaken DEF Received
  <2>2. PICK T : all \in Seq(T)
    BY DEF Feeds
  <2>3. PICK n : n = Len(all)
    OBVIOUS
  <2>4. n \in Nat /\ n <= 3 /\ (n = 3 => Fit(all))
    <3>1. Len(all) <= 3 /\ (Len(all) = 3 => Fit(all))
      BY Zenon DEF Feeds
    <3>2. QED
      BY <2>2, <2>3, <3>1
  <2>5. n = 3 /\ 2 + 1 = 3
    BY <2>1, <2>3, <2>4
  <2>6. QED
    BY <2>1, <2>3, <2>4, <2>5
<1>2. PICK m : /\ DOMAIN m = KERNEL .. MEM_END - 1
               /\ mem = Loaded(Loaded(m, KERNEL, all[1]), DTB, all[2])
               /\ job.kernel_size = Len(all[1]) /\ job.dtb_size = Len(all[2])
  BY DEF Held
<1>3. PICK m3 : m3 = AllLoaded(m, all)
  OBVIOUS
<1>4. PICK n, k : n = Len(all[2]) /\ k = Len(all[1])
  OBVIOUS
<1>5. /\ OneSentinel(m3, n)
      /\ mem' = [PatchedDtb(m3, n, Len(all[3]) * BLOCK) EXCEPT ![KERNEL + k] = Code]
  BY <1>1, <1>2, <1>3, <1>4 DEF AllLoaded
<1>6. ASSUME NEW v \in Versions, all = Parts(v) PROVE Whole(v)'
  <2>1. PICK h : h = Layout[v]
    OBVIOUS
  <2>2. /\ h.initrd_sz \in Nat /\ Blocks(h.image_sz) \in Nat /\ Blocks(h.dtb_sz) \in Nat
        /\ Blocks(h.initrd_sz) \in Nat
    BY <2>1, Places
  <2>3. Len(all[1]) = Blocks(h.image_sz) /\ Len(all[2]) = Blocks(h.dtb_sz) /\ Len(all[3]) = Blocks(h.initrd_sz)
    BY <1>6, <2>1, <2>2 DEF Parts, Part
  <2>4. Len(all[3]) * BLOCK \in h.initrd_sz .. h.initrd_sz + BLOCK - 1
    BY <2>2, <2>3, BlocksHold
  <2>5. mem' \in WithCode(PatchedDtb(m3, n, Len(all[3]) * BLOCK), KERNEL + k)
    BY <1>5 DEF WithCode
  <2>6. QED
    BY <1>2, <1>3, <1>4, <1>5, <1>6, <2>1, <2>3, <2>4, <2>5, LoadedIsWhole
<1>7. ASSUME all[2] \in Seq(BlockValues), all[3] \in Seq(BlockValues), Len(all[2]) <= INITRD - DTB,
             \A i \in DOMAIN all[2] : ~HasSentinel(all[2][i])
      PROVE  FALSE
  <2>1. PICK a \in DTB .. DTB + n - 1 : HasSentinel(m3[a])
    BY <1>5 DEF OneSentinel, SentinelsIn
  <2>2. n \in Nat /\ n <= INITRD - DTB /\ DOMAIN all[2] = 1 .. n /\ DOMAIN all[3] = 1 .. Len(all[3])
    BY <1>4, <1>7
  <2>3. KERNEL \in Nat /\ DTB \in Nat /\ INITRD \in Nat /\ MEM_END \in Nat
        /\ KERNEL < DTB /\ DTB < INITRD /\ INITRD < MEM_END
    BY ParameterAssumption, Stage2Assumption
  <2>4. a \in Nat /\ a < INITRD
    BY <2>2, <2>3
  <2>5. a \in KERNEL .. MEM_END - 1 /\ a - DTB + 1 \in 1 .. n /\ a - INITRD + 1 \notin 1 .. Len(all[3])
    BY <1>7, <2>2, <2>3, <2>4
  <2>6. PICK m2 : m2 = Loaded(Loaded(m, KERNEL, all[1]), DTB, all[2])
    OBVIOUS
  <2>7. a \in DOMAIN m2 /\ m2[a] = all[2][a - DTB + 1]
    BY <1>2, <2>2, <2>5, <2>6 DEF Loaded
  <2>8. m3[a] = m2[a]
    BY <1>3, <2>2, <2>5, <2>6, <2>7 DEF AllLoaded, Loaded
  <2>9. QED
    BY <1>7, <2>1, <2>2, <2>5, <2>7, <2>8
<1>8. QED
  BY <1>1, <1>6, <1>7 DEF Fit

\* An item goes behind the others, which stay where they are (uart_raw_recv).
LEMMA Appended ==
    ASSUME NEW S, rx \in Seq(S), NEW x, rx' = Append(rx, x)
    PROVE  /\ Len(rx) \in Nat /\ Len(rx') = Len(rx) + 1
           /\ \A j \in 1 .. Len(rx) : rx'[j] = rx[j]
           /\ rx'[Len(rx) + 1] = x
<1>1. PICK T : T = S \cup {x}
  OBVIOUS
<1>2. rx \in Seq(T) /\ x \in T
  BY <1>1
<1>3. QED
  BY <1>2

\* Behind the payloads there is an item that is no payload, whether x has come or not.
Behind(d, all, x) ==
    /\ rx' \in {rx, Append(rx, x)}
    /\ Len(rx') > Len(all) - d /\ rx'[Len(all) - d + 1].is # "payload"

\* Behind an item that is no payload the line may grow (uart_raw_recv).
LEMMA FeedBehind ==
    ASSUME NEW d \in -1 .. 2, NEW all, NEW x, LineOK, Feeds(d, all), Behind(d, all, x)
    PROVE  Feeds(d, all)'
<1>0. rx' \in {rx, Append(rx, x)} /\ Len(rx') > Len(all) - d /\ rx'[Len(all) - d + 1].is # "payload"
  BY DEF Behind
<1>1. PICK n : n = Len(all)
  OBVIOUS
<1>2. PICK S : rx \in Seq(S)
  BY DEF LineOK
<1>3. PICK T : all \in Seq(T)
  BY DEF Feeds
<1>4. n \in Nat /\ d <= n /\ n <= 3 /\ (n = 3 => Fit(all)) /\ Len(rx) >= n - d
  BY <1>1, <1>3 DEF Feeds
<1>5. \A j \in 1 .. n : j > d => rx[j - d] = Payload(all[j])
  BY <1>1 DEF Feeds
<1>6. Len(rx) \in Nat /\ \A j \in 1 .. Len(rx) : rx'[j] = rx[j]
  BY <1>0, <1>2, Appended
<1>7. ASSUME NEW j \in 1 .. n, j > d PROVE rx'[j - d] = Payload(all[j])
  <2>1. j - d \in 1 .. Len(rx)
    BY <1>4, <1>6, <1>7
  <2>2. QED
    BY <1>5, <1>6, <1>7, <2>1
<1>8. Len(rx') > n - d => Len(rx') >= n - d
  <2>1. Len(rx') \in Nat
    BY <1>0, <1>2, Appended
  <2>2. QED
    BY <1>4, <2>1
<1>9. QED
  BY <1>0, <1>1, <1>3, <1>4, <1>7, <1>8 DEF Feeds

\* The host sends its payloads one behind the other, or turns to another session, which
\* begins with a mode byte (mode_linux).
LEMMA FeedSent ==
    ASSUME NEW d \in -1 .. 2, NEW all, LineOK, Feeds(d, all), HostSend, baud' = baud
    PROVE  \E all2 : Feeds(d, all2)' /\ \A j \in 1 .. d : all2[j] = all[j]
<1>s. PICK s : s = Head(script)
  OBVIOUS
<1>1. /\ script # <<>> /\ s.do = "send" /\ script' = Tail(script) /\ hbaud' = hbaud
      /\ rx' = IF hbaud = baud THEN Append(rx, s.item) ELSE rx
  BY <1>s DEF HostSend
<1>2. PICK n : n = Len(all)
  OBVIOUS
<1>3. PICK S : rx \in Seq(S)
  BY DEF LineOK
<1>4. PICK T : all \in Seq(T)
  BY DEF Feeds
<1>5. n \in Nat /\ d <= n /\ n <= 3 /\ (n = 3 => Fit(all)) /\ Len(rx) >= n - d
  BY <1>2, <1>4 DEF Feeds
<1>6. /\ \A j \in 1 .. n : j > d => rx[j - d] = Payload(all[j])
      /\ \/ Len(rx) = n - d /\ Feeding(all)
         \/ Len(rx) > n - d /\ rx[n - d + 1].is # "payload"
  BY <1>2 DEF Feeds
<1>7. CASE Len(rx) > n - d /\ rx[n - d + 1].is # "payload"
  <2>1. rx' \in {rx, Append(rx, s.item)}
    BY <1>1
  <2>2. n - d + 1 \in 1 .. Len(rx)
    BY <1>3, <1>5, <1>7
  <2>3. rx'[n - d + 1] = rx[n - d + 1] /\ Len(rx') > n - d
    <3>1. CASE rx' = rx
      BY <1>7, <3>1
    <3>2. CASE rx' = Append(rx, s.item)
      <4>1. Len(rx') = Len(rx) + 1 /\ \A j \in 1 .. Len(rx) : rx'[j] = rx[j]
        BY <1>3, <3>2, Appended
      <4>2. Len(rx) \in Nat /\ n - d \in Int
        BY <1>3, <1>5
      <4>3. Len(rx') > n - d
        BY <1>7, <4>1, <4>2
      <4>4. QED
        BY <2>2, <4>1, <4>3
    <3>3. QED
      BY <2>1, <3>1, <3>2
  <2>4. Behind(d, all, s.item)
    BY <1>2, <1>7, <2>1, <2>3 DEF Behind
  <2>5. Feeds(d, all)'
    BY <2>4, FeedBehind
  <2>6. QED
    BY <2>5
<1>8. CASE Len(rx) = n - d /\ Feeding(all)
  <2>1. PICK p : Follows(p, script) /\ (p.at = "prompt" \/ (p.at = "load" /\ p.b = all))
    BY <1>8 DEF Feeding
  <2>2. PICK q : q = After(p, s) /\ q # Lost /\ Follows(q, script')
    BY <1>s, <1>1, <2>1, SessionGoesOn
  <2>3. SameRate /\ rx' = Append(rx, s.item) /\ SameRate'
    BY <1>1, <1>8 DEF Feeding, SameRate
  <2>4. /\ Len(rx) \in Nat /\ Len(rx') = Len(rx) + 1 /\ rx'[Len(rx) + 1] = s.item
        /\ \A j \in 1 .. Len(rx) : rx'[j] = rx[j]
    BY <1>3, <2>3, Appended
  <2>5. CASE p.at = "prompt"
    <3>1. PICK m : s.item = ModeItem(m)
      BY <1>1, <2>2, <2>5, SendPhases DEF Sending
    <3>2. rx'[n - d + 1].is # "payload" /\ Len(rx') > n - d
      BY <1>5, <1>8, <2>4, <3>1 DEF ModeItem
    <3>3. Behind(d, all, s.item)
      BY <1>2, <2>3, <3>2 DEF Behind
    <3>4. Feeds(d, all)'
      BY <3>3, FeedBehind
    <3>5. QED
      BY <3>4
  <2>6. CASE p.at = "load" /\ p.b = all
    <3>1. PICK b : b = s.item.val
      OBVIOUS
    <3>2. PICK all2 : all2 = Append(all, b)
      OBVIOUS
    <3>3. /\ s.item = Payload(b) /\ Len(all2) <= 3 /\ (Len(all2) = 3 => Fit(all2))
          /\ q = Phase("load", 0, 0, 0, all2, {})
      BY <2>2, <2>6, <3>1, <3>2 DEF After, If, Sends, Payload
    <3>4. PICK U : U = T \cup {b}
      OBVIOUS
    <3>5. all \in Seq(U) /\ b \in U
      BY <1>4, <3>4
    <3>6. /\ all2 \in Seq(U) /\ Len(all2) = n + 1 /\ all2[n + 1] = b
          /\ \A j \in 1 .. n : all2[j] = all[j]
      BY <1>2, <3>2, <3>5
    <3>7. ASSUME NEW j \in 1 .. n + 1, j > d PROVE rx'[j - d] = Payload(all2[j])
      <4>1. CASE j = n + 1
        <5>1. j - d = Len(rx) + 1
          BY <1>5, <1>8, <4>1
        <5>2. QED
          BY <2>4, <3>3, <3>6, <4>1, <5>1
      <4>2. CASE j # n + 1
        <5>1. j \in 1 .. n /\ j - d \in 1 .. Len(rx)
          BY <1>5, <1>8, <3>7, <4>2
        <5>2. QED
          BY <1>6, <2>4, <3>6, <3>7, <5>1
      <4>3. QED
        BY <4>1, <4>2
    <3>8. q.at = "load" /\ q.b = all2
      BY <3>3 DEF Phase
    <3>9. Feeding(all2)'
      BY <2>2, <2>3, <3>8 DEF Feeding
    <3>10. Len(rx') = (n + 1) - d /\ d <= n + 1 /\ Len(rx') >= (n + 1) - d
      BY <1>5, <1>8, <2>4
    <3>11. Feeds(d, all2)'
      BY <3>3, <3>6, <3>7, <3>9, <3>10 DEF Feeds
    <3>12. \A j \in 1 .. d : all2[j] = all[j]
      BY <1>5, <3>6
    <3>13. QED
      BY <3>11, <3>12
  <2>7. QED
    BY <2>1, <2>5, <2>6
<1>9. QED
  BY <1>6, <1>7, <1>8

\* The loader comes to stand for a payload of mode l from its mode byte alone, and from one
\* payload to the next (main, mode_linux).
LEMMA LinuxSteps ==
    ASSUME IInv, Loader, at' \in {"kernelLoad", "dtbLoad", "initrdLoad"}
    PROVE  \/ at' = "kernelLoad" /\ AskedFor("l") /\ Take
           \/ at' = "dtbLoad" /\ at = "kernelLoad" /\ Received /\ mem' = Loaded(mem, KERNEL, Item)
              /\ job' = [job EXCEPT !.kernel_size = Len(Item)]
           \/ at' = "initrdLoad" /\ at = "dtbLoad" /\ Received /\ mem' = Loaded(mem, DTB, Item)
              /\ job' = [job EXCEPT !.dtb_size = Len(Item)]
<1>1. CASE Command
  <2>1. CASE at = "first" /\ rx = <<>> /\ at' = Entry("b")
    BY <2>1, EntryOf
  <2>2. CASE at \in Prompts /\ Take /\ Dispatch(IF Head(rx).is = "mode" THEN Item ELSE Head(rx).is)
    <3>1. Head(rx).is = "probe" \/ \E m \in Known : Head(rx) = ModeItem(m)
      BY <2>2, ModeIsKnown DEF IInv, Take
    <3>2. Head(rx).is # "probe"
      BY <2>2, EntryOf DEF Dispatch
    <3>3. PICK m \in Known : Head(rx) = ModeItem(m)
      BY <3>1, <3>2
    <3>4. at' = Entry(m)
      BY <2>2, <3>3 DEF ModeItem, Item, Dispatch
    <3>5. m = "l" /\ at' = "kernelLoad"
      BY <3>4, EntryOf DEF Known
    <3>6. QED
      BY <2>2, <3>3, <3>5 DEF AskedFor, Take
  <2>3. QED
    BY <1>1, <2>1, <2>2 DEF Command, Prompts
<1>2. CASE Linux
  BY <1>2 DEF Linux, KernelLoad, DtbLoad, InitrdLoad, Halt, Hand
<1>3. CASE Start \/ Smoke \/ ReadHeader \/ Dump \/ WriteTest \/ Multi
  BY <1>3 DEF Start, Smoke, ReadHeader, Dump, DumpLba, DumpCount, DumpBlock, WriteTest, Multi, MultiCount,
     SegLba, SegCount, Block, NextBlock, Opens, On, OnWith, Back, Halt
<1>4. CASE SetBaud \/ Probe \/ Boot \/ Uboot
  BY <1>4 DEF SetBaud, Probe, Boot, BootHeader, BootRead, Uboot, On, Back, Halt, Hand, loaderVars
<1>5. QED
  BY <1>1, <1>2, <1>3, <1>4 DEF Loader

\* A payload that is taken is in memory, over what was there (mode_linux).
LEMMA LinuxTaken ==
    ASSUME IInv, LinuxOK, Loader
    PROVE  LinuxOK'
<1>1. UNCHANGED <<script, hbaud>> /\ ~AskedFor("l")'
  BY LoaderAligned DEF Loader, hostVars
<1>2. LineOK /\ DOMAIN mem = KERNEL .. MEM_END - 1 /\ job = [f \in JobFields |-> job[f]]
  BY DEF IInv, ControlOK
<1>3. CASE at' \notin {"kernelLoad", "dtbLoad", "initrdLoad"}
  BY <1>1, <1>3 DEF LinuxOK, Standing
<1>4. CASE at' = "kernelLoad" /\ AskedFor("l") /\ Take
  <2>1. PICK all : Feeds(-1, all)
    BY <1>4 DEF LinuxOK, Standing
  <2>2. baud' = baud
    BY <1>4 DEF Loader, Start, Command, Dispatch, AskedFor, Prompts, Smoke, ReadHeader, Dump, DumpLba, DumpCount,
       DumpBlock, WriteTest, Multi, MultiCount, SegLba, SegCount, Block, Opens, SetBaud, Probe, Boot, BootHeader,
       BootRead, Linux, Uboot
  <2>3. -1 \in -1 .. 2 /\ -1 + 1 = 0
    OBVIOUS
  <2>4. Feeds(0, all)'
    BY <1>1, <1>2, <1>4, <2>1, <2>2, <2>3, FeedTaken
  <2>5. Held(0, all)'
    BY <1>2 DEF Held
  <2>6. \A d \in -1 .. 2 : Standing(d)' => d = 0
    BY <1>1, <1>4 DEF Standing
  <2>7. QED
    BY <2>4, <2>5, <2>6 DEF LinuxOK
<1>5. CASE /\ at' = "dtbLoad" /\ at = "kernelLoad" /\ Received /\ mem' = Loaded(mem, KERNEL, Item)
           /\ job' = [job EXCEPT !.kernel_size = Len(Item)]
  <2>1. PICK all : Feeds(0, all)
    BY <1>5 DEF LinuxOK, Standing
  <2>2. UNCHANGED baud
    BY <1>5 DEF Loader, Start, Command, Smoke, ReadHeader, Dump, DumpLba, DumpCount, DumpBlock, WriteTest, Multi,
       MultiCount, SegLba, SegCount, Block, Opens, SetBaud, Probe, Boot, BootHeader, BootRead, Linux, KernelLoad,
       Halt, Uboot
  <2>3. 0 \in -1 .. 2 /\ 0 + 1 = 1 /\ Head(rx).is = "payload" /\ Take
    BY <1>5 DEF Received
  <2>4. Feeds(1, all)' /\ Item = all[1]
    BY <1>1, <1>2, <2>1, <2>2, <2>3, FeedTaken
  <2>5. mem' = Loaded(mem, KERNEL, all[1]) /\ job'.kernel_size = Len(all[1])
    BY <1>2, <1>5, <2>4 DEF JobFields
  <2>6. Held(1, all)'
    BY <1>2, <2>5 DEF Held
  <2>7. \A d \in -1 .. 2 : Standing(d)' => d = 1
    BY <1>1, <1>5 DEF Standing
  <2>8. QED
    BY <2>4, <2>6, <2>7 DEF LinuxOK
<1>6. CASE /\ at' = "initrdLoad" /\ at = "dtbLoad" /\ Received /\ mem' = Loaded(mem, DTB, Item)
           /\ job' = [job EXCEPT !.dtb_size = Len(Item)]
  <2>1. PICK all : Feeds(1, all) /\ Held(1, all)
    BY <1>6 DEF LinuxOK, Standing
  <2>2. UNCHANGED baud
    BY <1>6 DEF Loader, Start, Command, Smoke, ReadHeader, Dump, DumpLba, DumpCount, DumpBlock, WriteTest, Multi,
       MultiCount, SegLba, SegCount, Block, Opens, SetBaud, Probe, Boot, BootHeader, BootRead, Linux, DtbLoad,
       Halt, Uboot
  <2>3. 1 \in -1 .. 2 /\ 1 + 1 = 2 /\ Head(rx).is = "payload" /\ Take
    BY <1>6 DEF Received
  <2>4. Feeds(2, all)' /\ Item = all[2]
    BY <1>1, <1>2, <2>1, <2>2, <2>3, FeedTaken
  <2>5. PICK m : /\ DOMAIN m = KERNEL .. MEM_END - 1
                 /\ mem = Loaded(m, KERNEL, all[1]) /\ job.kernel_size = Len(all[1])
    BY <2>1 DEF Held
  <2>6. /\ mem' = Loaded(Loaded(m, KERNEL, all[1]), DTB, all[2])
        /\ job'.kernel_size = Len(all[1]) /\ job'.dtb_size = Len(all[2])
    BY <1>2, <1>6, <2>4, <2>5 DEF JobFields
  <2>7. Held(2, all)'
    BY <2>5, <2>6 DEF Held
  <2>8. \A d \in -1 .. 2 : Standing(d)' => d = 2
    BY <1>1, <1>6 DEF Standing
  <2>9. QED
    BY <2>4, <2>7, <2>8 DEF LinuxOK
<1>7. QED
  BY <1>3, <1>4, <1>5, <1>6, LinuxSteps

\* A step that leaves the loader and the line alone, and the host where it may send another
\* payload, changes nothing for mode l (mode_linux).
LEMMA LinuxSame ==
    ASSUME LinuxOK, UNCHANGED <<at, rx, job, mem>>, \A all : Feeding(all) => Feeding(all)'
    PROVE  LinuxOK'
<1> SUFFICES ASSUME NEW d \in -1 .. 2, Standing(d)' PROVE \E all : Feeds(d, all)' /\ Held(d, all)'
  BY DEF LinuxOK
<1>1. Standing(d)
  BY DEF Standing, AskedFor
<1>2. PICK all : Feeds(d, all) /\ Held(d, all)
  BY <1>1 DEF LinuxOK
<1>3. Feeds(d, all)'
  BY <1>2 DEF Feeds
<1>4. Held(d, all)'
  BY <1>2 DEF Held
<1>5. QED
  BY <1>3, <1>4

\* Mode l, and the loader that is told to run it, say nothing (mode_linux).
LEMMA LinuxIsSilent ==
    ASSUME Aligned, NEW d \in -1 .. 2, Standing(d)
    PROVE  tx = <<>>
<1>1. CASE Booting
  BY <1>1 DEF Booting, Boots
<1>2. CASE Idle
  BY <1>2 DEF Idle, Standing, AskedFor, TermLabels
<1>3. ASSUME NEW p, InSession(p), tx # <<>> PROVE FALSE
  BY <1>3 DEF InSession, MultiOpening, MultiSegment, MultiBlock, Testing, Switching, Asking, Stored, AtPrompt,
     Awaits, Answered, Refused, Idle, Standing, AskedFor, Prompts, TermLabels, Final
<1>4. CASE \E p : Probing(p)
  <2>1. at \notin {"kernelLoad", "dtbLoad", "initrdLoad"}
    BY <1>4 DEF Probing
  <2>2. PICK S : rx \in Seq(S) /\ \A x \in S : x.is = "probe"
    BY <1>4 DEF Probing, OnlyProbes
  <2>3. rx # <<>> => Head(rx) \in S
    BY <2>2
  <2>4. ModeItem("l").is # "probe"
    BY DEF ModeItem
  <2>5. ~AskedFor("l")
    BY <2>2, <2>3, <2>4 DEF AskedFor
  <2>6. QED
    BY <2>1, <2>5 DEF Standing
<1>5. QED
  BY <1>1, <1>2, <1>3, <1>4 DEF Aligned

\* Where the host may send a payload, it changes no rate (mode_set_baud, mode_linux).
LEMMA RateEndsNoFeed ==
    ASSUME HostRate, NEW all
    PROVE  ~Feeding(all)
<1>1. PICK s : s = Head(script)
  OBVIOUS
<1>2. script # <<>> /\ s.do = "rate"
  BY <1>1 DEF HostRate
<1>3. SUFFICES ASSUME NEW p, Follows(p, script), p.at = "prompt" \/ p.at = "load" PROVE FALSE
  BY DEF Feeding
<1>4. After(p, s) # Lost
  BY <1>1, <1>2, <1>3, SessionGoesOn
<1>5. CASE p.at = "prompt"
  BY <1>2, <1>4, <1>5 DEF After, If, Sends
<1>6. CASE p.at = "load"
  BY <1>2, <1>4, <1>6 DEF After, If, Sends
<1>7. QED
  BY <1>3, <1>5, <1>6

\* The mode byte l comes to a loader at its prompt with nothing before it, from a host that
\* goes on with the first payload (main, mode_linux).
LEMMA LinuxBegins ==
    ASSUME IInv, HostSend, UNCHANGED <<at, baud>>, AskedFor("l")', ~AskedFor("l")
    PROVE  Feeds(-1, <<>>)'
<1>s. PICK s : s = Head(script)
  OBVIOUS
<1>1. /\ script # <<>> /\ s.do = "send" /\ script' = Tail(script) /\ hbaud' = hbaud
      /\ rx' = IF hbaud = baud THEN Append(rx, s.item) ELSE rx
  BY <1>s DEF HostSend
<1>2. at \in Prompts /\ rx' # <<>> /\ Head(rx') = ModeItem("l")
  BY DEF AskedFor
<1>3. PICK S : rx \in Seq(S)
  BY DEF IInv, LineOK
<1>4. rx = <<>> /\ hbaud = baud
  <2>1. CASE rx # <<>>
    <3>1. rx' \in {rx, Append(rx, s.item)} => Head(rx') = Head(rx)
      BY <1>3, <2>1
    <3>2. QED
      BY <1>1, <1>2, <2>1, <3>1 DEF AskedFor
  <2>2. QED
    BY <1>1, <1>2, <2>1
<1>5. rx' = <<s.item>> /\ s.item = ModeItem("l")
  <2>1. rx' = <<s.item>>
    BY <1>1, <1>4
  <2>2. QED
    BY <1>2, <2>1, Taken
<1>6. ~Booting /\ ~\E p : Follows(p, script) /\ Probing(p)
  <2>1. ~Booting
    BY <1>2, <1>4 DEF Booting, Boots, Astray, AskedFor, Prompts, TermLabels, Final
  <2>2. SUFFICES ASSUME NEW p, Follows(p, script), Probing(p) PROVE FALSE
    BY <2>1
  <2>3. PICK q : q = After(p, s) /\ q # Lost
    BY <1>s, <1>1, <2>2, SessionGoesOn
  <2>4. s.item.is = "probe"
    BY <1>1, <2>2, <2>3, ProbePhases DEF Probing
  <2>5. QED
    BY <1>5, <2>4 DEF ModeItem
<1>7. PICK p : Follows(p, script) /\ InSession(p)
  BY <1>1, <1>6 DEF IInv, Aligned
<1>8. PICK q : q = After(p, s) /\ q # Lost /\ Follows(q, script')
  BY <1>s, <1>1, <1>7, SessionGoesOn
<1>9. Sending(p, s, q)
  BY <1>1, <1>7, <1>8, SessionPhases, SendPhases
<1>10. q = Plain(Opened("l"))
  <2>1. s.item.is = "mode" /\ s.item.val = "l"
    BY <1>5 DEF ModeItem
  <2>2. p.at = "prompt" /\ \E m : s.item = ModeItem(m) /\ q = Plain(Opened(m))
    <3>1. CASE p.at # "prompt"
      <4>1. \/ \E n : s.item = U32(n)
            \/ \E b : s.item = DataIs(b)
            \/ \E n : s.item = [is |-> "probe", val |-> n]
        BY <1>9, <3>1 DEF Sending
      <4>2. \A n : U32(n).is # "mode" /\ DataIs(n).is # "mode" /\ [is |-> "probe", val |-> n].is # "mode"
        BY DEF U32, DataIs
      <4>3. QED
        BY <2>1, <4>1, <4>2
    <3>2. CASE p.at = "prompt"
      BY <1>9, <3>2 DEF Sending
    <3>3. QED
      BY <3>1, <3>2
  <2>3. QED
    BY <2>1, <2>2 DEF ModeItem
<1>11. q.at = "load" /\ q.b = <<>>
  BY <1>10 DEF Opened, Plain, Phase, Empty
<1>12. Feeding(<<>>)'
  BY <1>1, <1>4, <1>8, <1>11 DEF Feeding, SameRate
<1>13. <<>> \in Seq({}) /\ Len(<<>>) = 0 /\ Len(rx') = 1
  BY <1>5
<1>14. QED
  BY <1>12, <1>13 DEF Feeds

\* What the host sends goes behind the payloads that mode l has still to take (mode_linux).
LEMMA LinuxSent ==
    ASSUME IInv, LinuxOK, HostSend, UNCHANGED loaderVars
    PROVE  LinuxOK'
<1> SUFFICES ASSUME NEW d \in -1 .. 2, Standing(d)' PROVE \E all : Feeds(d, all)' /\ Held(d, all)'
  BY DEF LinuxOK
<1>1. UNCHANGED <<at, job, mem, baud>> /\ LineOK /\ DOMAIN mem = KERNEL .. MEM_END - 1
  BY DEF loaderVars, IInv, ControlOK
<1>2. CASE Standing(d)
  <2>1. PICK all : Feeds(d, all) /\ Held(d, all)
    BY <1>2 DEF LinuxOK
  <2>2. PICK all2 : Feeds(d, all2)' /\ \A j \in 1 .. d : all2[j] = all[j]
    BY <1>1, <2>1, FeedSent
  <2>3. (d = 1 => all2[1] = all[1]) /\ (d = 2 => all2[1] = all[1] /\ all2[2] = all[2])
    BY <2>2
  <2>4. Held(d, all2)'
    BY <1>1, <2>1, <2>3 DEF Held
  <2>5. QED
    BY <2>2, <2>4
<1>3. CASE ~Standing(d)
  <2>1. d = -1 /\ AskedFor("l")' /\ ~AskedFor("l")
    BY <1>1, <1>3 DEF Standing
  <2>2. Feeds(-1, <<>>)'
    BY <1>1, <2>1, LinuxBegins
  <2>3. Held(-1, <<>>)'
    BY <1>1 DEF Held
  <2>4. QED
    BY <2>1, <2>2, <2>3
<1>4. QED
  BY <1>2, <1>3

\* Every step keeps the payloads of mode l in order (mode_linux).
LEMMA LinuxKept ==
    ASSUME IInv, LinuxOK, [Next]_vars
    PROVE  LinuxOK'
<1>1. CASE Loader
  BY <1>1, LinuxTaken
<1>2. CASE HostStep
  <2>1. UNCHANGED loaderVars /\ UNCHANGED <<at, job, mem, baud>>
    BY <1>2 DEF HostStep, loaderVars
  <2>2. CASE HostSend
    BY <2>1, <2>2, LinuxSent
  <2>3. CASE HostRate
    <3>1. \A all : Feeding(all) => Feeding(all)'
      BY <2>3, RateEndsNoFeed
    <3>2. rx' = rx
      BY <2>3 DEF HostRate
    <3>3. QED
      BY <2>1, <3>1, <3>2, LinuxSame
  <2>4. CASE HostHear
    <3>1. tx # <<>> /\ rx' = rx
      BY <2>4 DEF HostHear
    <3>2. \A d \in -1 .. 2 : ~Standing(d)
      BY <3>1, LinuxIsSilent DEF IInv
    <3>3. \A d \in -1 .. 2 : ~Standing(d)'
      BY <2>1, <3>1, <3>2 DEF Standing, AskedFor
    <3>4. QED
      BY <3>3 DEF LinuxOK
  <2>5. QED
    BY <1>2, <2>2, <2>3, <2>4 DEF HostStep
<1>3. CASE Host
  <2>1. UNCHANGED <<at, rx, job, mem, baud, hbaud>> /\ script' \in Scripts
    BY <1>3 DEF Host, HostBegin, loaderVars
  <2>2. PICK p : p = Prompt
    OBVIOUS
  <2>3. p.at = "prompt" /\ Follows(p, script')
    BY <2>1, <2>2, SessionBegins DEF Prompt, Plain, Phase
  <2>4. \A all : Feeding(all) => Feeding(all)'
    BY <2>1, <2>3 DEF Feeding, SameRate
  <2>5. QED
    BY <2>1, <2>4, LinuxSame
<1>4. CASE Land \/ UNCHANGED vars
  <2>1. UNCHANGED <<at, rx, job, mem, baud, hbaud, script>>
    BY <1>4 DEF Land, vars, loaderVars, hostVars
  <2>2. \A all : Feeding(all) => Feeding(all)'
    BY <2>1 DEF Feeding, SameRate
  <2>3. QED
    BY <2>1, <2>2, LinuxSame
<1>5. CASE PowerCycle
  <2>1. at' = "start"
    BY <1>5 DEF PowerCycle
  <2>2. \A d \in -1 .. 2 : ~Standing(d)'
    BY <2>1 DEF Standing, AskedFor, Prompts
  <2>3. QED
    BY <2>2 DEF LinuxOK
<1>6. QED
  BY <1>1, <1>2, <1>3, <1>4, <1>5 DEF Next
-----------------------------------------------------------------------------
(***************************************************************************)
(* What is booted.                                                         *)
(***************************************************************************)

\* A kernel is handed over by the SD boot or by mode l (mode_sd_boot, mode_linux).
LEMMA KernelSteps ==
    ASSUME Loader, at' = "kernel"
    PROVE  BootRead \/ (Linux /\ at = "initrdLoad" /\ InitrdLoad)
<1>1. CASE Command
  <2>1. PICK m : at' = Entry(m)
    BY <1>1 DEF Command, Dispatch
  <2>2. QED
    BY <2>1 DEF Entry
<1>2. CASE Linux \/ Boot \/ Uboot
  BY <1>2 DEF Linux, KernelLoad, DtbLoad, Boot, BootHeader, On, Halt, Uboot, loaderVars
<1>3. CASE Start \/ Smoke \/ ReadHeader \/ Dump \/ WriteTest \/ Multi \/ SetBaud \/ Probe
  BY <1>3 DEF Start, Smoke, ReadHeader, Dump, DumpLba, DumpCount, DumpBlock, WriteTest, Multi, MultiCount,
     SegLba, SegCount, Block, NextBlock, Opens, On, OnWith, Back, Halt, SetBaud, Probe
<1>4. QED
  BY <1>1, <1>2, <1>3 DEF Loader

\* What is handed over is whole, and stays so (mode_sd_boot, mode_linux).
LEMMA BootsWholeKept ==
    ASSUME IInv, CardSound, BootCard, LinuxOK, BootsWhole, [Next]_vars
    PROVE  BootsWhole'
<1> SUFFICES ASSUME at' = "kernel", ~torn' PROVE \E v \in Versions : Whole(v)'
  BY DEF BootsWhole
<1>1. CASE Loader
  <2>1. torn' = torn /\ UNCHANGED <<script, hbaud>>
    BY <1>1 DEF Loader, hostVars
  <2>2. CASE BootRead
    BY <2>1, <2>2, BootIsWhole
  <2>3. CASE Linux /\ at = "initrdLoad" /\ InitrdLoad
    <3>1. PICK all : Feeds(2, all) /\ Held(2, all)
      BY <2>3 DEF LinuxOK, Standing
    <3>2. PICK m, p : /\ m = Loaded(mem, INITRD, Item) /\ p = PatchedDtb(m, job.dtb_size, Len(Item) * BLOCK)
                      /\ Received /\ OneSentinel(m, job.dtb_size)
                      /\ Hand([p EXCEPT ![KERNEL + job.kernel_size] = Code])
      BY <2>3 DEF InitrdLoad, Halt
    <3>3. UNCHANGED baud /\ mem' = [p EXCEPT ![KERNEL + job.kernel_size] = Code]
      BY <3>2 DEF Hand
    <3>4. LineOK
      BY DEF IInv
    <3>5. QED
      BY <2>1, <3>1, <3>2, <3>3, <3>4, LinuxIsWhole
  <2>4. QED
    BY <1>1, <2>2, <2>3, KernelSteps
<1>2. CASE HostStep
  <2>1. UNCHANGED <<at, mem>>
    BY <1>2 DEF HostStep, loaderVars
  <2>2. tx = <<>>
    BY <2>1 DEF IInv, Aligned, Booting, Boots, AskedFor, Probing, InSession, MultiOpening, MultiSegment, MultiBlock,
       Testing, Switching, Asking, Stored, AtPrompt, Awaits, Answered, Refused, Idle, Prompts, TermLabels, Final
  <2>3. torn' = torn
    BY <1>2, <2>2 DEF HostStep, HostSend, HostHear, HostRate
  <2>4. QED
    BY <2>1, <2>3 DEF BootsWhole, Whole, Holds
<1>3. CASE Host \/ Land \/ UNCHANGED vars
  <2>1. UNCHANGED <<at, mem, torn>>
    BY <1>3 DEF Host, HostBegin, Land, vars, loaderVars, hostVars
  <2>2. QED
    BY <2>1 DEF BootsWhole, Whole, Holds
<1>4. CASE PowerCycle
  BY <1>4 DEF PowerCycle
<1>5. QED
  BY <1>1, <1>2, <1>3, <1>4 DEF Next

\* At power-on the card holds version 1, and nothing is booted (main).
LEMMA InitBoots == Init => BootInv
<1> SUFFICES ASSUME Init PROVE BootInv
  OBVIOUS
<1>1. IInv
  BY InitInvariant
<1>2. DiskSound
  <2>1. SUFFICES ASSUME NEW v \in Versions, disk[0] = <<v, 0>>, NEW l \in Blob(v) PROVE disk[l] = <<v, l>>
    BY DEF DiskSound
  <2>2. Blob(v) \subseteq Lbas /\ 0 \in Blob(v)
    BY LayoutAssumption DEF Blob
  <2>3. disk = [i \in Lbas |-> <<1, i>>]
    BY DEF Init
  <2>4. v = 1 /\ l \in Lbas
    BY <2>1, <2>2, <2>3
  <2>5. QED
    BY <2>3, <2>4
<1>3. CardSound /\ BootCard /\ BootsWhole /\ LinuxOK
  BY <1>2 DEF Init, CardSound, BootCard, BootsWhole, LinuxOK, Standing, AskedFor, Prompts
<1>4. QED
  BY <1>1, <1>3 DEF BootInv

\* What Stage2 boots is whole: unless an update was cut short, the kernel, the device tree
\* and the initramfs in memory are all of one version (mode_sd_boot, mode_linux).  The block
\* of the write test must be part of no blob.
THEOREM BootsWholeHolds == TestBlockFree => (Spec => []BootsWhole)
<1> SUFFICES ASSUME TestBlockFree PROVE Spec => []BootsWhole
  OBVIOUS
<1>1. BootInv /\ [Next]_vars => BootInv'
  BY NextInvariant, SoundKept, BootCardKept, LinuxKept, BootsWholeKept DEF BootInv
<1>2. BootInv => BootsWhole
  BY DEF BootInv
<1>3. QED
  BY <1>1, <1>2, InitBoots, PTL DEF Spec
=============================================================================
