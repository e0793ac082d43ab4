--------------------------- MODULE SdDriverProofs ---------------------------
(***************************************************************************)
(* The SD driver over any card: its types, and that it is a store of       *)
(* blocks (BlockDevice).  Neither is inductive: the invariant adds where   *)
(* in a call the driver is, when the card may still program, which block   *)
(* the card is at, and that an initialized card is of the kind that        *)
(* sd_is_hc says.                                                          *)
(***************************************************************************)
EXTENDS SdDriver, TLAPS

InitCommands == {0, 8, 55, 41, 58, 16}

\* Where in a call the driver is.
ControlInv ==
    /\ polls \in Nat
    /\ step = "none" <=> call = NoCall
    /\ call.op = "init" => cmd \in InitCommands /\ step \in {"send", "r1"}
    /\ call.op = "read" => cmd = 17 /\ step \in {"send", "r1", "token", "bytes"}
    /\ call.op = "write" => cmd = 24 /\ step \in {"send", "r1", "data", "busy"}

\* The card programs only for the write under way, or after a write failed
\* and until the CMD0 of the next sd_init is answered.
ProgramInv ==
    card.doing = "program" =>
        \/ step = "none" /\ answer = "fail"
        \/ call.op = "init" /\ cmd = 0
        \/ step = "busy"

\* The block that the card is at is the one that the call is for.
BlockInv ==
    /\ step = "r1" /\ cmd \in {17, 24} /\ card.doing = "r1" /\ card.r1 = "ok" => card.at = call.lba
    /\ step \in {"token", "bytes"} /\ card.doing = "data" => card.at = call.lba
    /\ step = "bytes" /\ steady => card.doing = "data"
    /\ step = "data" /\ card.doing = "take" => card.at = call.lba
    /\ step = "busy" =>
          IF card.doing = "program" THEN card.at = call.lba /\ card.word = call.data
                                    ELSE steady => disk[call.lba] = call.data

\* The driver knows the kind of an initialized card; it learns it with CMD8,
\* CMD41 and CMD58.
KindKnown == card.mode = "ready" => (sd_is_hc <=> card.kind = "hc")

KindInv ==
    /\ call.op \in {"read", "write"} \/ (step = "none" /\ answer = "ok") => KindKnown
    /\ call.op = "init" =>
        /\ cmd \in {0, 8, 55, 41} => ~sd_is_hc
        /\ cmd = 0 /\ step = "r1" /\ card.doing = "r1" /\ card.r1 = "idle" => card.mode # "ready"
        /\ cmd \in {8, 55} => card.mode # "ready"
        /\ cmd = 41 /\ step = "send" => card.mode # "ready"
        /\ cmd = 41 /\ step = "r1" /\ card.mode = "ready" =>
              card.doing = "r1" /\ card.r1 = "ok" /\ (card.kind = "hc" => v2_card)
        /\ cmd = 58 /\ step = "r1" /\ card.mode = "ready" => card.doing = "r1" /\ card.r1 = "ok"
        /\ cmd = 16 => KindKnown

Inv == TypeOK /\ ControlInv /\ ProgramInv /\ BlockInv /\ KindInv
-----------------------------------------------------------------------------
(***************************************************************************)
(* What the operators on cards and calls return.                           *)
(***************************************************************************)
R1 == {"none", "ok", "idle", "error"}

LEMMA CallType ==
    ASSUME call \in Calls \cup {NoCall}
    PROVE  /\ call = NoCall <=> call.op = "none"
           /\ call.op \in {"none", "init", "read", "write"}
           /\ call.op \in {"read", "write"} => call.lba \in Lbas
           /\ call.op = "write" => call.data \in Blocks
BY DEF Calls, NoCall

LEMMA DeselectedType ==
    ASSUME NEW c \in Cards
    PROVE  /\ Deselected(c) \in Cards
           /\ Deselected(c).kind = c.kind /\ Deselected(c).mode = c.mode
           /\ Deselected(c).at = c.at /\ Deselected(c).word = c.word
           /\ c.doing = "program" => Deselected(c) = c
           /\ c.doing # "program" => Deselected(c).doing = "nothing"
BY DEF Deselected, Cards

LEMMA AnsweredType ==
    ASSUME NEW c \in Cards, NEW n
    PROVE  /\ Answered(c, n) \in Cards
           /\ Answered(c, n).kind = c.kind /\ Answered(c, n).mode = c.mode
           /\ Answered(c, n).at = c.at /\ Answered(c, n).word = c.word
           /\ Answered(c, n).doing # "program"
BY DEF Answered, Cards

\* An R1 and the mode it comes with.
LEMMA AnswersType ==
    ASSUME NEW c \in Cards, NEW n, NEW arg, NEW a \in Answers(c, n, arg)
    PROVE  /\ a.r1 \in R1 /\ a.mode \in {"absent", "off", "idle", "ready"}
           /\ n = 0 /\ a.r1 = "idle" => a.mode = "idle"
           /\ n # 41 /\ a.mode = "ready" => c.mode = "ready"
           /\ n = 41 /\ c.mode # "ready" /\ a.mode = "ready" =>
                  a.r1 = "ok" /\ (c.kind = "hc" => arg = 1)
           /\ n = 58 /\ a.mode = "ready" => a.r1 = "ok"
           /\ n \in {17, 24} /\ a.r1 = "ok" => c.mode = "ready" /\ Meant(c, arg) # {}
<1>1. CASE c.mode \in {"absent", "off"} /\ ~(c.mode = "off" /\ n = 0)
  BY <1>1 DEF Answers, R1, Cards
<1>2. CASE ~(c.mode \in {"absent", "off"} /\ ~(c.mode = "off" /\ n = 0))
  <2>1. CASE n = 0
    BY <1>2, <2>1 DEF Answers, R1, Cards
  <2>2. CASE n = 8
    BY <1>2, <2>2 DEF Answers, R1, Cards
  <2>3. CASE n = 41 /\ c.mode = "idle" /\ c.app
    BY <1>2, <2>3 DEF Answers, R1, Cards
  <2>4. CASE n \in {55, 58}
    BY <1>2, <2>4 DEF Answers, R1, Cards
  <2>5. CASE n \in {17, 24}
    BY <1>2, <2>5 DEF Answers, R1, Cards
  <2>6. CASE n \notin {0, 8, 55, 58, 17, 24} /\ ~(n = 41 /\ c.mode = "idle" /\ c.app)
    BY <1>2, <2>6 DEF Answers, R1, Cards
  <2> QED BY <2>1, <2>2, <2>3, <2>4, <2>5, <2>6
<1> QED BY <1>1, <1>2

LEMMA MeantType ==
    ASSUME NEW c, NEW arg
    PROVE  Meant(c, arg) \subseteq Lbas
BY DEF Meant

\* A card that does not program answers the command.
LEMMA ToldType ==
    ASSUME NEW c \in Cards, NEW n, NEW arg, NEW d \in Told(c, n, arg), c.doing # "program"
    PROVE  /\ d \in Cards /\ d.kind = c.kind /\ d.doing = "r1"
           /\ n = 0 /\ d.r1 = "idle" => d.mode = "idle"
           /\ n # 41 /\ d.mode = "ready" => c.mode = "ready"
           /\ n = 41 /\ c.mode # "ready" /\ d.mode = "ready" =>
                  d.r1 = "ok" /\ (c.kind = "hc" => arg = 1)
           /\ n = 58 /\ d.mode = "ready" => d.r1 = "ok"
           /\ n \in {17, 24} /\ d.r1 = "ok" => c.mode = "ready" /\ d.at \in Meant(c, arg)
<1>1. PICK a \in Answers(c, n, arg) :
        d = [c EXCEPT !.mode = a.mode, !.r1 = a.r1, !.app = (n = 55),
                      !.at = IF n \in {17, 24} /\ a.r1 = "ok"
                             THEN CHOOSE b \in Meant(c, arg) : TRUE ELSE @,
                      !.doing = "r1"]
  BY DEF Told
<1>2. n \in {17, 24} /\ a.r1 = "ok" => (CHOOSE b \in Meant(c, arg) : TRUE) \in Meant(c, arg)
  BY AnswersType
<1>3. n \in {17, 24} /\ a.r1 = "ok" => d.at \in Meant(c, arg)
  BY <1>1, <1>2 DEF Cards
<1>4. d.mode = a.mode /\ d.r1 = a.r1 /\ d.kind = c.kind /\ d.doing = "r1"
  BY <1>1 DEF Cards
<1>5. d.at \in Lbas
  BY <1>1, <1>3, MeantType DEF Cards
<1>6. d \in Cards
  BY <1>1, <1>5, AnswersType DEF Cards, R1
<1> QED BY <1>3, <1>4, <1>6, AnswersType

\* A block number or a byte address reaches the block that was meant.
LEMMA AddressRight ==
    ASSUME NEW c \in Cards, NEW lba \in Lbas, NEW b \in Meant(c, Address(lba)),
           sd_is_hc <=> c.kind = "hc"
    PROVE  b = lba
<1>1. NumBlocks \in Nat /\ BLOCK \in Nat /\ BLOCK > 0 /\ W \in Nat /\ NumBlocks * BLOCK <= W
  BY CardAssumption, DriverAssumption
<1>2. lba \in Nat /\ b \in Nat /\ lba <= NumBlocks - 1
  BY <1>1 DEF Lbas, Meant
<1>3. CASE c.kind = "hc"
  BY <1>3 DEF Meant, Address
<1>4. CASE c.kind # "hc"
  <2>1. (lba * BLOCK) % W = b * BLOCK
    BY <1>4 DEF Meant, Address
  <2>2. lba * BLOCK \in Nat /\ lba * BLOCK < NumBlocks * BLOCK
    BY <1>1, <1>2
  <2>3. (lba * BLOCK) % W = lba * BLOCK
    BY <1>1, <2>2
  <2> QED BY <1>1, <1>2, <2>1, <2>3
<1> QED BY <1>3, <1>4
-----------------------------------------------------------------------------
(***************************************************************************)
(* How a call ends.                                                        *)
(***************************************************************************)
LEMMA EndKeepsInv ==
    ASSUME Inv, NEW a, NEW c \in Cards, Return(a), card' = Deselected(c),
           a = "fail" \/ (a = "ok" /\ c.doing # "program"),
           disk' = disk, buf' \in Blocks \cup {Garbled}, swaps' = swaps, steady' = steady,
           fast' \in BOOLEAN, sd_is_hc' \in BOOLEAN, v2_card' = v2_card, tries' = tries,
           a = "ok" /\ c.mode = "ready" => (sd_is_hc' <=> c.kind = "hc")
    PROVE  Inv'
<1>1. call' = NoCall /\ step' = "none" /\ cmd' = 0 /\ polls' = 0 /\ answer' = a
  BY DEF Return
<1>2. call'.op = "none"
  BY <1>1 DEF NoCall
<1>3. TypeOK'
  BY <1>1, DeselectedType DEF Inv, TypeOK
<1>4. ControlInv'
  BY <1>1, <1>2 DEF ControlInv
<1>5. ProgramInv'
  BY <1>1, DeselectedType DEF ProgramInv
<1>6. BlockInv'
  BY <1>1 DEF BlockInv
<1>7. KindInv'
  BY <1>1, <1>2, DeselectedType DEF KindInv, KindKnown
<1> QED BY <1>3, <1>4, <1>5, <1>6, <1>7 DEF Inv

\* The card is released and the call has failed, or sd_init has succeeded.
Refused(c) == Release(c) /\ GiveUp
Succeeds(c) == Release(c) /\ Ready

LEMMA RefusedKeepsInv ==
    ASSUME Inv, NEW c \in Cards, Refused(c), swaps' = swaps, steady' = steady
    PROVE  Inv'
<1>1. Return("fail") /\ card' = Deselected(c) /\ disk' = disk /\ buf' = buf
      /\ fast' = fast /\ sd_is_hc' = sd_is_hc /\ v2_card' = v2_card /\ tries' = tries
  BY DEF Refused, Release, GiveUp, Return, initVars
<1> QED BY <1>1, EndKeepsInv DEF Inv, TypeOK

LEMMA ReadyKeepsInv ==
    ASSUME Inv, NEW c \in Cards, Succeeds(c), c.doing # "program", swaps' = swaps, steady' = steady,
           sd_is_hc' \in BOOLEAN, v2_card' = v2_card, tries' = tries,
           c.mode = "ready" => (sd_is_hc' <=> c.kind = "hc")
    PROVE  Inv'
<1>1. Return("ok") /\ card' = Deselected(c) /\ disk' = disk /\ buf' = buf /\ fast' = TRUE
  BY DEF Succeeds, Release, Ready, Return
<1> QED BY <1>1, EndKeepsInv DEF Inv, TypeOK

\* sd_init goes on with another command.
LEMMA CommandKeepsInv ==
    ASSUME Inv, call.op = "init", NEW c \in Cards, c.doing # "program",
           NEW n \in {8, 55, 58, 16}, Command(n), Release(c), swaps' = swaps, steady' = steady,
           sd_is_hc' \in BOOLEAN, v2_card' \in BOOLEAN, tries' \in 0 .. INIT_TRIES - 1,
           n \in {8, 55} => ~sd_is_hc' /\ c.mode # "ready",
           n = 16 /\ c.mode = "ready" => (sd_is_hc' <=> c.kind = "hc")
    PROVE  Inv'
<1>1. /\ cmd' = n /\ step' = "send" /\ polls' = 0 /\ card' = Deselected(c)
      /\ disk' = disk /\ call' = call /\ answer' = answer /\ buf' = buf /\ fast' = fast
  BY DEF Command, Release, callVars
<1>2. TypeOK'
  BY <1>1, DeselectedType DEF Inv, TypeOK
<1>3. ControlInv'
  BY <1>1, CallType DEF Inv, TypeOK, ControlInv, InitCommands
<1>4. ProgramInv'
  BY <1>1, DeselectedType DEF ProgramInv
<1>5. BlockInv'
  BY <1>1 DEF BlockInv
<1>6. KindInv'
  BY <1>1, DeselectedType DEF KindInv, KindKnown
<1> QED BY <1>2, <1>3, <1>4, <1>5, <1>6 DEF Inv
-----------------------------------------------------------------------------
(***************************************************************************)
(* What the driver knows when a poll of PollR1 has an R1 for it.           *)
(***************************************************************************)
Heard(r1, c) ==
    /\ r1 \in R1 /\ c \in Cards
    /\ c.kind = card.kind /\ c.mode = card.mode /\ c.at = card.at /\ c.word = card.word
    /\ (c.doing = "program" <=> card.doing = "program") /\ (card.doing = "program" => c = card)
    /\ \/ card.doing = "program" /\ r1 = "ok"
       \/ card.doing = "r1" /\ r1 = card.r1
       \/ card.doing # "program" /\ (card.doing = "r1" => card.r1 = "none") /\ r1 = "none"

LEMMA PollR1Cases ==
    ASSUME TypeOK, PollR1
    PROVE  \/ \E r1, c : Heard(r1, c) /\ After(r1, c)
           \/ Poll(RESP_LIMIT) /\ UNCHANGED <<disk, callVars, card, fast, initVars, cmd, step>>
<1>1. card \in Cards
  BY DEF TypeOK
<1>2. CASE card.doing = "program" /\ After("ok", card)
  BY <1>1, <1>2 DEF Heard, R1
<1>3. CASE card.doing = "r1" /\ card.r1 # "none" /\ After(card.r1, Answered(card, cmd))
  <2>1. card.r1 \in R1
    BY <1>1 DEF Cards, R1
  <2>2. Heard(card.r1, Answered(card, cmd))
    BY <1>1, <1>3, <2>1, AnsweredType DEF Heard
  <2> QED BY <1>3, <2>2
<1>4. CASE (card.doing = "r1" => card.r1 = "none") /\ card.doing # "program" /\ After("none", card)
  BY <1>1, <1>4 DEF Heard, R1
<1> QED BY <1>2, <1>3, <1>4 DEF PollR1

LEMMA AfterKeepsInv ==
    ASSUME Inv, step = "r1", NEW r1, NEW c, Heard(r1, c), After(r1, c), swaps' = swaps, steady' = steady
    PROVE  Inv'
<1> USE DEF Heard
<1>1. card \in Cards /\ c \in Cards /\ call \in Calls \cup {NoCall}
      /\ {sd_is_hc, v2_card} \subseteq BOOLEAN /\ tries \in 0 .. INIT_TRIES - 1 /\ INIT_TRIES \in Nat \ {0}
  BY DriverAssumption DEF Inv, TypeOK
<1>2. /\ call.op \in {"init", "read", "write"} /\ call # NoCall
      /\ call.op = "init" <=> cmd \in InitCommands
      /\ cmd \in {17, 24} \cup InitCommands
  BY CallType, <1>1 DEF Inv, ControlInv, InitCommands
<1>3. card.doing = "program" => cmd = 0
  BY <1>2 DEF Inv, ProgramInv
<1>4. CASE cmd = 0
  <2>1. AfterReset(r1, c)
    BY <1>4 DEF After
  <2>2. CASE r1 = "idle" /\ Command(8) /\ Release(c) /\ UNCHANGED initVars
    <3>1. c.mode # "ready" /\ ~sd_is_hc /\ c.doing # "program" /\ call.op = "init"
      BY <1>1, <1>2, <1>4, <2>2 DEF Inv, KindInv, InitCommands
    <3> QED BY <1>1, <2>2, <3>1, CommandKeepsInv DEF initVars
  <2> QED BY <2>1, <2>2, <1>1, RefusedKeepsInv DEF AfterReset, Refused
<1>5. CASE cmd = 8
  <2>1. v2_card' \in BOOLEAN /\ tries' = 0 /\ Command(55) /\ Release(c) /\ sd_is_hc' = sd_is_hc
    BY <1>5 DEF After, AfterCondition
  <2>2. c.mode # "ready" /\ ~sd_is_hc /\ c.doing # "program" /\ call.op = "init"
    BY <1>1, <1>2, <1>3, <1>5 DEF Inv, KindInv, InitCommands
  <2> QED BY <1>1, <2>1, <2>2, CommandKeepsInv
<1>6. CASE cmd = 55
  <2>1. /\ cmd' = 41 /\ step' = "send" /\ polls' = 0 /\ card' = c
        /\ disk' = disk /\ call' = call /\ answer' = answer /\ buf' = buf /\ fast' = fast
        /\ sd_is_hc' = sd_is_hc /\ v2_card' = v2_card /\ tries' = tries
    BY <1>6 DEF After, AfterApp, Command, callVars, initVars
  <2>2. c.mode # "ready" /\ ~sd_is_hc /\ c.doing # "program" /\ call.op = "init"
    BY <1>1, <1>2, <1>3, <1>6 DEF Inv, KindInv, InitCommands
  <2>3. TypeOK'
    BY <1>1, <2>1 DEF Inv, TypeOK
  <2>4. ControlInv'
    BY <1>2, <2>1, <2>2 DEF ControlInv, InitCommands
  <2>5. ProgramInv' /\ BlockInv'
    BY <2>1, <2>2 DEF ProgramInv, BlockInv
  <2>6. KindInv'
    BY <2>1, <2>2 DEF KindInv, KindKnown
  <2> QED BY <2>3, <2>4, <2>5, <2>6 DEF Inv
<1>7. CASE cmd = 41
  <2>1. AfterStart(r1, c) /\ call.op = "init" /\ c.doing # "program" /\ ~sd_is_hc
    BY <1>1, <1>2, <1>3, <1>7 DEF After, Inv, KindInv, InitCommands
  <2>2. c.mode = "ready" => r1 = "ok" /\ (c.kind = "hc" => v2_card)
    BY <1>7, <2>1 DEF Inv, KindInv
  <2>3. CASE r1 = "ok" /\ Command(IF v2_card THEN 58 ELSE 16) /\ Release(c) /\ UNCHANGED initVars
    BY <1>1, <2>1, <2>2, <2>3, CommandKeepsInv DEF initVars
  <2>4. CASE /\ r1 = "idle" /\ tries + 1 < INIT_TRIES /\ tries' = tries + 1
             /\ Command(55) /\ Release(c) /\ UNCHANGED <<sd_is_hc, v2_card>>
    BY <1>1, <2>1, <2>2, <2>4, CommandKeepsInv
  <2> QED BY <2>1, <2>3, <2>4, <1>1, RefusedKeepsInv DEF AfterStart, Refused
<1>8. CASE cmd = 58
  <2> DEFINE ccs == r1 = "ok" /\ card.kind = "hc"
  <2>1. sd_is_hc' = ccs /\ v2_card' = v2_card /\ tries' = tries
        /\ Release(c) /\ IF ccs THEN Ready ELSE Command(16)
    BY <1>8 DEF After, AfterOcr
  <2>2. c.mode = "ready" => r1 = "ok"
    BY <1>2, <1>8 DEF Inv, KindInv, InitCommands
  <2>3. c.doing # "program" /\ call.op = "init"
    BY <1>2, <1>3, <1>8 DEF InitCommands
  <2>4. CASE ccs
    BY <1>1, <2>1, <2>2, <2>3, <2>4, ReadyKeepsInv DEF Succeeds
  <2>5. CASE ~ccs
    <3>1. /\ sd_is_hc' \in BOOLEAN /\ Command(16) /\ Release(c)
          /\ c.mode = "ready" => (sd_is_hc' <=> c.kind = "hc")
      BY <2>1, <2>2, <2>5
    <3>2. c \in Cards /\ v2_card' \in BOOLEAN /\ tries' \in 0 .. INIT_TRIES - 1
      BY <1>1, <2>1
    <3> HIDE DEF ccs, Heard
    <3> QED BY <2>3, <3>1, <3>2, CommandKeepsInv
  <2> QED BY <2>4, <2>5
<1>9. CASE cmd = 16
  <2>1. AfterLength(r1, c) /\ c.doing # "program" /\ call.op = "init"
    BY <1>2, <1>3, <1>9 DEF After, InitCommands
  <2>2. CASE r1 = "ok" /\ Succeeds(c) /\ UNCHANGED initVars
    BY <1>1, <1>9, <2>1, <2>2, ReadyKeepsInv DEF initVars, Inv, KindInv, KindKnown
  <2> QED BY <2>1, <2>2, <1>1, RefusedKeepsInv DEF AfterLength, Refused, Succeeds
<1>10. CASE cmd \in {17, 24}
  <2>1. AfterTransfer(r1, c) /\ c.doing # "program"
    BY <1>3, <1>10 DEF After
  <2>2. CASE /\ r1 = "ok"
             /\ step' = (IF cmd = 17 THEN "token" ELSE "data") /\ polls' = 0 /\ card' = c
             /\ UNCHANGED <<disk, callVars, fast, initVars, cmd>>
    <3>1. /\ disk' = disk /\ call' = call /\ answer' = answer /\ buf' = buf /\ fast' = fast
          /\ sd_is_hc' = sd_is_hc /\ v2_card' = v2_card /\ tries' = tries /\ cmd' = cmd
      BY <2>2 DEF callVars, initVars
    <3>2. TypeOK'
      BY <1>1, <2>2, <3>1 DEF Inv, TypeOK
    <3>3. ControlInv'
      BY <1>2, <1>10, <2>2, <3>1 DEF ControlInv, InitCommands, Inv
    <3>4. ProgramInv'
      BY <2>1, <2>2 DEF ProgramInv
    <3>5. BlockInv'
      BY <1>10, <2>1, <2>2, <3>1 DEF BlockInv, Inv
    <3>6. KindInv'
      BY <1>2, <1>10, <2>2, <3>1 DEF KindInv, KindKnown, Inv, InitCommands
    <3> QED BY <3>2, <3>3, <3>4, <3>5, <3>6 DEF Inv
  <2> QED BY <2>1, <2>2, <1>1, RefusedKeepsInv DEF AfterTransfer, Refused
<1> QED BY <1>2, <1>4, <1>5, <1>6, <1>7, <1>8, <1>9, <1>10 DEF InitCommands
-----------------------------------------------------------------------------
(***************************************************************************)
(* Every step keeps the invariant.                                         *)
(***************************************************************************)
LEMMA BeginKeepsInv ==
    ASSUME Inv, NEW c \in Calls, Begin(c)
    PROVE  Inv'
<1>1. /\ step = "none" /\ (c.op = "init" \/ answer = "ok")
      /\ call' = c /\ answer' = "none" /\ step' = "send" /\ polls' = 0
      /\ disk' = disk /\ buf' = buf /\ v2_card' = v2_card
      /\ tries' = tries /\ swaps' = swaps /\ steady' = TRUE
  BY DEF Begin
<1>2. \/ c.op = "init" /\ sd_is_hc' = FALSE /\ fast' = FALSE /\ cmd' = 0 /\ card' = Deselected(card)
      \/ c.op = "read" /\ cmd' = 17 /\ sd_is_hc' = sd_is_hc /\ fast' = fast /\ card' = card
      \/ c.op = "write" /\ cmd' = 24 /\ sd_is_hc' = sd_is_hc /\ fast' = fast /\ card' = card
  BY DEF Begin, StartInit, Release, Calls
<1>3. c # NoCall
  BY DEF Calls, NoCall
<1>4. /\ card \in Cards /\ card' \in Cards /\ card'.kind = card.kind /\ card'.mode = card.mode
      /\ card'.doing = "program" <=> card.doing = "program"
  BY <1>2, DeselectedType DEF Inv, TypeOK
<1>5. TypeOK'
  BY <1>1, <1>2, <1>4 DEF Inv, TypeOK
<1>6. ControlInv'
  BY <1>1, <1>2, <1>3 DEF ControlInv, InitCommands
<1>7. ProgramInv'
  BY <1>1, <1>2, <1>3, <1>4 DEF ProgramInv, Inv, ControlInv, NoCall
<1>8. BlockInv'
  BY <1>1 DEF BlockInv
<1>9. KindInv'
  BY <1>1, <1>2, <1>4 DEF KindInv, KindKnown, Inv
<1> QED BY <1>5, <1>6, <1>7, <1>8, <1>9 DEF Inv

LEMMA SendKeepsInv ==
    ASSUME Inv, Send
    PROVE  Inv'
<1>1. /\ step = "send" /\ step' = "r1" /\ polls' = 0
      /\ card' \in Told(card, cmd, Argument)
      /\ disk' = disk /\ call' = call /\ answer' = answer /\ buf' = buf /\ fast' = fast
      /\ sd_is_hc' = sd_is_hc /\ v2_card' = v2_card /\ tries' = tries /\ cmd' = cmd /\ swaps' = swaps /\ steady' = steady
  BY DEF Send, callVars, initVars, slotVars
<1>2. card \in Cards /\ call \in Calls \cup {NoCall} /\ RESP_LIMIT \in Nat \ {0}
  BY DriverAssumption DEF Inv, TypeOK
<1>3. /\ call.op \in {"init", "read", "write"} /\ call # NoCall
      /\ call.op \in {"read", "write"} => call.lba \in Lbas
      /\ call.op = "init" => cmd \in InitCommands
      /\ call.op \in {"read", "write"} => cmd \in {17, 24}
  BY <1>1, <1>2, CallType DEF Inv, ControlInv
<1>4. CASE card.doing = "program"
  <2>1. card' = card /\ call.op = "init" /\ cmd = 0
    BY <1>1, <1>3, <1>4 DEF Told, Inv, ProgramInv
  <2>2. TypeOK'
    BY <1>1, <1>2, <2>1 DEF Inv, TypeOK
  <2>3. ControlInv'
    BY <1>1, <1>3, <2>1 DEF ControlInv, InitCommands
  <2>4. ProgramInv' /\ BlockInv'
    BY <1>1, <2>1 DEF ProgramInv, BlockInv
  <2>5. KindInv'
    BY <1>1, <1>4, <2>1 DEF KindInv, KindKnown, Inv
  <2> QED BY <2>2, <2>3, <2>4, <2>5 DEF Inv
<1>5. CASE card.doing # "program"
  <2>1. /\ card' \in Cards /\ card'.kind = card.kind /\ card'.doing = "r1"
        /\ cmd = 0 /\ card'.r1 = "idle" => card'.mode = "idle"
        /\ cmd # 41 /\ card'.mode = "ready" => card.mode = "ready"
        /\ cmd = 41 /\ card.mode # "ready" /\ card'.mode = "ready" =>
               card'.r1 = "ok" /\ (card.kind = "hc" => Argument = 1)
        /\ cmd = 58 /\ card'.mode = "ready" => card'.r1 = "ok"
        /\ cmd \in {17, 24} /\ card'.r1 = "ok" =>
               card.mode = "ready" /\ card'.at \in Meant(card, Argument)
    BY <1>1, <1>2, <1>5, ToldType
  <2>2. TypeOK'
    BY <1>1, <1>2, <2>1 DEF Inv, TypeOK
  <2>3. ControlInv'
    BY <1>1, <1>3 DEF ControlInv, InitCommands, Inv
  <2>4. ProgramInv'
    BY <2>1 DEF ProgramInv
  <2>5. ASSUME cmd \in {17, 24}, card'.r1 = "ok" PROVE card'.at = call.lba
    <3>1. call.op \in {"read", "write"} /\ Argument = Address(call.lba)
      BY <1>3, <2>5 DEF Argument, InitCommands
    <3>2. sd_is_hc <=> card.kind = "hc"
      BY <2>1, <2>5, <3>1 DEF Inv, KindInv, KindKnown
    <3> QED BY <1>2, <1>3, <2>1, <2>5, <3>1, <3>2, AddressRight
  <2>6. BlockInv'
    BY <1>1, <2>5 DEF BlockInv
  <2>7. cmd = 41 => (Argument = 1 => v2_card)
    BY DEF Argument
  <2>8. KindInv'
    BY <1>1, <1>3, <2>1, <2>7 DEF KindInv, KindKnown, Inv, InitCommands
  <2> QED BY <2>2, <2>3, <2>4, <2>6, <2>8 DEF Inv
<1> QED BY <1>4, <1>5

\* A step that changes no more than the count of polls, and a card that has
\* nothing more to say.
LEMMA PollKeepsInv ==
    ASSUME Inv, card' \in {card, [card EXCEPT !.doing = "nothing"]},
           card' # card => step = "token",
           polls' \in Nat, step = "r1" => polls' < RESP_LIMIT,
           UNCHANGED <<disk, callVars, fast, initVars, cmd, step, slotVars>>
    PROVE  Inv'
<1>1. /\ step' = step /\ cmd' = cmd /\ swaps' = swaps /\ steady' = steady
      /\ disk' = disk /\ call' = call /\ answer' = answer /\ buf' = buf /\ fast' = fast
      /\ sd_is_hc' = sd_is_hc /\ v2_card' = v2_card /\ tries' = tries
  BY DEF callVars, initVars, slotVars
<1>2. /\ card' \in Cards /\ card'.kind = card.kind /\ card'.mode = card.mode
      /\ card' = card \/ card'.doing = "nothing"
  BY DEF Inv, TypeOK, Cards
<1>3. TypeOK'
  BY <1>1, <1>2 DEF Inv, TypeOK
<1>4. ControlInv'
  BY <1>1 DEF Inv, ControlInv
<1>5. ProgramInv'
  BY <1>1, <1>2 DEF Inv, ProgramInv
<1>6. BlockInv'
  BY <1>1, <1>2 DEF Inv, BlockInv
<1>7. KindInv'
  BY <1>1, <1>2, CallType DEF Inv, KindInv, KindKnown, ControlInv, TypeOK
<1> QED BY <1>3, <1>4, <1>5, <1>6, <1>7 DEF Inv

LEMMA PollR1KeepsInv ==
    ASSUME Inv, PollR1
    PROVE  Inv'
<1>1. step = "r1" /\ slotVars' = slotVars /\ swaps' = swaps /\ steady' = steady
  BY DEF PollR1, slotVars
<1>2. CASE Poll(RESP_LIMIT) /\ UNCHANGED <<disk, callVars, card, fast, initVars, cmd, step>>
  <2>1. polls' \in Nat /\ polls' < RESP_LIMIT
    BY <1>2 DEF Poll, Inv, ControlInv
  <2> QED BY <1>1, <1>2, <2>1, PollKeepsInv
<1> QED BY <1>1, <1>2, PollR1Cases, AfterKeepsInv DEF Inv

LEMMA FindTokenKeepsInv ==
    ASSUME Inv, FindToken
    PROVE  Inv'
<1>1. /\ step = "token" /\ card.doing = "data" /\ step' = "bytes" /\ polls' = 0
      /\ card' = card /\ swaps' = swaps /\ steady' = steady /\ cmd' = cmd
      /\ disk' = disk /\ call' = call /\ answer' = answer /\ buf' = buf /\ fast' = fast
      /\ sd_is_hc' = sd_is_hc /\ v2_card' = v2_card /\ tries' = tries
  BY DEF FindToken, callVars, initVars, slotVars
<1>2. TypeOK'
  BY <1>1 DEF Inv, TypeOK
<1>3. ControlInv'
  BY <1>1, CallType DEF Inv, TypeOK, ControlInv
<1>4. ProgramInv'
  BY <1>1 DEF ProgramInv
<1>5. BlockInv'
  BY <1>1 DEF Inv, BlockInv
<1>6. KindInv'
  BY <1>1, CallType DEF Inv, TypeOK, KindInv, KindKnown, ControlInv
<1> QED BY <1>2, <1>3, <1>4, <1>5, <1>6 DEF Inv

LEMMA ReadBlockKeepsInv ==
    ASSUME Inv, ReadBlock
    PROVE  Inv'
<1>1. step = "bytes" /\ card \in Cards /\ call \in Calls \cup {NoCall}
  BY DEF Inv, TypeOK, ReadBlock
<1>2. call.op = "read" /\ cmd = 17 /\ card.doing # "program"
  BY <1>1, CallType DEF Inv, ControlInv, ProgramInv
<1>3. buf' \in Blocks \cup {Garbled}
  BY <1>1 DEF Inv, TypeOK, ReadBlock, Cards
<1>4. /\ Return("ok") /\ card' = Deselected(card) /\ disk' = disk
      /\ fast' = fast /\ sd_is_hc' = sd_is_hc /\ v2_card' = v2_card /\ tries' = tries
      /\ swaps' = swaps /\ steady' = steady
  BY DEF ReadBlock, Release, Return, initVars, slotVars
<1>5. card.mode = "ready" => (sd_is_hc <=> card.kind = "hc")
  BY <1>2 DEF Inv, KindInv, KindKnown
<1> QED BY <1>1, <1>2, <1>3, <1>4, <1>5, EndKeepsInv DEF Inv, TypeOK

LEMMA PollTokenKeepsInv ==
    ASSUME Inv, PollToken
    PROVE  Inv'
<1>1. step = "token" /\ slotVars' = slotVars
  BY DEF PollToken
<1>2. CASE /\ Poll(TOKEN_LIMIT)
           /\ card' \in {card, [card EXCEPT !.doing = "nothing"]}
           /\ UNCHANGED <<disk, callVars, fast, initVars, cmd, step>>
  <2>1. polls' \in Nat
    BY <1>2 DEF Poll, Inv, ControlInv
  <2> QED BY <1>1, <1>2, <2>1, PollKeepsInv
<1> QED BY <1>1, <1>2, RefusedKeepsInv DEF PollToken, slotVars, Refused, Inv, TypeOK

LEMMA WriteBlockKeepsInv ==
    ASSUME Inv, WriteBlock
    PROVE  Inv'
<1>1. step = "data" /\ card \in Cards /\ swaps' = swaps /\ steady' = steady /\ call \in Calls \cup {NoCall}
  BY DEF WriteBlock, slotVars, Inv, TypeOK
<1>2. call.op = "write" /\ call.data \in Blocks /\ call # NoCall /\ cmd = 24
  BY <1>1, CallType DEF Inv, ControlInv
<1>3. CASE /\ card.doing = "take"
           /\ card' = [card EXCEPT !.doing = "program", !.word = call.data]
           /\ step' = "busy" /\ polls' = 0
           /\ UNCHANGED <<disk, callVars, fast, initVars, cmd>>
  <2>1. /\ disk' = disk /\ call' = call /\ answer' = answer /\ buf' = buf /\ fast' = fast
        /\ sd_is_hc' = sd_is_hc /\ v2_card' = v2_card /\ tries' = tries /\ cmd' = cmd
    BY <1>3 DEF callVars, initVars
  <2>2. /\ card' \in Cards /\ card'.kind = card.kind /\ card'.mode = card.mode
        /\ card'.at = card.at /\ card'.word = call.data /\ card'.doing = "program"
    BY <1>1, <1>2, <1>3 DEF Cards
  <2>3. TypeOK'
    BY <1>1, <1>3, <2>1, <2>2 DEF Inv, TypeOK
  <2>4. ControlInv'
    BY <1>2, <1>3, <2>1 DEF ControlInv
  <2>5. ProgramInv'
    BY <1>3 DEF ProgramInv
  <2>6. BlockInv'
    BY <1>1, <1>3, <2>1, <2>2 DEF BlockInv, Inv
  <2>7. KindInv'
    BY <1>2, <1>3, <2>1, <2>2 DEF KindInv, KindKnown, Inv
  <2> QED BY <2>3, <2>4, <2>5, <2>6, <2>7 DEF Inv
<1>4. CASE Refused([card EXCEPT !.doing = "nothing"])
  <2>1. [card EXCEPT !.doing = "nothing"] \in Cards
    BY <1>1 DEF Cards
  <2> QED BY <1>1, <1>4, <2>1, RefusedKeepsInv
<1> QED BY <1>3, <1>4 DEF WriteBlock, Refused

LEMMA PollBusyKeepsInv ==
    ASSUME Inv, PollBusy
    PROVE  Inv'
<1>1. step = "busy" /\ slotVars' = slotVars /\ swaps' = swaps /\ steady' = steady /\ card \in Cards
  BY DEF PollBusy, slotVars, Inv, TypeOK
<1>2. CASE card.doing # "program" /\ Release(card) /\ Return("ok") /\ UNCHANGED <<buf, fast, initVars>>
  <2>1. /\ Return("ok") /\ card' = Deselected(card) /\ disk' = disk /\ buf' = buf
        /\ fast' = fast /\ sd_is_hc' = sd_is_hc /\ v2_card' = v2_card /\ tries' = tries
    BY <1>2 DEF Release, Return, initVars
  <2>2. card.mode = "ready" => (sd_is_hc <=> card.kind = "hc")
    BY <1>1, CallType DEF Inv, TypeOK, ControlInv, KindInv, KindKnown
  <2> QED BY <1>1, <1>2, <2>1, <2>2, EndKeepsInv DEF Inv, TypeOK
<1>3. CASE /\ card.doing = "program" /\ Poll(BUSY_LIMIT)
           /\ UNCHANGED <<disk, callVars, card, fast, initVars, cmd, step>>
  <2>1. polls' \in Nat
    BY <1>3 DEF Poll, Inv, ControlInv
  <2> QED BY <1>1, <1>3, <2>1, PollKeepsInv
<1> QED BY <1>1, <1>2, <1>3, RefusedKeepsInv DEF PollBusy, slotVars, Refused

LEMMA ProgramKeepsInv ==
    ASSUME Inv, Program
    PROVE  Inv'
<1>1. /\ card.doing = "program" /\ disk' = [disk EXCEPT ![card.at] = card.word]
      /\ call' = call /\ answer' = answer /\ buf' = buf /\ fast' = fast
      /\ sd_is_hc' = sd_is_hc /\ v2_card' = v2_card /\ tries' = tries /\ cmd' = cmd
      /\ step' = step /\ polls' = polls /\ swaps' = swaps /\ steady' = steady
  BY DEF Program, callVars, initVars, slotVars
<1>2. /\ card' \in Cards /\ card'.kind = card.kind /\ card'.mode = card.mode
      /\ card'.doing = "nothing" /\ card.at \in Lbas /\ card.word \in Blocks
  BY DEF Program, Inv, TypeOK, Cards
<1>3. TypeOK'
  BY <1>1, <1>2 DEF Inv, TypeOK
<1>4. ControlInv'
  BY <1>1 DEF Inv, ControlInv
<1>5. ProgramInv'
  BY <1>2 DEF ProgramInv
<1>6. BlockInv'
  BY <1>1, <1>2 DEF Inv, TypeOK, BlockInv
<1>7. KindInv'
  BY <1>1, <1>2, CallType DEF Inv, KindInv, KindKnown, ProgramInv, ControlInv, TypeOK
<1> QED BY <1>3, <1>4, <1>5, <1>6, <1>7 DEF Inv

LEMMA SwapKeepsInv ==
    ASSUME Inv, Swap
    PROVE  Inv'
<1>1. /\ swaps < SWAPS /\ swaps' = swaps + 1 /\ steady' = FALSE
      /\ call' = call /\ answer' = answer /\ buf' = buf /\ fast' = fast
      /\ sd_is_hc' = sd_is_hc /\ v2_card' = v2_card /\ tries' = tries /\ cmd' = cmd
      /\ step' = step /\ polls' = polls
  BY DEF Swap, callVars, initVars
<1>2. 0 \in Lbas /\ (CHOOSE b \in Blocks : TRUE) \in Blocks
  BY CardAssumption DEF Lbas
<1>3. card' \in Cards /\ card'.mode # "ready" /\ card'.doing = "nothing"
  BY <1>2 DEF Swap, FreshCards, Cards
<1>4. swaps' \in 0 .. SWAPS
  BY <1>1, DriverAssumption DEF Inv, TypeOK
<1>5. disk' \in [Lbas -> Blocks \cup {Garbled}]
  <2>1. disk \in [Lbas -> Blocks \cup {Garbled}] /\ card.word \in Blocks
    BY DEF Inv, TypeOK, Cards
  <2>2. disk' = disk \/ \E b \in {card.word, Garbled} : disk' = [disk EXCEPT ![card.at] = b]
    BY DEF Swap
  <2> QED BY <2>1, <2>2
<1>6. TypeOK'
  BY <1>1, <1>3, <1>4, <1>5 DEF Inv, TypeOK
<1>7. ControlInv'
  BY <1>1 DEF Inv, ControlInv
<1>8. ProgramInv'
  BY <1>3 DEF ProgramInv
<1>9. BlockInv'
  BY <1>1, <1>3 DEF BlockInv
<1>10. KindInv'
  BY <1>1, <1>3 DEF Inv, KindInv, KindKnown
<1> QED BY <1>6, <1>7, <1>8, <1>9, <1>10 DEF Inv

LEMMA InitGivesInv == Init => Inv
<1> SUFFICES ASSUME Init PROVE Inv
  OBVIOUS
<1>1. 0 \in Lbas /\ (CHOOSE b \in Blocks : TRUE) \in Blocks /\ INIT_TRIES \in Nat \ {0} /\ SWAPS \in Nat
  BY CardAssumption, DriverAssumption DEF Lbas
<1>2. card \in Cards /\ card.mode # "ready" /\ card.doing = "nothing"
  BY <1>1 DEF Init, FreshCards, Cards
<1>3. call.op = "none"
  BY DEF Init, NoCall
<1>4. buf \in Blocks /\ {fast, sd_is_hc, v2_card, steady} \subseteq BOOLEAN
  BY <1>1, Zenon DEF Init
<1>5. TypeOK
  BY <1>1, <1>2, <1>4 DEF Init, TypeOK
<1> QED BY <1>2, <1>3, <1>5 DEF Init, Inv, ControlInv, ProgramInv, BlockInv, KindInv, KindKnown

\* The inductive invariant (sd_init, sd_read_block and sd_write_block of sd.c, over any card).
THEOREM InvCorrect == Spec => []Inv
<1>1. Inv /\ [Next]_vars => Inv'
  <2> SUFFICES ASSUME Inv, [Next]_vars PROVE Inv'
    OBVIOUS
  <2>1. ASSUME NEW c \in Calls, Begin(c) PROVE Inv'
    BY <2>1, BeginKeepsInv
  <2>2. CASE Send
    BY <2>2, SendKeepsInv
  <2>3. CASE PollR1
    BY <2>3, PollR1KeepsInv
  <2>4. CASE FindToken \/ ReadBlock
    BY <2>4, FindTokenKeepsInv, ReadBlockKeepsInv
  <2>5. CASE PollToken
    BY <2>5, PollTokenKeepsInv
  <2>6. CASE WriteBlock
    BY <2>6, WriteBlockKeepsInv
  <2>7. CASE PollBusy
    BY <2>7, PollBusyKeepsInv
  <2>8. CASE Program
    BY <2>8, ProgramKeepsInv
  <2>9. CASE Swap
    BY <2>9, SwapKeepsInv
  <2>10. CASE UNCHANGED vars
    BY <2>10 DEF vars, callVars, initVars, slotVars, Inv, TypeOK, ControlInv, ProgramInv, BlockInv, KindInv, KindKnown
  <2> QED BY <2>1, <2>2, <2>3, <2>4, <2>5, <2>6, <2>7, <2>8, <2>9, <2>10 DEF Next, Driver
<1> QED BY <1>1, InitGivesInv, PTL DEF Spec

\* TypeOK: the driver's variables keep to their ranges, and its counters to their limits.
THEOREM TypeCorrect == Spec => []TypeOK
<1>1. Inv => TypeOK
  BY DEF Inv
<1> QED BY <1>1, InvCorrect, PTL
-----------------------------------------------------------------------------
(***************************************************************************)
(* The driver is a store of blocks.  What is on its way to the card is     *)
(* what the card programs; each step of the driver is a step of the store  *)
(* or changes nothing of it.                                               *)
(***************************************************************************)
Stutter == disk' = disk /\ call' = call /\ answer' = answer /\ buf' = buf /\ Loose' = Loose /\ steady' = steady

LEMMA StutterStep ==
    ASSUME Stutter
    PROVE  [Store!Next]_Store!vars
BY DEF Stutter, Store!vars

\* A card that programs the same, or does not program before and after.
LEMMA LooseSame ==
    ASSUME \/ card' = card
           \/ card.doing # "program" /\ card'.doing # "program"
    PROVE  Loose' = Loose
BY DEF Loose

LEMMA RefusedFails ==
    ASSUME Inv, step # "none", NEW c \in Cards, Refused(c), steady' = steady,
           c = card \/ (c.doing # "program" /\ card.doing # "program")
    PROVE  Store!Fail
<1>1. /\ call' = NoCall /\ answer' = "fail" /\ card' = Deselected(c) /\ disk' = disk /\ buf' = buf
      /\ call # NoCall
  BY DEF Refused, Release, GiveUp, Return, Inv, ControlInv
<1>2. Loose' = Loose
  BY <1>1, DeselectedType, LooseSame
<1> QED BY <1>1, <1>2 DEF Store!Fail, Store!NoCall, NoCall

LEMMA ReadySucceeds ==
    ASSUME Inv, call.op = "init", NEW c \in Cards, Succeeds(c), steady' = steady,
           c.doing # "program", card.doing # "program"
    PROVE  Store!Succeed
<1>1. /\ call' = NoCall /\ answer' = "ok" /\ card' = Deselected(c) /\ disk' = disk /\ buf' = buf
      /\ call # NoCall
  BY DEF Succeeds, Release, Ready, Return, NoCall
<1>2. Loose = {} /\ Loose' = {}
  BY <1>1, DeselectedType DEF Loose
<1> QED BY <1>1, <1>2 DEF Store!Succeed, Store!NoCall, NoCall

LEMMA CommandStutters ==
    ASSUME NEW n, NEW c \in Cards, Command(n), Release(c), steady' = steady, c.doing # "program", card.doing # "program"
    PROVE  Stutter
<1>1. card' = Deselected(c) /\ disk' = disk /\ call' = call /\ answer' = answer /\ buf' = buf
  BY DEF Command, Release, callVars
<1> QED BY <1>1, DeselectedType, LooseSame DEF Stutter

LEMMA AfterRefines ==
    ASSUME Inv, step = "r1", NEW r1, NEW c, Heard(r1, c), After(r1, c), steady' = steady
    PROVE  [Store!Next]_Store!vars
<1>1. /\ c \in Cards /\ (c = card \/ (c.doing # "program" /\ card.doing # "program"))
      /\ c.doing = "program" => card.doing = "program"
      /\ card.doing = "program" => r1 = "ok"
  BY DEF Heard, R1
<1>2. /\ call.op \in {"init", "read", "write"} /\ (call.op = "init" <=> cmd \in InitCommands)
      /\ cmd \in {17, 24} \cup InitCommands
  BY CallType DEF Inv, TypeOK, ControlInv, InitCommands
<1>3. card.doing = "program" => cmd = 0
  BY <1>2 DEF Inv, ProgramInv
<1>4. Refused(c) => [Store!Next]_Store!vars
  BY <1>1, RefusedFails DEF Store!Next
<1>5. ASSUME NEW n, Command(n), Release(c), cmd # 0 PROVE [Store!Next]_Store!vars
  BY <1>1, <1>3, <1>5, CommandStutters, StutterStep
<1>6. Succeeds(c) /\ cmd \in InitCommands /\ cmd # 0 => [Store!Next]_Store!vars
  BY <1>1, <1>2, <1>3, ReadySucceeds DEF Store!Next
<1>7. CASE cmd = 0
  <2>1. AfterReset(r1, c)
    BY <1>7 DEF After
  <2>2. CASE r1 = "idle" /\ Command(8) /\ Release(c)
    BY <1>1, <2>2, CommandStutters, StutterStep
  <2> QED BY <1>4, <2>1, <2>2 DEF AfterReset, Refused
<1>8. CASE cmd = 8
  BY <1>5, <1>8 DEF After, AfterCondition
<1>9. CASE cmd = 55
  <2>1. card' = c /\ Stutter
    BY <1>1, <1>9, LooseSame DEF After, AfterApp, Command, callVars, Stutter
  <2> QED BY <2>1, StutterStep
<1>10. CASE cmd = 41
  <2>1. AfterStart(r1, c)
    BY <1>10 DEF After
  <2>2. Refused(c) \/ \E n : Command(n) /\ Release(c)
    BY <2>1 DEF AfterStart, Refused
  <2> QED BY <1>4, <1>5, <1>10, <2>2
<1>11. CASE cmd = 58
  <2>1. Succeeds(c) \/ (Command(16) /\ Release(c))
    BY <1>11 DEF After, AfterOcr, Succeeds
  <2> QED BY <1>5, <1>6, <1>11, <2>1 DEF InitCommands
<1>12. CASE cmd = 16
  <2>1. Succeeds(c) \/ Refused(c)
    BY <1>12 DEF After, AfterLength, Succeeds, Refused
  <2> QED BY <1>4, <1>6, <1>12, <2>1 DEF InitCommands
<1>13. CASE cmd \in {17, 24}
  <2>1. AfterTransfer(r1, c)
    BY <1>13 DEF After
  <2>2. CASE card' = c /\ UNCHANGED <<disk, callVars, fast, initVars, cmd>>
    <3>1. Stutter
      BY <1>1, <2>2, LooseSame DEF callVars, Stutter
    <3> QED BY <3>1, StutterStep
  <2> QED BY <1>4, <2>1, <2>2 DEF AfterTransfer, Refused
<1> QED BY <1>2, <1>7, <1>8, <1>9, <1>10, <1>11, <1>12, <1>13 DEF InitCommands

LEMMA StepRefines ==
    ASSUME Inv, [Next]_vars
    PROVE  [Store!Next]_Store!vars
<1>1. card \in Cards /\ call \in Calls \cup {NoCall}
  BY DEF Inv, TypeOK
<1>2. ASSUME NEW c \in Calls, Begin(c) PROVE [Store!Next]_Store!vars
  <2>1. /\ call = NoCall /\ (c.op = "init" \/ answer = "ok") /\ call' = c /\ answer' = "none"
        /\ disk' = disk /\ buf' = buf /\ steady' = TRUE /\ card' \in {card, Deselected(card)}
    BY <1>2 DEF Begin, StartInit, Release, Calls, Inv, ControlInv
  <2>2. Loose' = Loose
    BY <1>1, <2>1, DeselectedType, LooseSame
  <2>3. Store!Begin(c) /\ c \in Store!Calls
    BY <2>1, <2>2 DEF Store!Begin, Store!NoCall, NoCall, Store!Calls, Calls
  <2> QED BY <2>3 DEF Store!Next
<1>3. CASE Send
  <2>1. card.doing # "program" => card'.doing # "program"
    BY <1>1, <1>3, ToldType DEF Send
  <2>2. card.doing = "program" => card' = card
    BY <1>3 DEF Send, Told
  <2>3. Stutter
    BY <1>3, <2>1, <2>2, LooseSame DEF Send, Stutter, callVars, slotVars
  <2> QED BY <2>3, StutterStep
<1>4. CASE PollR1
  <2>1. CASE UNCHANGED <<disk, callVars, card, fast, initVars, cmd, step>>
    BY <1>4, <2>1, LooseSame, StutterStep DEF PollR1, Stutter, callVars, slotVars
  <2> QED BY <1>4, <2>1, PollR1Cases, AfterRefines DEF PollR1, slotVars, Inv
<1>5. CASE ReadBlock
  <2>1. /\ call' = NoCall /\ answer' = "ok" /\ card' = Deselected(card) /\ disk' = disk
        /\ buf' = (IF card.doing = "data" THEN disk[card.at] ELSE Garbled) /\ step = "bytes"
        /\ steady' = steady
    BY <1>5 DEF ReadBlock, Release, Return, slotVars
  <2>2. call.op = "read" /\ call # NoCall /\ card.doing # "program"
    BY <1>1, <2>1, CallType DEF Inv, ControlInv, ProgramInv
  <2>3. Loose = {} /\ Loose' = {}
    BY <1>1, <2>1, <2>2, DeselectedType DEF Loose
  <2>4. buf' \in IF steady THEN {disk[call.lba]} ELSE {disk[call.lba], Garbled}
    BY <2>1 DEF Inv, BlockInv
  <2>5. Store!Succeed
    BY <2>1, <2>2, <2>3, <2>4 DEF Store!Succeed, Store!NoCall, NoCall
  <2> QED BY <2>5 DEF Store!Next
<1>6. CASE PollToken
  <2>1. step = "token" /\ card.doing # "program"
    BY <1>1, <1>6, CallType DEF PollToken, Inv, ProgramInv, ControlInv
  <2>2. CASE /\ card' \in {card, [card EXCEPT !.doing = "nothing"]}
             /\ UNCHANGED <<disk, callVars, fast, initVars, cmd, step>>
    <3>1. card' = card \/ card'.doing # "program"
      BY <1>1, <2>2 DEF Cards
    <3>2. Stutter
      BY <1>6, <2>1, <2>2, <3>1, LooseSame DEF PollToken, Stutter, callVars, slotVars
    <3> QED BY <3>2, StutterStep
  <2>3. CASE Refused(card)
    BY <1>1, <1>6, <2>1, <2>3, RefusedFails DEF PollToken, slotVars, Store!Next
  <2> QED BY <1>6, <2>2, <2>3 DEF PollToken, Refused
<1>7. CASE WriteBlock
  <2>1. step = "data" /\ call.op = "write" /\ call # NoCall /\ card.doing # "program"
    BY <1>1, <1>7, CallType DEF WriteBlock, Inv, ProgramInv, ControlInv
  <2>2. CASE /\ card.doing = "take"
             /\ card' = [card EXCEPT !.doing = "program", !.word = call.data]
             /\ UNCHANGED <<disk, callVars, fast, initVars, cmd>>
    <3>1. card'.doing = "program" /\ card'.at = call.lba /\ card'.word = call.data
      BY <1>1, <2>1, <2>2 DEF Cards, Inv, BlockInv
    <3>2. Loose = {} /\ Loose' = {<<call.lba, call.data>>}
      BY <2>1, <3>1 DEF Loose
    <3>3. Store!Take
      BY <1>7, <2>1, <2>2, <3>2 DEF WriteBlock, slotVars, Store!Take, callVars
    <3> QED BY <3>3 DEF Store!Next
  <2>3. CASE Refused([card EXCEPT !.doing = "nothing"])
    <3>1. [card EXCEPT !.doing = "nothing"] \in Cards /\ [card EXCEPT !.doing = "nothing"].doing = "nothing"
      BY <1>1 DEF Cards
    <3> QED BY <1>7, <2>1, <2>3, <3>1, RefusedFails DEF WriteBlock, slotVars, Store!Next
  <2> QED BY <1>7, <2>2, <2>3 DEF WriteBlock, Refused
<1>8. CASE PollBusy
  <2>1. step = "busy" /\ call.op = "write" /\ call # NoCall /\ steady' = steady
    BY <1>1, <1>8, CallType DEF PollBusy, slotVars, Inv, ControlInv
  <2>2. CASE card.doing # "program" /\ Release(card) /\ Return("ok") /\ UNCHANGED buf
    <3>1. /\ call' = NoCall /\ answer' = "ok" /\ card' = Deselected(card) /\ disk' = disk /\ buf' = buf
          /\ steady => disk[call.lba] = call.data
      BY <2>1, <2>2 DEF Release, Return, Inv, BlockInv
    <3>2. Loose = {} /\ Loose' = {}
      BY <1>1, <2>2, <3>1, DeselectedType DEF Loose
    <3>3. Store!Succeed
      BY <2>1, <3>1, <3>2 DEF Store!Succeed, Store!NoCall, NoCall
    <3> QED BY <3>3 DEF Store!Next
  <2>3. CASE UNCHANGED <<disk, callVars, card, fast, initVars, cmd, step>>
    BY <2>1, <2>3, LooseSame, StutterStep DEF Stutter, callVars
  <2>4. CASE Refused(card)
    BY <1>1, <2>1, <2>4, RefusedFails DEF Store!Next
  <2> QED BY <1>8, <2>2, <2>3, <2>4 DEF PollBusy, Refused
<1>9. CASE Program
  <2>1. Loose = {<<card.at, card.word>>} /\ Loose' = {}
    BY <1>1, <1>9 DEF Program, Loose, Cards
  <2>2. \E w \in Loose : disk' = [disk EXCEPT ![w[1]] = w[2]]
    BY <1>9, <2>1 DEF Program
  <2>3. Store!Land
    BY <1>9, <2>1, <2>2 DEF Program, slotVars, Store!Land, callVars
  <2> QED BY <2>3 DEF Store!Next
<1>10. CASE Swap
  <2>1. /\ card'.doing = "nothing" /\ steady' = FALSE
        /\ call' = call /\ answer' = answer /\ buf' = buf
    BY <1>10 DEF Swap, FreshCards, callVars
  <2>2. Loose' = {}
    BY <2>1 DEF Loose
  <2>3. disk' = disk \/ \E w \in Loose : \E b \in {w[2], Garbled} : disk' = [disk EXCEPT ![w[1]] = b]
    <3>1. CASE card.doing = "program"
      <4>1. Loose = {<<card.at, card.word>>}
        BY <3>1 DEF Loose
      <4> QED BY <1>10, <4>1 DEF Swap
    <3>2. CASE card.doing # "program"
      BY <1>10, <3>2 DEF Swap
    <3> QED BY <3>1, <3>2
  <2>4. Store!Disturb
    BY <2>1, <2>2, <2>3 DEF Store!Disturb
  <2> QED BY <2>4 DEF Store!Next
<1>11. CASE UNCHANGED vars
  BY <1>11, LooseSame, StutterStep DEF vars, callVars, slotVars, Stutter
<1>12. CASE FindToken
  <2>1. Stutter
    BY <1>12, LooseSame DEF FindToken, Stutter, callVars, slotVars
  <2> QED BY <2>1, StutterStep
<1> QED BY <1>2, <1>3, <1>4, <1>5, <1>6, <1>7, <1>8, <1>9, <1>10, <1>11, <1>12 DEF Next, Driver

\* Refinement: the driver (sd.c) is a store of blocks over any card.  A read that succeeds
\* returns the block asked for, a write that succeeds has changed that block and no other,
\* one that failed may land later.  A card exchanged or reset at any step of a call, between
\* the token and the last byte of a block or while it programs too, leaves in doubt what that
\* one call read or wrote, and nothing else.
THEOREM DriverIsStore == Spec => Refinement
<1>1. Init => Store!Init
  <2> SUFFICES ASSUME Init PROVE Store!Init
    OBVIOUS
  <2>1. (CHOOSE b \in Blocks : TRUE) \in Blocks
    BY CardAssumption
  <2>2. card.doing = "nothing"
    BY DEF Init, FreshCards
  <2>3. Loose = {}
    BY <2>2 DEF Loose
  <2>4. buf \in Blocks
    BY <2>1, Zenon DEF Init
  <2> QED BY <2>3, <2>4 DEF Init, Store!Init, NoCall, Store!NoCall
<1> QED BY <1>1, InvCorrect, StepRefines, PTL DEF Spec, Refinement, Store!Spec
=============================================================================
