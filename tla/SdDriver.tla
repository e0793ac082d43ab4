------------------------------ MODULE SdDriver ------------------------------
(***************************************************************************)
(* The SD driver of stage2 (sw/stage2_loader/sd.c): sd_init, sd_read_block *)
(* and sd_write_block, one action per command frame, per byte polled and   *)
(* per data block; a block read is its token and, in a step of its own,    *)
(* its bytes.  step is what the driver does next and cmd the command it is *)
(* at.  The callers start with sd_init and go on only while their calls    *)
(* succeed, as every one in sd.c and main.c does.                          *)
(*                                                                         *)
(* The card may be pulled out, reset or exchanged at any step.  The driver *)
(* does not notice it while a block is on its way: it takes the silence of *)
(* an empty slot for the bytes of a block, and for the end of busy.  The   *)
(* loops inside spi_xchg wait for the core's own SPI unit and end.         *)
(***************************************************************************)
EXTENDS SdCard

CONSTANTS
    W,              \* an address counts modulo W (2^32)
    RESP_LIMIT,     \* polls for an R1 (16)
    TOKEN_LIMIT,    \* polls for a data token (65536)
    BUSY_LIMIT,     \* polls for the end of busy (65536)
    INIT_TRIES,     \* rounds of ACMD41 (2000)
    SWAPS,          \* how often the card is exchanged
    Garbled         \* a block that was not read, or not programmed, in full

ASSUME DriverAssumption ==
    /\ {W, RESP_LIMIT, TOKEN_LIMIT, BUSY_LIMIT, INIT_TRIES} \subseteq Nat \ {0}
    /\ SWAPS \in Nat /\ NumBlocks * BLOCK <= W
    /\ Garbled \notin Blocks

VARIABLES
    disk, call, answer, buf,            \* as in BlockDevice
    card, fast,                         \* the card, the SPI clock
    sd_is_hc, v2_card, tries,
    cmd, step, polls,
    swaps,
    steady                              \* history: no exchange since the call began

callVars == <<call, answer, buf>>
initVars == <<sd_is_hc, v2_card, tries>>
slotVars == <<swaps, steady>>
vars == <<disk, callVars, card, fast, initVars, cmd, step, polls, slotVars>>

NoCall == [op |-> "none"]
Calls == [op : {"init"}] \cup [op : {"read"}, lba : Lbas]
                         \cup [op : {"write"}, lba : Lbas, data : Blocks]
Loose == IF card.doing = "program" THEN {<<card.at, card.word>>} ELSE {}
-----------------------------------------------------------------------------
\* spi_cs_release, each time the code calls it.
Release(c) == card' = Deselected(c)

\* How a call ends.
Return(a) ==
    /\ call' = NoCall /\ answer' = a
    /\ step' = "none" /\ cmd' = 0 /\ polls' = 0
    /\ UNCHANGED disk

GiveUp == Return("fail") /\ UNCHANGED <<buf, fast, initVars>>

\* The next command of sd_init.
Command(n) ==
    /\ cmd' = n /\ step' = "send" /\ polls' = 0
    /\ UNCHANGED <<disk, callVars, fast>>

\* Slips: the polls are not counted; there is one too many.
PollForEver(limit) == polls' = polls /\ polls < limit
PollLate(limit) == polls' = polls + 1 /\ polls < limit

Poll(limit) == polls' = polls + 1 /\ polls + 1 < limit
-----------------------------------------------------------------------------
\* Slip: the card type of the last card is kept.
StartInitStale == UNCHANGED sd_is_hc /\ fast' = FALSE /\ cmd' = 0 /\ Release(card)

StartInit == sd_is_hc' = FALSE /\ fast' = FALSE /\ cmd' = 0 /\ Release(card)
Address(lba) == IF sd_is_hc THEN lba ELSE (lba * BLOCK) % W

Begin(c) ==
    /\ step = "none" /\ (c.op = "init" \/ answer = "ok")
    /\ call' = c /\ answer' = "none"
    /\ step' = "send" /\ polls' = 0
    /\ steady' = TRUE
    /\ CASE c.op = "init"  -> StartInit
         [] c.op = "read"  -> cmd' = 17 /\ UNCHANGED <<sd_is_hc, fast, card>>
         [] c.op = "write" -> cmd' = 24 /\ UNCHANGED <<sd_is_hc, fast, card>>
    /\ UNCHANGED <<disk, buf, v2_card, tries, swaps>>

(***************************************************************************)
(* sd_cmd: the frame, then up to RESP_LIMIT bytes until one is an R1.      *)
(***************************************************************************)
Argument == CASE cmd = 41 -> IF v2_card THEN 1 ELSE 0
              [] cmd \in {17, 24} -> Address(call.lba)
              [] OTHER -> 0

Send ==
    /\ step = "send"
    /\ step' = "r1" /\ polls' = 0
    /\ card' \in Told(card, cmd, Argument)
    /\ UNCHANGED <<disk, callVars, fast, initVars, cmd, slotVars>>

(***************************************************************************)
(* What each R1 leads to.  sd_init releases the card after each command    *)
(* but CMD55, before it looks at the R1.                                   *)
(***************************************************************************)
AfterReset(r1, c) ==                                    \* CMD0
    /\ Release(c)
    /\ \/ r1 = "idle" /\ Command(8) /\ UNCHANGED initVars
       \/ r1 # "idle" /\ GiveUp

AfterCondition(r1, c) ==                                \* CMD8
    /\ Release(c)
    /\ v2_card' = (r1 = "idle") /\ tries' = 0
    /\ Command(55) /\ UNCHANGED sd_is_hc

AfterApp(r1, c) ==                                      \* CMD55: CMD41 follows at once
    card' = c /\ Command(41) /\ UNCHANGED initVars

AfterStart(r1, c) ==                                    \* CMD41
    /\ Release(c)
    /\ \/ r1 = "ok" /\ Command(IF v2_card THEN 58 ELSE 16) /\ UNCHANGED initVars
       \/ /\ r1 = "idle" /\ tries + 1 < INIT_TRIES
          /\ tries' = tries + 1
          /\ Command(55) /\ UNCHANGED <<sd_is_hc, v2_card>>
       \/ /\ r1 = "idle" => tries + 1 >= INIT_TRIES
          /\ r1 # "ok" /\ GiveUp

Ready == Return("ok") /\ fast' = TRUE /\ UNCHANGED buf

AfterOcr(r1, c) ==                                      \* CMD58
    LET ccs == r1 = "ok" /\ card.kind = "hc"
    IN  /\ Release(c)
        /\ sd_is_hc' = ccs /\ UNCHANGED <<v2_card, tries>>
        /\ IF ccs THEN Ready ELSE Command(16)

AfterLength(r1, c) ==                                   \* CMD16
    /\ Release(c)
    /\ \/ r1 = "ok" /\ Ready /\ UNCHANGED initVars
       \/ r1 # "ok" /\ GiveUp

AfterTransfer(r1, c) ==                                 \* CMD17, CMD24
    \/ /\ r1 = "ok"
       /\ step' = (IF cmd = 17 THEN "token" ELSE "data") /\ polls' = 0 /\ card' = c
       /\ UNCHANGED <<disk, callVars, fast, initVars, cmd>>
    \/ r1 # "ok" /\ Release(c) /\ GiveUp

After(r1, c) ==
    CASE cmd = 0  -> AfterReset(r1, c)
      [] cmd = 8  -> AfterCondition(r1, c)
      [] cmd = 55 -> AfterApp(r1, c)
      [] cmd = 41 -> AfterStart(r1, c)
      [] cmd = 58 -> AfterOcr(r1, c)
      [] cmd = 16 -> AfterLength(r1, c)
      [] OTHER    -> AfterTransfer(r1, c)

\* An R1 comes within RESP_LIMIT bytes or not at all; a card that programs
\* holds the line low, which reads as an R1 of 0x00.
PollR1 ==
    /\ step = "r1"
    /\ \/ card.doing = "program" /\ After("ok", card)
       \/ card.doing = "r1" /\ card.r1 # "none" /\ After(card.r1, Answered(card, cmd))
       \/ /\ card.doing # "program" /\ Poll(RESP_LIMIT)
          /\ UNCHANGED <<disk, callVars, card, fast, initVars, cmd, step>>
       \/ /\ (card.doing = "r1" => card.r1 = "none") /\ card.doing # "program"
          /\ polls + 1 >= RESP_LIMIT /\ After("none", card)
    /\ UNCHANGED slotVars
-----------------------------------------------------------------------------
(***************************************************************************)
(* sd_read_block after its R1: the wait for the token, then 512 bytes, as  *)
(* they come, and a CRC, which is discarded.  A card that has gone in      *)
(* between leaves 0xFF in the place of the bytes still to come.            *)
(***************************************************************************)
FindToken ==
    /\ step = "token" /\ card.doing = "data"
    /\ step' = "bytes" /\ polls' = 0
    /\ UNCHANGED <<disk, callVars, card, fast, initVars, cmd, slotVars>>

ReadBlock ==
    /\ step = "bytes"
    /\ buf' = IF card.doing = "data" THEN disk[card.at] ELSE Garbled
    /\ Release(card) /\ Return("ok")
    /\ UNCHANGED <<fast, initVars, slotVars>>

\* Any other byte is polled over, an error token too.
PollToken ==
    /\ step = "token"
    /\ \/ /\ Poll(TOKEN_LIMIT)
          /\ card' \in {card, [card EXCEPT !.doing = "nothing"]}
          /\ UNCHANGED <<disk, callVars, fast, initVars, cmd, step>>
       \/ polls + 1 >= TOKEN_LIMIT /\ Release(card) /\ GiveUp
    /\ UNCHANGED slotVars

(***************************************************************************)
(* sd_write_block after its R1: the block, the card's data response, and   *)
(* the wait until the card is no longer busy.                              *)
(***************************************************************************)
WriteBlock ==
    /\ step = "data"
    /\ \/ /\ card.doing = "take"
          /\ card' = [card EXCEPT !.doing = "program", !.word = call.data]
          /\ step' = "busy" /\ polls' = 0
          /\ UNCHANGED <<disk, callVars, fast, initVars, cmd>>
       \/ Release([card EXCEPT !.doing = "nothing"]) /\ GiveUp     \* rejected, or no answer
    /\ UNCHANGED slotVars

PollBusy ==
    /\ step = "busy"
    /\ \/ /\ card.doing # "program"
          /\ Release(card) /\ Return("ok") /\ UNCHANGED <<buf, fast, initVars>>
       \/ /\ card.doing = "program" /\ Poll(BUSY_LIMIT)
          /\ UNCHANGED <<disk, callVars, card, fast, initVars, cmd, step>>
       \/ card.doing = "program" /\ polls + 1 >= BUSY_LIMIT /\ Release(card) /\ GiveUp
    /\ UNCHANGED slotVars
-----------------------------------------------------------------------------
(***************************************************************************)
(* The card by itself: it ends its programming, whatever the driver does;  *)
(* and it is exchanged for a copy, of another kind perhaps, or loses its   *)
(* power and comes back or not.  A block that was being programmed then is *)
(* the old one, the new one, or neither.                                   *)
(***************************************************************************)
Program ==
    /\ card.doing = "program"
    /\ disk' = [disk EXCEPT ![card.at] = card.word]
    /\ card' = [card EXCEPT !.doing = "nothing"]
    /\ UNCHANGED <<callVars, fast, initVars, cmd, step, polls, slotVars>>

Swap ==
    /\ swaps < SWAPS
    /\ card' \in FreshCards
    /\ swaps' = swaps + 1 /\ steady' = FALSE
    /\ \/ UNCHANGED disk
       \/ /\ card.doing = "program"
          /\ \E b \in {card.word, Garbled} : disk' = [disk EXCEPT ![card.at] = b]
    /\ UNCHANGED <<callVars, fast, initVars, cmd, step, polls>>

Driver == Send \/ PollR1 \/ FindToken \/ PollToken \/ ReadBlock \/ WriteBlock \/ PollBusy

Init ==
    /\ disk \in [Lbas -> Blocks] /\ card \in FreshCards
    /\ call = NoCall /\ answer = "fail" /\ buf = CHOOSE b \in Blocks : TRUE
    /\ fast = FALSE /\ sd_is_hc = FALSE /\ v2_card = FALSE /\ tries = 0
    /\ cmd = 0 /\ step = "none" /\ polls = 0 /\ swaps = 0 /\ steady = TRUE

Next == (\E c \in Calls : Begin(c)) \/ Driver \/ Program \/ Swap

\* The core runs the driver's loops; the card owes nothing.
Spec == Init /\ [][Next]_vars /\ WF_vars(Driver)
-----------------------------------------------------------------------------
(***************************************************************************)
(* Every variable of sd.c keeps to its range, and a wait for an R1 has     *)
(* polls left.                                                             *)
(***************************************************************************)
TypeOK ==
    /\ disk \in [Lbas -> Blocks \cup {Garbled}] /\ buf \in Blocks \cup {Garbled}
    /\ call \in Calls \cup {NoCall} /\ answer \in {"none", "ok", "fail"}
    /\ card \in Cards
    /\ {fast, sd_is_hc, v2_card, steady} \subseteq BOOLEAN
    /\ tries \in 0 .. INIT_TRIES - 1 /\ swaps \in 0 .. SWAPS
    /\ cmd \in {0, 8, 55, 41, 58, 16, 17, 24}
    /\ step \in {"none", "send", "r1", "token", "bytes", "data", "busy"}
    /\ step = "r1" => polls < RESP_LIMIT

(***************************************************************************)
(* The driver is a store of blocks (BlockDevice): whichever kind of card   *)
(* is in, a read that succeeds returns the block that was asked for, a     *)
(* write that succeeds has changed that block and no other, and one that   *)
(* failed changes no other.  A card exchanged or reset before the call     *)
(* changes nothing of this; one exchanged during the call, at any step,    *)
(* makes it fail or leaves what it was about in doubt, and no other block. *)
(***************************************************************************)
Store == INSTANCE BlockDevice WITH loose <- Loose
Refinement == Store!Spec

(***************************************************************************)
(* A call returns, with whatever the card does or fails to do in between:  *)
(* every loop over its answers is bounded.                                 *)
(***************************************************************************)
CallReturns == call # NoCall ~> call = NoCall
=============================================================================
