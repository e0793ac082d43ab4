------------------------------- MODULE SdCard -------------------------------
(***************************************************************************)
(* An SD card on the SPI bus, external to the code: what it does with each *)
(* command that sd.c sends, and the bytes that it answers with.  A byte is *)
(* one of the few values that the driver tells apart:                      *)
(*   "none"  0xFF      "ok"    0x00, an R1 without errors, or busy         *)
(*   "idle"  R1 0x01   "error" an R1 or a data token with an error bit     *)
(*   "start" 0xFE      "accepted", "rejected"  data responses              *)
(* A version 1 card does not know CMD8; an HC card counts its addresses in *)
(* blocks and comes up only for a host that knows this (HCS).              *)
(***************************************************************************)
EXTENDS Naturals

CONSTANTS
    NumBlocks,      \* blocks on a card
    BLOCK,          \* bytes in a block (512)
    Blocks          \* the contents a block may have

Lbas == 0 .. NumBlocks - 1
Kinds == {"v1", "sc", "hc"}

ASSUME CardAssumption == NumBlocks \in Nat \ {0} /\ BLOCK \in Nat \ {0} /\ Blocks # {}

\* mode: how far initialization has come; doing: what it is about to send or
\* do; at, word: the block and the data of the transfer.
Cards == [kind : Kinds, mode : {"absent", "off", "idle", "ready"}, app : BOOLEAN,
          doing : {"nothing", "r1", "data", "take", "program"},
          r1 : {"none", "ok", "idle", "error"}, at : Lbas, word : Blocks]

\* A card just put in, or none.
FreshCards == [kind : Kinds, mode : {"absent", "off"}, app : {FALSE}, doing : {"nothing"},
               r1 : {"none"}, at : {0}, word : {CHOOSE b \in Blocks : TRUE}]

(***************************************************************************)
(* The block an address means to this card; none if it is out of range or  *)
(* not the address of a block.                                             *)
(***************************************************************************)
Meant(card, addr) ==
    {b \in Lbas : addr = IF card.kind = "hc" THEN b ELSE b * BLOCK}

(***************************************************************************)
(* What a card answers to a command, and the mode it is in afterwards.     *)
(***************************************************************************)
Answers(card, cmd, arg) ==
    CASE card.mode \in {"absent", "off"} /\ ~(card.mode = "off" /\ cmd = 0)
                     -> {[r1 |-> "none", mode |-> card.mode]}
      [] cmd = 0     -> {[r1 |-> "idle", mode |-> "idle"]}
      [] cmd = 8     -> {[r1 |-> IF card.kind = "v1" THEN "error"
                                 ELSE IF card.mode = "idle" THEN "idle" ELSE "ok",
                          mode |-> card.mode]}
      [] cmd = 41 /\ card.mode = "idle" /\ card.app
                     -> {[r1 |-> "idle", mode |-> "idle"]} \cup
                        {[r1 |-> "ok", mode |-> "ready"] : x \in {y \in {1} : card.kind = "hc" => arg = 1}}
      [] cmd \in {55, 58} -> {[r1 |-> IF card.mode = "idle" THEN "idle" ELSE "ok", mode |-> card.mode]}
      [] cmd \in {17, 24} -> {[r1 |-> "error", mode |-> card.mode]} \cup
                             {[r1 |-> "ok", mode |-> card.mode] :
                                x \in {b \in Meant(card, arg) : card.mode = "ready"}}
      [] OTHER       -> {[r1 |-> IF card.mode = "ready" THEN "ok" ELSE "error", mode |-> card.mode]}

\* The cards that this one may become when a command reaches it.  A card
\* that programs hears nothing.
Told(card, cmd, arg) ==
    IF card.doing = "program" THEN {card}
    ELSE {[card EXCEPT !.mode = a.mode, !.r1 = a.r1, !.app = (cmd = 55),
                       !.at = IF cmd \in {17, 24} /\ a.r1 = "ok"
                              THEN CHOOSE b \in Meant(card, arg) : TRUE ELSE @,
                       !.doing = "r1"] : a \in Answers(card, cmd, arg)}

\* After its R1, a card that takes a read or a write goes on with the data.
Answered(card, cmd) ==
    [card EXCEPT !.doing = CASE card.r1 = "ok" /\ cmd = 17 -> "data"
                             [] card.r1 = "ok" /\ cmd = 24 -> "take"
                             [] OTHER -> "nothing",
                 !.r1 = "none"]

\* A card that is deselected gives up what it was sending.
Deselected(card) ==
    IF card.doing = "program" THEN card ELSE [card EXCEPT !.doing = "nothing", !.r1 = "none"]
=============================================================================
