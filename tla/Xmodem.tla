------------------------------- MODULE Xmodem -------------------------------
(***************************************************************************)
(* The serial loader of stage2 (sw/stage2_loader/main.c): xmodem_receive,  *)
(* one action per byte read or timeout, and the host's verdict on the      *)
(* checksum of what was received, as mode_uboot and                        *)
(* xmodem_receive_verified wait for it.  The text that the loader prints   *)
(* in between is left out: a sender skips it.                              *)
(*                                                                         *)
(* The host and the line are external.  The host is a plain XMODEM sender: *)
(* it sends a block at each NAK and the next one at each ACK, then EOT,    *)
(* reads its replies one at a time and may quit.  The line delays and      *)
(* loses bytes, within a budget.                                           *)
(***************************************************************************)
EXTENDS Integers, FiniteSets, Sequences, SequencesExt

CONSTANTS
    M,                          \* a byte counts modulo M (256)
    SOH, EOT, ACK, NAK, CAN,
    Payload,                    \* the blocks to send
    RETRY_MAX,
    Losses,                     \* how many bytes the line may lose
    Stalls                      \* how many timeouts may strike while bytes are on their way

Bytes == 0 .. M - 1

ASSUME XmodemAssumption ==
    /\ M \in Nat \ {0, 1}
    /\ {SOH, EOT, ACK, NAK, CAN} \subseteq Bytes
    /\ Cardinality({SOH, EOT, ACK, NAK, CAN}) = 5
    /\ Payload \in Seq(Seq(Bytes)) /\ Payload # <<>>
    /\ \A k \in DOMAIN Payload : Len(Payload[k]) = Len(Payload[1]) /\ Payload[k] # <<>>
    /\ {RETRY_MAX, Losses, Stalls} \subseteq Nat

BLOCK_SIZE == Len(Payload[1])
Timeout == -1

VARIABLES
    uboot,              \* the caller is mode_uboot, else xmodem_receive_verified
    at,                 \* what xmodem_receive reads next, or "verdict", or "end"
    bn, bnc, buf,       \* of the block being read
    blk_num, dest, retries,
    attempt,            \* the first or second xmodem_receive of mode_uboot
    outcome, heard,     \* how the load ended, and the verdict it went by
    host, cur,          \* what the host waits for, and its current block
    rx, tx,             \* bytes on their way to the loader and to the host
    losses, stalls,     \* spent budgets
    cut                 \* history: a block has reached the loader in pieces

blockVars == <<bn, bnc, buf>>
receiverVars == <<at, blockVars, blk_num, dest, retries, attempt, outcome, heard>>
hostVars == <<host, cur>>
faultVars == <<losses, stalls, cut>>
vars == <<uboot, receiverVars, hostVars, rx, tx, faultVars>>

Complement(n) == M - 1 - n
Checksum(data) ==
    LET sum[i \in 0 .. Len(data)] == IF i = 0 THEN 0 ELSE (sum[i - 1] + data[i]) % M
    IN  sum[Len(data)]
Frame(k) == <<SOH, k % M, Complement(k % M)>> \o Payload[k] \o <<Checksum(Payload[k])>>
-----------------------------------------------------------------------------
(***************************************************************************)
(* uart_getc_timeout: the next byte, or a timeout.  A timeout strikes when *)
(* nothing is coming, or, within the budget, before what is coming.  One   *)
(* inside a block cuts the block in two: nothing tells the rest of it from *)
(* the starts of blocks.                                                   *)
(***************************************************************************)
HostSilent == host \in {"done", "over", "gone"} \/ (host \in {"reply", "eot"} /\ tx = <<>>)
VerdictDue == host = "done" /\ at = "verdict"

InBlock == at \in {"bn", "bnc", "data", "csum"}

Receive(c) ==
    \/ /\ rx # <<>> /\ c = Head(rx) /\ rx' = Tail(rx)
       /\ UNCHANGED <<stalls, cut>>
    \/ /\ c = Timeout
       /\ IF rx = <<>> /\ HostSilent /\ ~VerdictDue THEN UNCHANGED stalls
          ELSE stalls < Stalls /\ stalls' = stalls + 1
       /\ cut' = (cut \/ InBlock)
       /\ UNCHANGED rx

Heard == {Timeout} \cup (IF rx = <<>> THEN {} ELSE {Head(rx)})

Put(replies) == tx' = tx \o replies
OneMore(n) == IF n > RETRY_MAX THEN n ELSE n + 1    \* only its excess over RETRY_MAX matters
Ended(o, c) == outcome' = o /\ heard' = c
GoOn == UNCHANGED <<outcome, heard>>

\* xmodem_receive starts, or starts again for the second try of mode_uboot.
Fresh == at' = "first" /\ blk_num' = 1 /\ dest' = <<>> /\ retries' = 0

\* The next block is awaited, with or without a NAK for the last one.
AwaitBlock(replies) == at' = "first" /\ Put(replies) /\ UNCHANGED blockVars

\* Slip: the loader just goes on waiting.
FirstTimeoutForever(c) ==
    /\ c = Timeout
    /\ UNCHANGED receiverVars /\ UNCHANGED tx

FirstTimeout(c) ==
    /\ c = Timeout
    /\ retries' = OneMore(retries)
    /\ IF retries >= RETRY_MAX
       THEN at' = "end" /\ Ended("failed", c) /\ Put(<<CAN, CAN>>) /\ UNCHANGED blockVars
       ELSE AwaitBlock(<<NAK>>) /\ GoOn
    /\ UNCHANGED <<blk_num, dest, attempt>>

FirstByte(c) ==
    /\ c # Timeout
    /\ CASE c = EOT /\ dest # <<>> -> at' = "verdict" /\ Put(<<ACK>>) /\ GoOn
         [] c = EOT /\ dest = <<>> -> at' = "end" /\ Put(<<ACK>>) /\ Ended("failed", c)
         [] c = CAN                -> at' = "end" /\ UNCHANGED tx /\ Ended("failed", c)
         [] c = SOH                -> at' = "bn" /\ UNCHANGED tx /\ GoOn
         [] OTHER                  -> UNCHANGED <<at, tx, outcome, heard>>
    /\ UNCHANGED <<blockVars, blk_num, dest, retries, attempt>>

First(c) == at = "first" /\ (FirstTimeout(c) \/ FirstByte(c))

\* Both number bytes are read before either is looked at.
Number(c) ==
    /\ at = "bn" /\ at' = "bnc" /\ bn' = c
    /\ UNCHANGED <<bnc, buf, tx, blk_num, dest, retries, attempt>> /\ GoOn

NumberAgain(c) ==
    /\ at = "bnc"
    /\ IF Timeout \in {bn, c} THEN AwaitBlock(<<NAK>>)
       ELSE at' = "data" /\ bnc' = c /\ buf' = <<>> /\ UNCHANGED <<bn, tx>>
    /\ UNCHANGED <<blk_num, dest, retries, attempt>> /\ GoOn

Data(c) ==
    /\ at = "data"
    /\ IF c = Timeout THEN AwaitBlock(<<NAK>>)
       ELSE /\ buf' = Append(buf, c)
            /\ at' = IF Len(buf) + 1 = BLOCK_SIZE THEN "csum" ELSE "data"
            /\ UNCHANGED <<bn, bnc, tx>>
    /\ UNCHANGED <<blk_num, dest, retries, attempt>> /\ GoOn

\* Slip: the number of the block is not checked.
GoodNumbered(c) == bnc = Complement(bn) /\ c = Checksum(buf)
Good(c) == bn = blk_num /\ bnc = Complement(blk_num) /\ c = Checksum(buf)

\* Slips: the number does not wrap; a bad block is acknowledged.
StoreUnwrapped ==
    /\ dest' = Append(dest, buf)
    /\ blk_num' = blk_num + 1
    /\ retries' = 0
    /\ AwaitBlock(<<ACK>>)

RefuseWithAck ==
    /\ retries' = OneMore(retries)
    /\ AwaitBlock(<<ACK>>)
    /\ UNCHANGED <<dest, blk_num>>

Store ==
    /\ dest' = Append(dest, buf)
    /\ blk_num' = (blk_num + 1) % M
    /\ retries' = 0
    /\ AwaitBlock(<<ACK>>)

Refuse ==
    /\ retries' = OneMore(retries)
    /\ AwaitBlock(<<NAK>>)
    /\ UNCHANGED <<dest, blk_num>>

Csum(c) ==
    /\ at = "csum"
    /\ \/ c = Timeout /\ AwaitBlock(<<NAK>>) /\ UNCHANGED <<dest, blk_num, retries>>
       \/ c # Timeout /\ Good(c) /\ Store
       \/ c # Timeout /\ ~Good(c) /\ Refuse
    /\ UNCHANGED attempt /\ GoOn

(***************************************************************************)
(* The verdict on the CRC that the loader printed.  A NAK refuses, and     *)
(* mode_uboot then tries once more; anything else accepts, silence too.    *)
(* The second time only an ACK will do.                                    *)
(***************************************************************************)
Verdict(c) ==
    /\ at = "verdict"
    /\ \/ /\ attempt = 1 /\ c # NAK
          /\ at' = "end" /\ Ended("accepted", c) /\ UNCHANGED <<tx, blk_num, dest, retries, attempt>>
       \/ /\ attempt = 1 /\ c = NAK /\ uboot
          /\ Fresh /\ Put(<<NAK>>) /\ attempt' = 2 /\ GoOn
       \/ /\ attempt = 1 /\ c = NAK /\ ~uboot
          /\ at' = "end" /\ Ended("failed", c) /\ UNCHANGED <<tx, blk_num, dest, retries, attempt>>
       \/ /\ attempt = 2
          /\ at' = "end" /\ Ended(IF c = ACK THEN "accepted" ELSE "failed", c)
          /\ UNCHANGED <<tx, blk_num, dest, retries, attempt>>
    /\ UNCHANGED blockVars

Loader ==
    /\ \E c \in Heard : /\ Receive(c)
                        /\ \/ First(c) \/ Number(c) \/ NumberAgain(c)
                           \/ Data(c) \/ Csum(c) \/ Verdict(c)
    /\ UNCHANGED <<uboot, hostVars, losses>>
-----------------------------------------------------------------------------
(***************************************************************************)
(* The host: it waits for a reply to its block, or to its EOT; then it     *)
(* sends its verdict on the printed CRC, and starts over if it refused an  *)
(* image that the loader will ask for again.                               *)
(***************************************************************************)
Send(bytes) == rx' = rx \o bytes

HostReply ==
    /\ host = "reply" /\ tx # <<>>
    /\ tx' = Tail(tx)
    /\ CASE Head(tx) = CAN -> host' = "gone" /\ UNCHANGED <<cur, rx>>
         [] Head(tx) = NAK -> Send(Frame(cur)) /\ UNCHANGED hostVars
         [] OTHER          -> IF cur = Len(Payload)
                              THEN host' = "eot" /\ Send(<<EOT>>) /\ UNCHANGED cur
                              ELSE cur' = cur + 1 /\ Send(Frame(cur + 1)) /\ UNCHANGED host

HostEot ==
    /\ host = "eot" /\ tx # <<>>
    /\ tx' = Tail(tx)
    /\ CASE Head(tx) = CAN -> host' = "gone" /\ UNCHANGED <<cur, rx>>
         [] Head(tx) = NAK -> Send(<<EOT>>) /\ UNCHANGED hostVars
         [] OTHER          -> host' = "done" /\ UNCHANGED <<cur, rx>>

\* Damage to the printed CRC counts as a loss: a good image is then refused.
HostVerdict ==
    /\ VerdictDue
    /\ \/ /\ dest = Payload
          /\ Send(<<ACK>>) /\ host' = "over" /\ UNCHANGED <<cur, losses>>
       \/ /\ IF dest # Payload THEN UNCHANGED losses
             ELSE losses < Losses /\ losses' = losses + 1
          /\ Send(<<NAK>>)
          /\ IF uboot /\ attempt = 1 THEN host' = "reply" /\ cur' = 1
             ELSE host' = "over" /\ UNCHANGED cur
    /\ UNCHANGED tx

HostQuit == host # "gone" /\ host' = "gone" /\ UNCHANGED <<cur, rx, tx>>

HostStep ==
    /\ \/ (HostReply \/ HostEot) /\ UNCHANGED losses
       \/ HostVerdict
    /\ UNCHANGED <<uboot, receiverVars, stalls, cut>>

Quit == HostQuit /\ UNCHANGED <<uboot, receiverVars, faultVars>>

LoseIn ==
    /\ losses < Losses /\ losses' = losses + 1
    /\ \E i \in DOMAIN rx : rx' = RemoveAt(rx, i)
    /\ cut' = TRUE
    /\ UNCHANGED <<uboot, receiverVars, hostVars, tx, stalls>>

LoseReply ==
    /\ losses < Losses /\ losses' = losses + 1
    /\ \E i \in DOMAIN tx : tx' = RemoveAt(tx, i)
    /\ UNCHANGED <<uboot, receiverVars, hostVars, rx, stalls, cut>>
-----------------------------------------------------------------------------
Init ==
    /\ uboot \in BOOLEAN
    /\ at = "first" /\ bn = 0 /\ bnc = 0 /\ buf = <<>>
    /\ blk_num = 1 /\ dest = <<>> /\ retries = 0
    /\ attempt = 1 /\ outcome = "none" /\ heard = Timeout
    /\ host = "reply" /\ cur = 1
    /\ rx = <<>> /\ tx = <<NAK>>
    /\ losses = 0 /\ stalls = 0 /\ cut = FALSE

Next == Loader \/ HostStep \/ Quit \/ LoseIn \/ LoseReply

\* Both ends run; nothing obliges the line to lose a byte, or the host to quit.
Spec == Init /\ [][Next]_vars /\ WF_vars(Loader) /\ WF_vars(HostStep)
-----------------------------------------------------------------------------
TypeOK ==
    /\ uboot \in BOOLEAN
    /\ at \in {"first", "bn", "bnc", "data", "csum", "verdict", "end"}
    /\ bn \in Bytes \cup {Timeout} /\ bnc \in Bytes
    /\ buf \in Seq(Bytes) /\ Len(buf) <= BLOCK_SIZE
    /\ blk_num \in Bytes /\ dest \in Seq(Seq(Bytes))
    /\ retries \in 0 .. RETRY_MAX + 1 /\ attempt \in 1 .. 2
    /\ outcome \in {"none", "accepted", "failed"} /\ heard \in Bytes \cup {Timeout}
    /\ host \in {"reply", "eot", "done", "over", "gone"} /\ cur \in DOMAIN Payload
    /\ rx \in Seq(Bytes) /\ tx \in Seq({ACK, NAK, CAN})
    /\ losses \in 0 .. Losses /\ stalls \in 0 .. Stalls /\ cut \in BOOLEAN

(***************************************************************************)
(* As long as no block has reached the loader in pieces, what is in memory *)
(* is the first blocks of the payload, each once and in order, through     *)
(* late blocks and verdicts, lost replies, repeated blocks, the second try *)
(* of mode_uboot and the wrap of the block number (xmodem_receive's checks *)
(* before the copy).  After a cut the code promises no such thing: it      *)
(* takes the rest of the block for the starts of others.                   *)
(***************************************************************************)
StoredInOrder == ~cut => IsPrefix(dest, Payload)

(***************************************************************************)
(* The host never moves past a block that is not in memory, as long as no  *)
(* block has reached the loader in pieces: until the transfer ends, each   *)
(* ACK it has read was sent for a block of its own (the ACK of a stored    *)
(* block, the NAK of a refused or repeated one).                           *)
(***************************************************************************)
AckedStored ==
    ~cut /\ outcome = "none" /\ at # "verdict" /\ host = "reply" => cur - 1 <= Len(dest)

(***************************************************************************)
(* The loader outlives its host: once the host is gone, whatever is left   *)
(* on the line, the load ends, by the retry limit if not before (the       *)
(* first-byte timeout is the only one that counts towards it).             *)
(***************************************************************************)
LoadEnds == host = "gone" ~> outcome # "none"

(***************************************************************************)
(* On a line that loses and delays nothing, and with a host that stays,    *)
(* the whole image is stored and accepted, past the wrap of the block      *)
(* number.                                                                 *)
(***************************************************************************)
Undisturbed == losses = 0 /\ stalls = 0 /\ host # "gone"
Delivered == <>(outcome = "accepted" /\ dest = Payload) \/ <>~Undisturbed

(***************************************************************************)
(* What the loader prints when it proceeds on no ACK, "no CRC response,    *)
(* proceeding anyway" (main.c:279, mode_uboot; the comment at 222 says the *)
(* same of xmodem_receive_verified): it had none.  An image accepted on a  *)
(* byte from the host is then the image that the host sent.                *)
(***************************************************************************)
AcceptedWhole == outcome = "accepted" /\ heard # Timeout => dest = Payload
==============================================================================
