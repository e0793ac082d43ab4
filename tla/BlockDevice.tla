---------------------------- MODULE BlockDevice ----------------------------
(***************************************************************************)
(* What the SD driver promises its callers: a store of blocks, one call at *)
(* a time.  A read that succeeds returns what the block holds; a write     *)
(* that succeeds has changed its block and no other.  A call may fail; a   *)
(* write that fails may have been taken all the same, and then lands when  *)
(* it likes, until a call to init succeeds.  This holds of calls during    *)
(* which the card stays: if it is exchanged or loses its power, the write  *)
(* under way may be lost, or its block garbled, and the call may succeed   *)
(* all the same, a read with a garbled block.                              *)
(***************************************************************************)
EXTENDS Naturals

CONSTANTS Lbas, Blocks, Garbled

NoCall == [op |-> "none"]
Calls == [op : {"init"}] \cup [op : {"read"}, lba : Lbas]
                         \cup [op : {"write"}, lba : Lbas, data : Blocks]

VARIABLES
    disk,       \* the blocks
    call,       \* the call under way
    answer,     \* of the last call: "ok", "fail", or "none" while a call runs
    buf,        \* what the last successful read returned
    loose,      \* the write that was taken and has not landed yet
    steady      \* the card has stayed since the call began

vars == <<disk, call, answer, buf, loose, steady>>
-----------------------------------------------------------------------------
Begin(c) ==
    /\ call = NoCall
    /\ c.op = "init" \/ answer = "ok"
    /\ call' = c /\ answer' = "none" /\ steady' = TRUE
    /\ UNCHANGED <<disk, buf, loose>>

Take ==
    /\ call.op = "write" /\ loose = {}
    /\ loose' = {<<call.lba, call.data>>}
    /\ UNCHANGED <<disk, call, answer, buf, steady>>

Land ==
    /\ \E w \in loose : disk' = [disk EXCEPT ![w[1]] = w[2]]
    /\ loose' = {}
    /\ UNCHANGED <<call, answer, buf, steady>>

Disturb ==
    /\ steady' = FALSE /\ loose' = {}
    /\ \/ UNCHANGED disk
       \/ \E w \in loose : \E b \in {w[2], Garbled} : disk' = [disk EXCEPT ![w[1]] = b]
    /\ UNCHANGED <<call, answer, buf>>

Succeed ==
    /\ call # NoCall /\ loose = {}
    /\ call.op = "write" /\ steady => disk[call.lba] = call.data
    /\ buf' \in CASE call.op # "read" -> {buf}
                  [] call.op = "read" /\ steady -> {disk[call.lba]}
                  [] OTHER -> {disk[call.lba], Garbled}
    /\ call' = NoCall /\ answer' = "ok"
    /\ UNCHANGED <<disk, loose, steady>>

Fail ==
    /\ call # NoCall
    /\ call' = NoCall /\ answer' = "fail"
    /\ UNCHANGED <<disk, buf, loose, steady>>

Init ==
    /\ disk \in [Lbas -> Blocks]
    /\ call = NoCall /\ answer = "fail" /\ buf \in Blocks /\ loose = {}
    /\ steady = TRUE

Next == (\E c \in Calls : Begin(c)) \/ Take \/ Land \/ Disturb \/ Succeed \/ Fail

Spec == Init /\ [][Next]_vars
=============================================================================
