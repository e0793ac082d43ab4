--------------------------- MODULE TpuClassifier ---------------------------
(***************************************************************************)
(* The `tpu` command of the Linux shell (cmd_tpu in                        *)
(* docs/analysis/linux_tpu/initramfs/init.c) driving the accelerator: the  *)
(* trust gate on the model file, sixteen weights one at a time, the input, *)
(* the start, the bounded poll and the argmax over the results.  It runs   *)
(* once at boot and again at the prompt, over whatever the last run left   *)
(* in the accelerator.                                                     *)
(***************************************************************************)
EXTENDS TpuBus

CONSTANTS
    Files,      \* contents of /tpu_model.bin: [whole, trusted, weights, x]
    PollLimit   \* STATUS reads before the poll gives up (2,000,000); a computation takes two

ASSUME ClassifierAssumption ==
    /\ Files \subseteq [whole : BOOLEAN, trusted : BOOLEAN, weights : [Cell -> Byte], x : Word]
    /\ PollLimit \in Nat \ {0, 1}

VARIABLES
    file,           \* the file as read by this run
    pc, i,          \* where cmd_tpu is, and its loop counter
    to,             \* polls left
    best, bestval,
    outcome         \* how the last run ended

programVars == <<file, pc, i, to, best, bestval, outcome>>
vars == <<busVars, programVars>>

Request0 == [we |-> FALSE, reg |-> "STATUS", bits |-> {}, row |-> 0, col |-> 0,
             word |-> ZeroWord, idx |-> 0]
Store(reg) == [Request0 EXCEPT !.we = TRUE, !.reg = reg]
Fetch(reg) == [Request0 EXCEPT !.reg = reg]
ByteWord(b) == [ZeroWord EXCEPT ![0] = b]

\* Row i of the results; the first read of RES0 is that of bestval.
Result(r) == [Fetch("RES") EXCEPT !.row = r]

\* The access each point of the program makes.
AccessAt ==
    CASE pc = "clear"  -> [Store("CTRL") EXCEPT !.bits = {"clear"}]
      [] pc = "w_addr" -> [Store("W_ADDR") EXCEPT !.row = i \div N, !.col = i % N]
      [] pc = "w_data" -> [Store("W_DATA") EXCEPT
                             !.word = ByteWord(file.weights[<<i \div N, i % N>>])]
      [] pc = "x_in"   -> [Store("X_IN") EXCEPT !.word = file.x]
      [] pc = "start"  -> [Store("CTRL") EXCEPT !.bits = {"start"}]
      [] pc = "poll"   -> Fetch("STATUS")
      [] pc = "best"   -> Result(0)
      [] pc = "res"    -> Result(i)
Accesses == {"clear", "w_addr", "w_data", "x_in", "start", "poll", "best", "res"}
-----------------------------------------------------------------------------
\* A run of the command: the file is read and its weights hashed; slip: the gate is open.
OpenUngated(f) ==
    /\ pc = "shell"
    /\ file' = f
    /\ IF f.whole THEN pc' = "clear" /\ UNCHANGED outcome
       ELSE pc' = "shell" /\ outcome' = "rejected"
    /\ i' = 0
    /\ UNCHANGED <<to, best, bestval>>

Open(f) ==
    /\ pc = "shell"
    /\ file' = f
    /\ IF f.whole /\ f.trusted THEN pc' = "clear" /\ UNCHANGED outcome
       ELSE pc' = "shell" /\ outcome' = "rejected"
    /\ i' = 0
    /\ UNCHANGED <<to, best, bestval>>

Step(from, next) == pc = from /\ pc' = next /\ UNCHANGED <<file, outcome>>

\* What the program does with an access once it is acknowledged.
Cleared == Step("clear", "w_addr") /\ UNCHANGED <<i, to, best, bestval>>
Addressed == Step("w_addr", "w_data") /\ UNCHANGED <<i, to, best, bestval>>
Weighted ==
    /\ Step("w_data", IF i = N * N - 1 THEN "x_in" ELSE "w_addr")
    /\ i' = i + 1
    /\ UNCHANGED <<to, best, bestval>>
Given == Step("x_in", "start") /\ UNCHANGED <<i, to, best, bestval>>
Started == Step("start", "poll") /\ to' = PollLimit /\ UNCHANGED <<i, best, bestval>>

Polled ==
    \/ /\ xbus_dat_r.done
       /\ Step("poll", "best") /\ UNCHANGED <<i, to, best, bestval>>
    \/ /\ ~xbus_dat_r.done /\ to > 1
       /\ Step("poll", "poll") /\ to' = to - 1 /\ UNCHANGED <<i, best, bestval>>
    \/ /\ ~xbus_dat_r.done /\ to = 1
       /\ pc = "poll" /\ pc' = "shell" /\ outcome' = "timeout" /\ to' = 0
       /\ UNCHANGED <<file, i, best, bestval>>

First ==
    /\ Step("best", "res")
    /\ best' = 0 /\ bestval' = xbus_dat_r.sum /\ i' = 0
    /\ UNCHANGED to

\* Slip: the last of equal scores wins.
ComparedLast ==
    /\ pc = "res" /\ UNCHANGED <<file, to>>
    /\ IF xbus_dat_r.sum >= bestval THEN best' = i /\ bestval' = xbus_dat_r.sum
       ELSE UNCHANGED <<best, bestval>>
    /\ IF i = N - 1 THEN pc' = "shell" /\ outcome' = "predicted" /\ UNCHANGED i
       ELSE i' = i + 1 /\ UNCHANGED <<pc, outcome>>

Compared ==
    /\ pc = "res" /\ UNCHANGED <<file, to>>
    /\ IF xbus_dat_r.sum > bestval THEN best' = i /\ bestval' = xbus_dat_r.sum
       ELSE UNCHANGED <<best, bestval>>
    /\ IF i = N - 1 THEN pc' = "shell" /\ outcome' = "predicted" /\ UNCHANGED i
       ELSE i' = i + 1 /\ UNCHANGED <<pc, outcome>>

Continue == \/ Cleared \/ Addressed \/ Weighted \/ Given \/ Started
            \/ Polled \/ First \/ Compared

Program ==
    \/ Idle /\ UNCHANGED programVars
    \/ Idle /\ \E f \in Files : Open(f)
    \/ pc \in Accesses /\ Ask(AccessAt) /\ UNCHANGED programVars
    \/ Await /\ UNCHANGED programVars
    \/ Finish /\ Continue

Tick == TpuClock /\ Program

ProgramInit ==
    /\ file \in Files /\ pc = "shell" /\ i = 0 /\ to = 0
    /\ best = 0 /\ bestval = 0 /\ outcome = "none"

Init == BusInit({Request0}) /\ ProgramInit

Reset == /\ BusReset
         /\ pc' = "shell" /\ i' = 0 /\ to' = 0 /\ best' = 0 /\ bestval' = 0
         /\ outcome' = "none"
         /\ UNCHANGED file

Next == Tick \/ Reset

(***************************************************************************)
(* The clock runs and a program with an access to make makes it.           *)
(***************************************************************************)
Access == Tick /\ ~xbus_cyc /\ xbus_cyc'

Spec == Init /\ [][Next]_vars /\ WF_vars(Tick) /\ WF_vars(Access)
-----------------------------------------------------------------------------
Score(r) == Signed(Dot(file.weights, file.x, r))
Winner == CHOOSE r \in Index : \A s \in Index : Score(s) <= Score(r) /\ (s < r => Score(s) < Score(r))

(***************************************************************************)
(* The class that the command prints is the first of the classes with the  *)
(* highest score of this file's weights and input, whatever earlier runs,  *)
(* rejected files or resets left in the accelerator (cmd_tpu's argmax).    *)
(***************************************************************************)
PredictionRight == outcome = "predicted" /\ pc = "shell" => best = Winner /\ bestval = Score(Winner)

(***************************************************************************)
(* No weight in the array comes from a file that the trust gate refused:   *)
(* each is zero, as the reset left it, or that cell's weight in a file     *)
(* that passed, through any sequence of accepted and refused runs          *)
(* (cmd_tpu returns before its first access to the accelerator).           *)
(***************************************************************************)
OnlyTrusted ==
    \A p \in Cell : w_reg[p] # 0 => \E f \in Files : f.whole /\ f.trusted /\ f.weights[p] = w_reg[p]

(***************************************************************************)
(* The poll is long enough: a computation never times out.                 *)
(***************************************************************************)
NoTimeout == outcome # "timeout"

(***************************************************************************)
(* Every run of the command gets back to the prompt.                       *)
(***************************************************************************)
Returns == pc # "shell" ~> pc = "shell"
==============================================================================
