---------------------------- MODULE AtomicMemory ----------------------------
(***************************************************************************)
(* What the SDRAM path promises its bus master: requests are served one at *)
(* a time, each takes effect at one instant between its request and its    *)
(* acknowledge, a write changes exactly the byte lanes it strobes and a    *)
(* read returns the word as the completed writes left it.  A request       *)
(* outside the SDRAM window is answered with zeros.                        *)
(***************************************************************************)
CONSTANTS Requests,     \* the requests a master may make
          Address,      \* the words of the memory
          Lane,         \* the byte lanes of a word
          PowerUpByte,  \* the contents of a lane before the first write; zero
          None          \* no answer on the bus

VARIABLES mem, phase, req, reply

vars == <<mem, phase, req, reply>>

Blank == [l \in Lane |-> PowerUpByte]

\* The contents after request q.
Apply(q) ==
    IF q.in_sdram
    THEN [mem EXCEPT ![q.addr] = [l \in Lane |-> IF l \in q.wstrb THEN q.wdata[l] ELSE @[l]]]
    ELSE mem

Answer(q) ==
    IF q.wstrb # {} THEN None ELSE IF q.in_sdram THEN mem[q.addr] ELSE Blank

Init == /\ mem = [a \in Address |-> Blank]
        /\ phase = "idle" /\ req \in Requests /\ reply = None

Ask == /\ phase = "idle"
       /\ phase' = "asked"
       /\ req' \in Requests
       /\ UNCHANGED <<mem, reply>>

Perform == /\ phase = "asked"
           /\ phase' = "done"
           /\ mem' = Apply(req)
           /\ reply' = Answer(req)
           /\ UNCHANGED req

Finish == /\ phase = "done"
          /\ phase' = "idle"
          /\ reply' = None
          /\ UNCHANGED <<mem, req>>

\* A reset drops the request under way and may leave the word it was writing torn.
Reset == /\ phase' = "idle"
         /\ reply' = None
         /\ \A a \in Address : mem'[a] # mem[a] => a = req.addr /\ req.wstrb # {} /\ phase # "idle"
         /\ UNCHANGED req

Next == Ask \/ Perform \/ Finish \/ Reset

Spec == Init /\ [][Next]_vars
==============================================================================
