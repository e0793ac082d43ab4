----------------------------- MODULE AtomicTpu -----------------------------
(***************************************************************************)
(* The accelerator as its firmware sees it: a matrix of weights, a vector  *)
(* x, accumulators and a LUT.  A request takes effect at one instant: a    *)
(* start adds the product of the matrix and the vector to the accumulators *)
(* and a load copies the LUT into the matrix, and the accelerator then is  *)
(* busy for some time.                                                     *)
(***************************************************************************)
EXTENDS TpuTypes

CONSTANTS Requests, PowerUpWords, None

VARIABLES weights, x, sums, done, busy, addr, lut,  \* the accelerator
          phase, req, reply                         \* the request under way

deviceVars == <<weights, x, sums, done, busy, addr, lut>>
vars == <<deviceVars, phase, req, reply>>

Init == /\ weights = NoWeights /\ sums = NoSums /\ done = FALSE /\ busy = "no"
        /\ addr = [row |-> 0, col |-> 0]
        /\ x \in PowerUpWords
        /\ \E w \in PowerUpWords : lut = [i \in LutIndex |-> w]
        /\ phase = "idle" /\ req \in Requests /\ reply = None
-----------------------------------------------------------------------------
Writes(reg) == req.we /\ req.reg = reg
Control(bit) == Writes("CTRL") /\ bit \in req.bits

Answer ==
    IF req.we THEN None
    ELSE CASE req.reg = "LUT"    -> [ZeroData EXCEPT !.word = lut[req.idx]]
           [] req.reg = "STATUS" -> [ZeroData EXCEPT !.done = done, !.busy = (busy = "load")]
           [] req.reg = "RES"    -> [ZeroData EXCEPT !.sum = sums[req.row]]
           [] OTHER              -> ZeroData

\* A write; only what it writes changes.
Effect ==
    /\ weights' = CASE Writes("W_DATA")  -> [weights EXCEPT ![<<addr.row, addr.col>>] = req.word[0]]
                    [] Writes("W_DATA4") -> [p \in Cell |-> IF p[1] = addr.row THEN req.word[p[2]]
                                                            ELSE weights[p]]
                    [] Control("load")   -> [p \in Cell |-> WeightIn(lut[EntryOf(p)])]
                    [] OTHER             -> weights
    /\ addr' = CASE Writes("W_ADDR")  -> [row |-> req.row, col |-> req.col]
                 [] Writes("W_DATA4") -> [addr EXCEPT !.row = (@ + 1) % N]
                 [] OTHER             -> addr
    /\ x' = IF Writes("X_IN") THEN req.word ELSE x
    /\ lut' = IF Writes("LUT") THEN [lut EXCEPT ![req.idx] = req.word] ELSE lut
    /\ LET kept == IF Control("clear") THEN NoSums ELSE sums
       IN  sums' = IF Control("start") THEN [r \in Index |-> Signed(kept[r] + Dot(weights, x, r))]
                   ELSE kept

Perform ==
    /\ phase = "asked"
    /\ phase' = "done"
    /\ reply' = Answer
    /\ Effect
    /\ done' = (done /\ ~Control("clear") /\ ~Control("start"))
    /\ busy' = CASE Control("start") -> "compute" [] Control("load") -> "load" [] OTHER -> busy
    /\ UNCHANGED req

\* The end of a computation or of a load.
EndWork ==
    /\ busy # "no"
    /\ busy' = "no"
    /\ done' = (done \/ busy = "compute")
    /\ UNCHANGED <<weights, x, sums, addr, lut>>

Ask ==
    /\ phase = "idle"
    /\ phase' = "asked" /\ req' \in Requests
    /\ UNCHANGED reply

Finish ==
    /\ phase = "done"
    /\ phase' = "idle" /\ reply' = None
    /\ UNCHANGED req

\* A read of a busy accelerator.
Look ==
    /\ phase = "asked" /\ ~req.we
    /\ phase' = "done"
    /\ reply' = Answer
    /\ UNCHANGED req

\* The bus and the accelerator's work are independent.
Bus == Ask \/ Finish \/ Look \/ UNCHANGED <<phase, req, reply>>
Work == EndWork \/ UNCHANGED deviceVars

Reset == /\ weights' = NoWeights /\ sums' = NoSums /\ done' = FALSE /\ busy' = "no"
         /\ addr' = [row |-> 0, col |-> 0]
         /\ phase' = "idle" /\ reply' = None
         /\ UNCHANGED <<x, lut, req>>

\* Nothing but reads is asked of a busy accelerator.
Next == (busy = "no" /\ Perform) \/ (Bus /\ Work) \/ Reset

Spec == Init /\ [][Next]_vars
==============================================================================
