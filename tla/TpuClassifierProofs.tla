------------------------- MODULE TpuClassifierProofs -------------------------
(***************************************************************************)
(* The tpu command of the Linux shell against the accelerator, for every   *)
(* size of the array, model file and poll limit: the class it prints is    *)
(* the first with the highest score, only weights of trusted files enter   *)
(* the array, and the poll never gives up.                                 *)
(***************************************************************************)
EXTENDS TpuClassifier, TpuBusProofs

-----------------------------------------------------------------------------
(***************************************************************************)
(* The inductive invariant.  Sent: the access has reached the accelerator. *)
(***************************************************************************)
Sent == Taken \/ Acked
CellAt == <<i \div N, i % N>>

\* The program and its request.  It starts nothing but a computation, and leaves the poll
\* only when the computation is over.
ProgInv ==
    /\ file \in Files /\ pc \in Accesses \cup {"shell"} /\ best \in Index
    /\ pc = "clear" => i = 0
    /\ pc \in {"w_addr", "w_data"} => i \in 0 .. N * N - 1
    /\ pc \in {"x_in", "start"} => i = N * N
    /\ pc = "res" => i \in Index
    /\ pc \in Accesses => file.whole /\ file.trusted
    /\ xbus_cyc => pc \in Accesses /\ xbus = AccessAt
    /\ ~bulk_active /\ ~lut_load_active
    /\ computing => pc = "poll" \/ (pc = "start" /\ Sent)
    /\ pc = "poll" => computing \/ done
    /\ pc = "start" /\ Sent => computing

\* What a clock without a new pulse leaves in an element.
Settled(p) == IF LoadsWeight(p) THEN sa_w.data ELSE w_reg[p]
Filled == IF pc = "w_data" /\ Sent THEN i + 1 ELSE i

\* What the program has put into the accelerator, and what that will make of it.
ModelInv ==
    /\ pc = "w_data" \/ (pc = "w_addr" /\ Sent) => w_addr = [row |-> i \div N, col |-> i % N]
    /\ pc \in {"w_addr", "w_data", "x_in", "start"} =>
          \A p \in Cell : EntryOf(p) < Filled => Settled(p) = file.weights[p]
    /\ pc = "start" \/ (pc = "x_in" /\ Sent) => x_in_reg = file.x
    /\ pc \in {"w_addr", "w_data", "x_in"} \/ (pc = "clear" /\ Sent) \/ (pc = "start" /\ ~Sent) =>
          \A r \in Index : Promised(r) = 0
    /\ pc \in {"poll", "best", "res"} \/ (pc = "start" /\ Sent) =>
          \A r \in Index : Promised(r) = Score(r)
    /\ pc = "poll" /\ Acked /\ xbus_dat_r.done => ~computing
    /\ pc = "best" /\ Acked => xbus_dat_r.sum = Score(0)
    /\ pc = "res" /\ Acked => xbus_dat_r.sum = Score(i)

\* The first of the best rows so far.
BestInv ==
    /\ pc = "res" => /\ bestval = Score(best)
                     /\ \A s \in Index : /\ s < i => Score(s) <= bestval
                                         /\ s < best => Score(s) < bestval
    /\ pc = "shell" /\ outcome = "predicted" =>
          /\ bestval = Score(best)
          /\ \A s \in Index : Score(s) <= bestval /\ (s < best => Score(s) < bestval)

\* A computation is over before the second STATUS read.
TimeInv ==
    /\ outcome # "timeout"
    /\ pc = "start" => (Taken => compute_cnt = 1) /\ (Acked => compute_cnt = 2)
    /\ pc = "poll" => to \in Nat /\ to <= PollLimit
    /\ pc = "poll" /\ to = PollLimit /\ computing => /\ Free => compute_cnt >= 3
                                                     /\ Asked => compute_cnt >= 4
                                                     /\ Selected => compute_cnt >= 5
                                                     /\ Taken => compute_cnt >= 6
                                                     /\ Acked => compute_cnt >= 7
    /\ pc = "poll" /\ to # PollLimit => /\ computing => /\ Free => compute_cnt >= 8
                                                        /\ Asked => compute_cnt >= 9
                                                        /\ ~Selected /\ ~Sent
                                        /\ Acked => xbus_dat_r.done

\* Where a weight may come from.
TrustedFor(p, v) == v # 0 => \E f \in Files : f.whole /\ f.trusted /\ f.weights[p] = v
TrustInv ==
    /\ \A p \in Cell : TrustedFor(p, w_reg[p])
    /\ sa_load_weight => TrustedFor(<<sa_w.row, sa_w.col>>, sa_w.data)

ClassInv == BusInv /\ DataInv /\ ProgInv /\ ModelInv /\ BestInv /\ TimeInv /\ TrustInv

-----------------------------------------------------------------------------
(***************************************************************************)
(* The accesses.                                                           *)
(***************************************************************************)
LEMMA FileType ==
    ASSUME NEW f \in Files
    PROVE  f.weights \in [Cell -> Byte] /\ f.x \in Word
           /\ \A p \in Cell : f.weights[p] \in Byte
BY ClassifierAssumption

\* Which request each point of the program makes.
LEMMA AccessIs ==
    ASSUME pc \in Accesses
    PROVE  /\ AccessAt.we <=> pc \in {"clear", "w_addr", "w_data", "x_in", "start"}
           /\ AccessAt.reg = CASE pc \in {"clear", "start"} -> "CTRL" [] pc = "w_addr" -> "W_ADDR"
                               [] pc = "w_data" -> "W_DATA" [] pc = "x_in" -> "X_IN"
                               [] pc = "poll" -> "STATUS" [] OTHER -> "RES"
           /\ AccessAt.bits = CASE pc = "clear" -> {"clear"} [] pc = "start" -> {"start"} [] OTHER -> {}
           /\ pc = "w_addr" => AccessAt.row = i \div N /\ AccessAt.col = i % N
           /\ pc = "w_data" => AccessAt.word[0] = file.weights[CellAt]
           /\ pc = "x_in" => AccessAt.word = file.x
           /\ pc = "best" => AccessAt.row = 0
           /\ pc = "res" => AccessAt.row = i
<1> USE DEF Request0, Store, Fetch, Result, CellAt
<1>1. CASE pc = "clear"
  BY <1>1 DEF AccessAt
<1>2. CASE pc = "w_addr"
  BY <1>2 DEF AccessAt
<1>3. CASE pc = "w_data"
  <2> DEFINE b == file.weights[<<i \div N, i % N>>]
  <2>1. ByteWord(b)[0] = b
    BY DEF ByteWord, ZeroWord
  <2>2. AccessAt = [Store("W_DATA") EXCEPT !.word = ByteWord(b)]
    BY <1>3 DEF AccessAt
  <2>3. /\ AccessAt.we = TRUE /\ AccessAt.reg = "W_DATA" /\ AccessAt.bits = {}
        /\ AccessAt.word = ByteWord(b)
    BY <2>2
  <2> QED BY <1>3, <2>1, <2>3
<1>4. CASE pc = "x_in"
  BY <1>4 DEF AccessAt
<1>5. CASE pc = "start"
  BY <1>5 DEF AccessAt
<1>6. CASE pc = "poll"
  BY <1>6 DEF AccessAt
<1>7. CASE pc = "best"
  BY <1>7 DEF AccessAt
<1>8. CASE pc = "res"
  BY <1>8 DEF AccessAt
<1> QED BY <1>1, <1>2, <1>3, <1>4, <1>5, <1>6, <1>7, <1>8 DEF Accesses

LEMMA AccessType ==
    ASSUME ProgInv, pc \in Accesses
    PROVE  AccessAt \in Request
<1> USE DEF Request0, Store, Fetch, Result
<1>1. Request0 \in Request
  BY Sizes DEF Request, Register, Word, ZeroWord, LutIndex
<1>2. pc \in {"w_addr", "w_data"} => i \div N \in Index /\ i % N \in Index
  BY EntryCell DEF ProgInv
<1>3. CASE pc \in {"clear", "start"}
  BY <1>1, <1>3 DEF AccessAt, Request, Register, CtrlBit
<1>4. CASE pc = "w_addr"
  BY <1>1, <1>2, <1>4 DEF AccessAt, Request, Register
<1>5. CASE pc = "w_data"
  <2>1. file.weights[<<i \div N, i % N>>] \in Byte
    BY <1>2, <1>5, Cells, FileType DEF ProgInv
  <2>2. ByteWord(file.weights[<<i \div N, i % N>>]) \in Word
    BY <2>1, Sizes DEF ByteWord, ZeroWord, Word
  <2> QED BY <1>1, <1>5, <2>2 DEF AccessAt, Request, Register
<1>6. CASE pc = "x_in"
  <2>1. file.x \in Word
    BY FileType DEF ProgInv
  <2> QED BY <1>1, <1>6, <2>1 DEF AccessAt, Request, Register
<1>7. CASE pc = "poll"
  BY <1>1, <1>7 DEF AccessAt, Request, Register
<1>8. CASE pc \in {"best", "res"}
  <2>1. pc = "res" => i \in Index
    BY DEF ProgInv
  <2> QED BY <1>1, <1>8, <2>1, Sizes DEF AccessAt, Request, Register
<1> QED BY <1>3, <1>4, <1>5, <1>6, <1>7, <1>8 DEF Accesses

\* The phases of the bus.
LEMMA Phases ==
    ASSUME BusInv
    PROVE  /\ Free <=> ~xbus_cyc
           /\ Acked <=> xbus_cyc /\ xbus_ack
           /\ pending <=> Selected \/ Taken
           /\ xbus_cyc <=> Asked \/ Selected \/ Taken \/ Acked
BY DEF BusInv, BusTypeOK, TpuTypeOK, Handshake, Free, Asked, Selected, Taken, Acked

LEMMA Disciplined ==
    ASSUME BusInv, ProgInv, Tick
    PROVE  TpuClock /\ Discipline /\ Cpu
<1>1. CASE pc \in Accesses /\ Ask(AccessAt)
  <2>1. AccessAt \in Request /\ xbus' = AccessAt /\ ~xbus_cyc
    BY <1>1, AccessType DEF Ask
  <2>2. OneOrder(AccessAt)
    BY <1>1, AccessIs DEF OneOrder
  <2>3. ~Sent
    BY <2>1 DEF Sent, Taken, Acked
  <2>4. computing => ~AccessAt.we
    BY <1>1, <2>3, AccessIs DEF ProgInv
  <2> QED BY <1>1, <2>1, <2>2, <2>4 DEF Tick, Discipline, Cpu, ProgInv
<1>2. CASE Idle \/ Await \/ Finish
  BY <1>2 DEF Tick, Discipline, Cpu, Idle, Await, Finish, xbusVars
<1> QED BY <1>1, <1>2 DEF Tick, Program
-----------------------------------------------------------------------------
(***************************************************************************)
(* One clock of the accelerator under this program.                        *)
(***************************************************************************)
\* What the request of the first clock is.
LEMMA SelectedIs ==
    ASSUME BusInv, ProgInv
    PROVE  /\ Selected \/ Sent => pc \in Accesses /\ xbus = AccessAt
           /\ Selected => (xbus.we <=> pc \in {"clear", "w_addr", "w_data", "x_in", "start"})
           /\ ~Nothing <=> Selected /\ pc \in {"clear", "w_addr", "w_data", "x_in", "start"}
BY AccessIs, Phases DEF ProgInv, Sent, Nothing

LEMMA ClockLoads ==
    ASSUME BusInv, DataInv, ProgInv, TpuClock
    PROVE  /\ ~bulk_active' /\ ~lut_load_active'
           /\ w_addr' = IF Selected /\ pc = "w_addr" THEN [row |-> i \div N, col |-> i % N] ELSE w_addr
           /\ x_in_reg' = IF Selected /\ pc = "x_in" THEN file.x ELSE x_in_reg
           /\ Selected /\ pc = "w_data" =>
                 /\ sa_load_weight'
                 /\ sa_w' = [row |-> w_addr.row, col |-> w_addr.col, data |-> file.weights[CellAt]]
           /\ ~(Selected /\ pc = "w_data") => (sa_load_weight' => sa_load_weight /\ sa_w' = sa_w)
<1>1. ~bulk_active /\ ~lut_load_active
  BY DEF ProgInv
<1>2. CASE Nothing
  BY <1>1, <1>2, NothingLoads, SelectedIs DEF DataInv
<1>3. CASE ~Nothing
  <2>1. Selected /\ pc \in {"clear", "w_addr", "w_data", "x_in", "start"} /\ xbus.we
        /\ xbus = AccessAt /\ pc \in Accesses
    BY <1>3, SelectedIs
  <2>2. /\ pc = "w_addr" => WriteAddr(pending, xbus) /\ xbus.row = i \div N /\ xbus.col = i % N
        /\ pc = "x_in" => WriteX(pending, xbus) /\ xbus.word = file.x
        /\ pc = "w_data" => WriteData(pending, xbus) /\ xbus.word[0] = file.weights[CellAt]
        /\ pc \in {"clear", "start"} => NoLoad(pending, xbus)
    BY <2>1, AccessIs, WritePerforms
  <2>3. CASE pc = "w_addr"
    BY <1>1, <2>1, <2>2, <2>3 DEF WriteAddr, EndPulse, bulkVars, loadVars
  <2>4. CASE pc = "x_in"
    BY <1>1, <2>1, <2>2, <2>4 DEF WriteX, EndPulse, bulkVars, loadVars
  <2>5. CASE pc = "w_data"
    BY <1>1, <2>1, <2>2, <2>5 DEF WriteData, Pulse, bulkVars, loadVars
  <2>6. CASE pc \in {"clear", "start"}
    BY <1>1, <2>1, <2>2, <2>6 DEF NoLoad, EndPulse, bulkVars, loadVars
  <2> QED BY <2>1, <2>3, <2>4, <2>5, <2>6
<1> QED BY <1>2, <1>3

LEMMA ClockSettles ==
    ASSUME BusInv, DataInv, ProgInv, TpuClock, NEW p \in Cell
    PROVE  /\ w_reg'[p] = Settled(p)
           /\ Settled(p)' = IF Selected /\ pc = "w_data" /\ p = <<w_addr.row, w_addr.col>>
                            THEN file.weights[CellAt] ELSE Settled(p)
<1>1. w_reg'[p] = Settled(p)
  BY DEF TpuClock, TpuStep, ArrayStep, Settled
<1>2. Settled(p)' = IF sa_load_weight' /\ p = <<sa_w'.row, sa_w'.col>> THEN sa_w'.data ELSE w_reg'[p]
  BY DEF Settled, LoadsWeight
<1>3. CASE Selected /\ pc = "w_data"
  BY <1>1, <1>2, <1>3, ClockLoads
<1>4. CASE ~(Selected /\ pc = "w_data")
  <2>1. sa_load_weight' => sa_load_weight /\ sa_w' = sa_w
    BY <1>4, ClockLoads
  <2> QED BY <1>1, <1>2, <1>4, <2>1 DEF Settled, LoadsWeight
<1> QED BY <1>1, <1>3, <1>4

LEMMA ClockSums ==
    ASSUME BusInv, DataInv, ProgInv, TpuClock
    PROVE  /\ ~(Selected /\ pc \in {"clear", "start"}) =>
                 /\ \A r \in Index : Promised(r)' = Promised(r)
                 /\ computing' => computing
                 /\ computing \/ done => computing' \/ done'
           /\ Selected /\ pc = "clear" => ~computing' /\ \A r \in Index : Promised(r)' = 0
           /\ Selected /\ pc = "start" => compute_cnt' = 1 /\ computing'
           /\ computing => compute_cnt' = IF compute_cnt = LastCount THEN 0 ELSE compute_cnt + 1
           /\ compute_cnt \in 0 .. LastCount /\ LastCount <= 9 /\ LastCount \in Nat
<1>t. compute_cnt \in 0 .. LastCount /\ LastCount <= 9 /\ LastCount \in Nat
  BY Sizes DEF BusInv, BusTypeOK, TpuTypeOK, LastCount
<1>0. computing => compute_cnt' = IF compute_cnt = LastCount THEN 0 ELSE compute_cnt + 1
  BY DEF TpuClock, TpuStep, ComputeStep, Counting
<1>1. CASE Nothing
  BY <1>t, <1>0, <1>1, NothingSums, SelectedIs DEF DataInv
<1>2. CASE ~Nothing
  <2>1. Selected /\ pc \in {"clear", "w_addr", "w_data", "x_in", "start"} /\ xbus.we
        /\ xbus = AccessAt /\ pc \in Accesses
    BY <1>2, SelectedIs
  <2>2. /\ ~computing /\ compute_cnt = 0
        /\ Control(pending, xbus, "start") <=> xbus.reg = "CTRL" /\ "start" \in xbus.bits
        /\ Control(pending, xbus, "clear") <=> xbus.reg = "CTRL" /\ "clear" \in xbus.bits
        /\ compute_cnt' = IF Starts(pending, xbus) THEN 1 ELSE 0
        /\ done' = (done /\ ~Starts(pending, xbus) /\ ~Clears(pending, xbus))
        /\ acc' = [r \in Index |-> IF Clears(pending, xbus) THEN 0 ELSE acc[r]]
    BY <2>1, AtRest DEF CtrlBit
  <2>3. (Starts(pending, xbus) <=> pc = "start") /\ (Clears(pending, xbus) <=> pc = "clear")
    <3>1. /\ xbus.reg = CASE pc \in {"clear", "start"} -> "CTRL" [] pc = "w_addr" -> "W_ADDR"
                          [] pc = "w_data" -> "W_DATA" [] pc = "x_in" -> "X_IN"
                          [] pc = "poll" -> "STATUS" [] OTHER -> "RES"
          /\ xbus.bits = CASE pc = "clear" -> {"clear"} [] pc = "start" -> {"start"} [] OTHER -> {}
      BY <2>1, AccessIs
    <3>2. CASE pc = "clear"
      BY <2>2, <3>1, <3>2 DEF Starts, Clears
    <3>3. CASE pc = "start"
      BY <2>2, <3>1, <3>3 DEF Starts, Clears
    <3>4. CASE pc \in {"w_addr", "w_data", "x_in"}
      BY <2>2, <3>1, <3>4 DEF Starts, Clears
    <3> QED BY <2>1, <3>2, <3>3, <3>4
  <2>4. CASE pc = "start"
    BY <1>t, <2>1, <2>2, <2>3, <2>4 DEF computing
  <2>5. CASE pc # "start"
    <3>1. compute_cnt' = 0 /\ \A r \in Index : Promised(r)' = acc'[r] /\ Promised(r) = acc[r]
      BY <2>2, <2>3, <2>5 DEF Promised, computing
    <3>2. ~computing' /\ (pc # "clear" => done' = done)
      BY <2>2, <2>3, <2>5, <3>1 DEF computing, BusInv, BusTypeOK, TpuTypeOK
    <3>3. \A r \in Index : (pc = "clear" => acc'[r] = 0) /\ (pc # "clear" => acc'[r] = acc[r])
      BY <2>2, <2>3
    <3> QED BY <1>t, <2>1, <2>2, <2>5, <3>1, <3>2, <3>3
  <2> QED BY <2>4, <2>5
<1> QED BY <1>1, <1>2

\* The start multiplies what the elements hold with the vector.
LEMMA ClockStarts ==
    ASSUME BusInv, DataInv, ProgInv, TpuClock, Selected, pc = "start", NEW r \in Index
    PROVE  \E m \in [Cell -> Byte] :
               /\ \A p \in Cell : m[p] = Settled(p)
               /\ Promised(r)' = Signed(Promised(r) + Dot(m, x_in_reg, r))
<1>1. xbus.we /\ xbus = AccessAt
  BY SelectedIs
<1>2. ~computing /\ compute_cnt = 0 /\ ~Clears(pending, xbus)
      /\ acc' = [s \in Index |-> IF Clears(pending, xbus) THEN 0 ELSE acc[s]]
  <2>1. AccessAt.reg = "CTRL" /\ AccessAt.bits = {"start"}
    BY AccessIs DEF Accesses
  <2> QED BY <1>1, <2>1, AtRest DEF CtrlBit, Clears
<1>3. compute_cnt' = 1 /\ x_in_reg' = x_in_reg
  BY ClockSums, ClockLoads
<1>4. w_reg' \in [Cell -> Byte]
  BY ArrayType DEF TpuClock, TpuStep, BusInv, BusTypeOK
<1>5. \A p \in Cell : w_reg'[p] = Settled(p)
  BY ClockSettles
<1>6. 1 <= N + 1 + r
  BY Sizes DEF Index
<1>7. Promised(r)' = Signed(acc'[r] + Dot(w_reg', x_in_reg', r))
  BY <1>3, <1>6 DEF Promised, computing, Signed, Dot, Partial
<1>8. acc'[r] = Promised(r)
  BY <1>2 DEF Promised
<1> QED BY <1>3, <1>4, <1>5, <1>7, <1>8
-----------------------------------------------------------------------------
(***************************************************************************)
(* One step of the program: it waits for the bus, opens a file, or goes on *)
(* from an acknowledged access.                                            *)
(***************************************************************************)
BusMoves ==
    \/ Free /\ (Free' \/ Asked')
    \/ Asked /\ Selected'
    \/ Selected /\ Taken'
    \/ Taken /\ Acked'

LEMMA PrimedApart ==
    /\ Free' => ~Asked' /\ ~Selected' /\ ~Taken' /\ ~Acked' /\ ~xbus_cyc'
    /\ Asked' => ~Selected' /\ ~Taken' /\ ~Acked'
    /\ Selected' => ~Taken' /\ ~Acked'
    /\ Taken' => ~Acked'
    /\ Sent' <=> Taken' \/ Acked'
BY DEF Free, Asked, Selected, Taken, Acked, Sent

LEMMA StepCases ==
    ASSUME BusInv, ProgInv, Tick
    PROVE  /\ TpuClock
           /\ \/ UNCHANGED programVars /\ BusMoves
              \/ Free /\ Free' /\ \E f \in Files : Open(f)
              \/ Acked /\ Free' /\ Continue
<1>1. TpuClock /\ Cpu /\ Program
  BY Disciplined DEF Tick
<1>2. /\ Free => Free' \/ Asked'
      /\ Asked => Selected'
      /\ Selected => Taken'
      /\ Taken => Acked'
      /\ Acked => Free'
  BY <1>1, HandshakeStep DEF BusInv
<1>3. Free \/ Asked \/ Selected \/ Taken \/ Acked
  BY DEF BusInv, Handshake
<1>4. CASE Idle
  <2>1. Free /\ ~xbus_cyc'
    BY <1>4, Phases DEF Idle, xbusVars
  <2>2. Free'
    BY <1>2, <2>1 DEF Asked
  <2>3. ~Finish /\ ~Await
    BY <1>4 DEF Idle, Finish, Await
  <2> QED BY <1>1, <2>1, <2>2, <2>3 DEF Program, BusMoves, Ask, Idle
<1>5. CASE Finish
  <2>1. Acked /\ ~Idle /\ ~Await /\ ~Ask(AccessAt)
    BY <1>5, Phases DEF Finish, Idle, Await, Ask
  <2> QED BY <1>1, <1>2, <2>1 DEF Program
<1>6. CASE UNCHANGED programVars /\ ~Finish
  <2>1. ~Acked
    BY <1>1, <1>6 DEF Program, Idle, Ask, Await, Acked
  <2> QED BY <1>1, <1>2, <1>3, <1>6, <2>1 DEF BusMoves
<1> QED BY <1>1, <1>4, <1>5, <1>6 DEF Program

LEMMA ScoreSame ==
    ASSUME file' = file
    PROVE  \A r : Score(r)' = Score(r)
BY DEF Score, Dot, Partial, Signed

LEMMA ScoreInt ==
    ASSUME NEW r \in Index, file \in Files
    PROVE  Score(r) \in Int /\ Dot(file.weights, file.x, r) \in Int
<1>1. Dot(file.weights, file.x, r) \in Int
  BY FileType, PartialStep, Sizes DEF Dot
<1> QED BY <1>1, SignedType DEF Score

\* The request on the bus is that of the next state's program.
LEMMA RequestKept ==
    ASSUME BusInv, ProgInv, Tick, UNCHANGED programVars, xbus_cyc'
    PROVE  pc' \in Accesses /\ xbus' = AccessAt'
<1>1. AccessAt' = AccessAt
  BY DEF AccessAt, programVars, Request0, Store, Fetch, Result, ByteWord, ZeroWord
<1>2. CASE xbus_cyc
  <2>1. xbus' = xbus
    BY <1>2, Disciplined, HandshakeStep DEF BusInv
  <2> QED BY <1>1, <1>2, <2>1 DEF ProgInv, programVars
<1>3. CASE ~xbus_cyc
  BY <1>1, <1>3 DEF Tick, Program, Idle, Ask, Await, Finish, xbusVars, programVars
<1> QED BY <1>2, <1>3

LEMMA ProgKept ==
    ASSUME BusInv, DataInv, ProgInv, ModelInv, TimeInv, Tick
    PROVE  ProgInv'
<1>1. TpuClock
  BY StepCases
<1>2. /\ ~bulk_active' /\ ~lut_load_active'
      /\ computing' => computing \/ (Selected /\ pc = "start")
      /\ ~(Selected /\ pc \in {"clear", "start"}) /\ (computing \/ done) => computing' \/ done'
  BY <1>1, ClockLoads, ClockSums
<1>3. CASE UNCHANGED programVars /\ BusMoves
  <2>1. xbus_cyc' => pc' \in Accesses /\ xbus' = AccessAt'
    BY <1>3, RequestKept
  <2>2. computing' => pc = "poll" \/ (pc = "start" /\ Sent')
    BY <1>2, <1>3, PhasesApart, PrimedApart DEF ProgInv, Sent, BusMoves
  <2>3. pc = "poll" => computing' \/ done'
    BY <1>2 DEF ProgInv
  <2>4. pc = "start" /\ Sent' => computing'
    <3>1. pc = "start" /\ Taken' => computing'
      BY <1>1, <1>3, ClockSums, PrimedApart DEF BusMoves
    <3>2. pc = "start" /\ Acked' => computing'
      <4> SUFFICES ASSUME pc = "start", Acked' PROVE computing'
        OBVIOUS
      <4>1. Taken
        BY <1>3, PrimedApart DEF BusMoves
      <4>2. compute_cnt = 1 /\ computing
        BY <4>1 DEF TimeInv, ProgInv, Sent
      <4>3. compute_cnt' = IF compute_cnt = LastCount THEN 0 ELSE compute_cnt + 1
        BY <1>1, <4>2, ClockSums
      <4>4. LastCount # 1
        BY Sizes DEF LastCount
      <4> QED BY <4>2, <4>3, <4>4 DEF computing
    <3> QED BY <3>1, <3>2, PrimedApart
  <2>5. pc' = pc /\ file' = file /\ i' = i /\ best' = best
    BY <1>3 DEF programVars
  <2> QED BY <1>2, <2>1, <2>2, <2>3, <2>4, <2>5 DEF ProgInv
<1>4. CASE Free /\ Free' /\ \E f \in Files : Open(f)
  <2> PICK f \in Files : Open(f)
    BY <1>4
  <2>1. pc = "shell" /\ file' = f /\ i' = 0 /\ best' = best
        /\ (pc' = "shell" \/ (pc' = "clear" /\ f.whole /\ f.trusted))
    BY DEF Open
  <2>2. ~computing /\ ~Selected
    BY <1>4, <2>1, PhasesApart DEF ProgInv
  <2>3. ~computing' /\ ~xbus_cyc' /\ ~Sent'
    BY <1>2, <1>4, <2>2, PrimedApart
  <2> QED BY <1>2, <2>1, <2>3 DEF ProgInv, Accesses
<1>5. CASE Acked /\ Free' /\ Continue
  <2>1. ~xbus_cyc' /\ ~Sent' /\ ~Selected /\ Sent
    BY <1>5, PrimedApart, PhasesApart DEF Sent
  <2>2. (computing' => computing) /\ (computing \/ done => computing' \/ done')
    BY <1>2, <2>1
  <2>3. CASE Cleared
    BY <1>2, <2>1, <2>2, <2>3, Sizes DEF Cleared, Step, ProgInv, Accesses
  <2>4. CASE Addressed
    BY <1>2, <2>1, <2>2, <2>4 DEF Addressed, Step, ProgInv, Accesses
  <2>5. CASE Weighted
    <3>1. i \in 0 .. N * N - 1 /\ i' = i + 1 /\ pc = "w_data" /\ file' = file /\ best' = best
          /\ pc' = IF i = N * N - 1 THEN "x_in" ELSE "w_addr"
      BY <2>5 DEF Weighted, Step, ProgInv
    <3>2. (pc' = "x_in" => i' = N * N) /\ (pc' = "w_addr" => i' \in 0 .. N * N - 1)
      BY <3>1, EntryCell, Sizes
    <3> QED BY <1>2, <2>1, <2>2, <3>1, <3>2 DEF ProgInv, Accesses
  <2>6. CASE Given
    BY <1>2, <2>1, <2>2, <2>6 DEF Given, Step, ProgInv, Accesses
  <2>7. CASE Started
    BY <1>2, <2>1, <2>2, <2>7 DEF Started, Step, ProgInv, Accesses
  <2>8. CASE Polled
    <3>1. pc = "poll" /\ Acked
      BY <1>5, <2>8 DEF Polled, Step
    <3>2. CASE xbus_dat_r.done
      <4>1. ~computing
        BY <3>1, <3>2 DEF ModelInv
      <4>2. pc' = "best" /\ file' = file /\ best' = best
        BY <2>8, <3>2 DEF Polled, Step
      <4> QED BY <1>2, <2>1, <2>2, <3>1, <4>1, <4>2 DEF ProgInv, Accesses
    <3>3. CASE ~xbus_dat_r.done
      <4>1. to = PollLimit /\ to # 1
        BY <3>1, <3>3, ClassifierAssumption DEF TimeInv
      <4>2. pc' = "poll" /\ file' = file /\ best' = best
        BY <2>8, <3>3, <4>1 DEF Polled, Step
      <4> QED BY <1>2, <2>1, <2>2, <3>1, <4>2 DEF ProgInv, Accesses
    <3> QED BY <3>2, <3>3
  <2>9. CASE First
    BY <1>2, <2>1, <2>2, <2>9, Sizes DEF First, Step, ProgInv, Accesses
  <2>10. CASE Compared
    <3>1. pc = "res" /\ i \in Index /\ ~computing /\ file' = file
      BY <2>10 DEF Compared, ProgInv
    <3>2. best' \in Index
      BY <2>10, <3>1 DEF Compared, ProgInv
    <3>3. pc' = "shell" \/ (pc' = "res" /\ i' \in Index)
      BY <2>10, <3>1, Sizes DEF Compared, Index
    <3> QED BY <1>2, <2>1, <2>2, <3>1, <3>2, <3>3 DEF ProgInv, Accesses
  <2> QED BY <1>5, <2>3, <2>4, <2>5, <2>6, <2>7, <2>8, <2>9, <2>10 DEF Continue
<1> QED BY <1>3, <1>4, <1>5, StepCases

\* The weights, the vector and the sums on a clock in which the program waits.
LEMMA ModelWaits ==
    ASSUME BusInv, DataInv, ProgInv, ModelInv, TpuClock, Cpu, UNCHANGED programVars, BusMoves
    PROVE  ModelInv'
<1>1. pc' = pc /\ i' = i /\ file' = file
  BY DEF programVars
<1>2. /\ Taken' => Selected /\ ~Sent
      /\ Acked' => Taken /\ Sent
      /\ Selected => Taken' /\ Sent'
      /\ Sent => Sent' /\ Acked' /\ ~Selected
      /\ Sent' => Selected \/ Sent
  BY PhasesApart, PrimedApart DEF BusMoves, Sent
<1>3. \A r : Score(r)' = Score(r)
  BY <1>1, ScoreSame
<1>4. CellAt' = CellAt
  BY <1>1 DEF CellAt
<1>5. pc' = "w_data" \/ (pc' = "w_addr" /\ Sent') => w_addr' = [row |-> i' \div N, col |-> i' % N]
  BY <1>1, <1>2, ClockLoads DEF ModelInv
<1>6. ASSUME pc \in {"w_addr", "w_data", "x_in", "start"}, NEW p \in Cell, EntryOf(p) < Filled'
      PROVE  Settled(p)' = file.weights[p]
  <2>1. Settled(p)' = IF Selected /\ pc = "w_data" /\ p = <<w_addr.row, w_addr.col>>
                      THEN file.weights[CellAt] ELSE Settled(p)
    BY ClockSettles
  <2>2. CASE Selected /\ pc = "w_data"
    <3>1. <<w_addr.row, w_addr.col>> = CellAt
      BY <2>2 DEF ModelInv, CellAt
    <3>2. Filled' = i + 1 /\ Filled = i
      BY <1>1, <1>2, <2>2, PhasesApart DEF Filled, Sent
    <3>3. i \in 0 .. N * N - 1 /\ EntryOf(p) \in 0 .. N * N - 1
      BY <2>2, CellEntry DEF ProgInv
    <3>4. p # CellAt => EntryOf(p) # i
      <4>1. EntryOf(p) = i => p[1] = i \div N /\ p[2] = i % N
        BY CellEntry
      <4>2. p = <<p[1], p[2]>>
        BY Cells
      <4> QED BY <4>1, <4>2 DEF CellAt
    <3>5. p # CellAt => EntryOf(p) < Filled
      BY <1>6, <3>2, <3>3, <3>4
    <3> QED BY <1>6, <2>1, <2>2, <3>1, <3>5 DEF ModelInv
  <2>3. CASE ~(Selected /\ pc = "w_data")
    <3>1. Filled' = Filled
      BY <1>1, <1>2, <2>3 DEF Filled
    <3> QED BY <1>6, <2>1, <2>3, <3>1 DEF ModelInv
  <2> QED BY <2>2, <2>3
<1>7. pc' = "start" \/ (pc' = "x_in" /\ Sent') => x_in_reg' = file'.x
  BY <1>1, <1>2, ClockLoads DEF ModelInv
<1>8. ~(Selected /\ pc \in {"clear", "start"}) => \A r \in Index : Promised(r)' = Promised(r)
  BY ClockSums
<1>9. ASSUME pc \in {"w_addr", "w_data", "x_in"} \/ (pc = "clear" /\ Sent') \/ (pc = "start" /\ ~Sent'),
             NEW r \in Index
      PROVE  Promised(r)' = 0
  <2>1. CASE pc = "clear" /\ Selected
    BY <2>1, ClockSums
  <2>2. CASE ~(pc = "clear" /\ Selected)
    <3>1. pc \in {"w_addr", "w_data", "x_in"} \/ (pc = "clear" /\ Sent) \/ (pc = "start" /\ ~Sent)
      BY <1>2, <1>9, <2>2
    <3>2. ~(Selected /\ pc \in {"clear", "start"})
      BY <1>2, <1>9, <2>2
    <3> QED BY <1>8, <3>1, <3>2 DEF ModelInv
  <2> QED BY <2>1, <2>2
<1>10. ASSUME pc \in {"poll", "best", "res"} \/ (pc = "start" /\ Sent'), NEW r \in Index
       PROVE  Promised(r)' = Score(r)
  <2>1. CASE pc = "start" /\ Selected
    <3>1. PICK m \in [Cell -> Byte] :
              /\ \A p \in Cell : m[p] = Settled(p)
              /\ Promised(r)' = Signed(Promised(r) + Dot(m, x_in_reg, r))
      BY <2>1, ClockStarts
    <3>2. Promised(r) = 0 /\ x_in_reg = file.x
      BY <1>2, <2>1, PhasesApart DEF ModelInv, Sent
    <3>3. m = file.weights
      <4>1. i = N * N /\ Filled = i
        BY <2>1 DEF ProgInv, Filled
      <4>2. \A p \in Cell : EntryOf(p) < Filled
        BY <4>1, CellEntry, Sizes
      <4>3. \A p \in Cell : m[p] = file.weights[p]
        BY <2>1, <3>1, <4>2 DEF ModelInv
      <4>4. file.weights \in [Cell -> Byte]
        BY FileType DEF ProgInv
      <4> QED BY <4>3, <4>4
    <3>4. 0 + Dot(file.weights, file.x, r) = Dot(file.weights, file.x, r)
      BY ScoreInt DEF ProgInv
    <3> QED BY <3>1, <3>2, <3>3, <3>4 DEF Score
  <2>2. CASE ~(pc = "start" /\ Selected)
    <3>1. pc \in {"poll", "best", "res"} \/ (pc = "start" /\ Sent)
      BY <1>2, <1>10, <2>2
    <3>2. ~(Selected /\ pc \in {"clear", "start"})
      BY <2>2, <3>1
    <3> QED BY <1>8, <3>1, <3>2 DEF ModelInv
  <2> QED BY <2>1, <2>2
<1>11. ASSUME Acked'
       PROVE  /\ pc = "poll" /\ xbus_dat_r'.done => ~computing'
              /\ pc = "best" => xbus_dat_r'.sum = Score(0)
              /\ pc = "res" => xbus_dat_r'.sum = Score(i)
  <2>1. Taken /\ xbus = AccessAt /\ pc \in Accesses
    BY <1>2, <1>11, SelectedIs
  <2>2. xbus_dat_r' = rdata(xbus)
    BY <2>1 DEF TpuClock, Bridge, Completed, Taken
  <2>3. pc = "poll" /\ xbus_dat_r'.done => ~computing'
    <3>1. pc = "poll" => rdata(xbus).done = done
      BY <2>1, AccessIs DEF rdata, ZeroData
    <3>2. computing => ~done
      BY DEF BusInv, QuietInv
    <3>3. pc = "poll" => (computing' => computing)
      BY ClockSums
    <3> QED BY <2>2, <3>1, <3>2, <3>3
  <2>4. ASSUME pc \in {"best", "res"}, xbus.row \in Index
        PROVE  xbus_dat_r'.sum = Score(xbus.row)
    <3>1. xbus.reg = "RES"
      BY <2>1, <2>4, AccessIs
    <3>2. xbus_dat_r'.sum = acc[xbus.row]
      BY <2>2, <3>1 DEF rdata, ZeroData
    <3>3. Promised(xbus.row) = acc[xbus.row]
      BY <2>4 DEF Promised, ProgInv
    <3> QED BY <2>4, <3>2, <3>3 DEF ModelInv
  <2>5. pc = "best" => xbus.row = 0 /\ 0 \in Index
    BY <2>1, AccessIs, Sizes
  <2>6. pc = "res" => xbus.row = i /\ i \in Index
    BY <2>1, AccessIs DEF ProgInv
  <2> QED BY <2>3, <2>4, <2>5, <2>6
<1>12. pc' = "poll" /\ Acked' /\ xbus_dat_r'.done => ~computing'
  BY <1>1, <1>11
<1>13. pc' = "best" /\ Acked' => xbus_dat_r'.sum = Score(0)'
  BY <1>1, <1>3, <1>11
<1>14. pc' = "res" /\ Acked' => xbus_dat_r'.sum = Score(i)'
  <2>1. Score(i)' = Score(i)
    BY <1>1 DEF Score, Dot, Partial, Signed
  <2> QED BY <1>1, <1>11, <2>1
<1>15. pc' \in {"w_addr", "w_data", "x_in", "start"} =>
           \A p \in Cell : EntryOf(p) < Filled' => Settled(p)' = file'.weights[p]
  BY <1>1, <1>6
<1>16. pc' \in {"w_addr", "w_data", "x_in"} \/ (pc' = "clear" /\ Sent') \/ (pc' = "start" /\ ~Sent') =>
           \A r \in Index : Promised(r)' = 0
  BY <1>1, <1>9
<1>17. pc' \in {"poll", "best", "res"} \/ (pc' = "start" /\ Sent') =>
           \A r \in Index : Promised(r)' = Score(r)'
  BY <1>1, <1>3, <1>10
<1> QED BY <1>5, <1>7, <1>12, <1>13, <1>14, <1>15, <1>16, <1>17 DEF ModelInv, EntryOf, Cell, Index

LEMMA ModelKept ==
    ASSUME BusInv, DataInv, ProgInv, ModelInv, TimeInv, Tick
    PROVE  ModelInv'
<1>1. TpuClock /\ Cpu
  BY Disciplined
<1>2. CASE UNCHANGED programVars /\ BusMoves
  BY <1>1, <1>2, ModelWaits
<1>3. CASE Free /\ Free' /\ \E f \in Files : Open(f)
  <2>1. pc' \in {"shell", "clear"} /\ ~Sent'
    BY <1>3, PrimedApart DEF Open
  <2> QED BY <2>1, PrimedApart DEF ModelInv
<1>4. CASE Acked /\ Free' /\ Continue
  <2>1. ~Selected /\ Sent /\ ~Sent' /\ ~Acked'
    BY <1>4, PrimedApart, PhasesApart DEF Sent
  <2>2. /\ w_addr' = w_addr /\ x_in_reg' = x_in_reg
        /\ \A r \in Index : Promised(r)' = Promised(r)
        /\ \A p \in Cell : Settled(p)' = Settled(p)
    BY <1>1, <2>1, ClockLoads, ClockSums, ClockSettles
  <2>3. Filled' = i'
    BY <2>1 DEF Filled
  <2>4. file' = file
    BY <1>4 DEF Continue, Cleared, Addressed, Weighted, Given, Started, Polled, First, Compared, Step
  <2>5. \A r : Score(r)' = Score(r)
    BY <2>4, ScoreSame
  <2> SUFFICES
        /\ pc' = "w_data" => w_addr = [row |-> i' \div N, col |-> i' % N]
        /\ pc' \in {"w_addr", "w_data", "x_in", "start"} =>
              \A p \in Cell : EntryOf(p) < i' => Settled(p) = file.weights[p]
        /\ pc' = "start" => x_in_reg = file.x
        /\ pc' \in {"w_addr", "w_data", "x_in", "start"} => \A r \in Index : Promised(r) = 0
        /\ pc' \in {"poll", "best", "res"} => \A r \in Index : Promised(r) = Score(r)
    BY <2>1, <2>2, <2>3, <2>4, <2>5 DEF ModelInv, EntryOf, Cell, Index
  <2>6. CASE Cleared
    <3>1. pc = "clear" /\ pc' = "w_addr" /\ i' = 0
      BY <2>6 DEF Cleared, Step, ProgInv
    <3>2. \A p \in Cell : ~(EntryOf(p) < 0)
      BY CellEntry, Sizes
    <3> QED BY <2>1, <3>1, <3>2 DEF ModelInv
  <2>7. CASE Addressed
    <3>1. pc = "w_addr" /\ pc' = "w_data" /\ i' = i /\ Filled = i
      BY <2>7 DEF Addressed, Step, Filled
    <3> QED BY <2>1, <3>1 DEF ModelInv
  <2>8. CASE Weighted
    <3>1. pc = "w_data" /\ pc' \in {"w_addr", "x_in"} /\ i' = i + 1 /\ Filled = i + 1
      BY <2>1, <2>8 DEF Weighted, Step, Filled
    <3> QED BY <3>1 DEF ModelInv
  <2>9. CASE Given
    <3>1. pc = "x_in" /\ pc' = "start" /\ i' = i /\ Filled = i
      BY <2>9 DEF Given, Step, Filled
    <3> QED BY <2>1, <3>1 DEF ModelInv
  <2>10. CASE Started
    <3>1. pc = "start" /\ pc' = "poll"
      BY <2>10 DEF Started, Step
    <3> QED BY <2>1, <3>1 DEF ModelInv
  <2>11. CASE Polled
    <3>1. pc = "poll" /\ pc' \in {"best", "poll", "shell"}
      BY <2>11 DEF Polled, Step
    <3> QED BY <3>1 DEF ModelInv
  <2>12. CASE First
    <3>1. pc = "best" /\ pc' = "res"
      BY <2>12 DEF First, Step
    <3> QED BY <3>1 DEF ModelInv
  <2>13. CASE Compared
    <3>1. pc = "res" /\ pc' \in {"res", "shell"}
      BY <2>13 DEF Compared
    <3> QED BY <3>1 DEF ModelInv
  <2> QED BY <1>4, <2>6, <2>7, <2>8, <2>9, <2>10, <2>11, <2>12, <2>13 DEF Continue
<1> QED BY <1>2, <1>3, <1>4, StepCases

LEMMA BestKept ==
    ASSUME BusInv, ProgInv, ModelInv, BestInv, Tick
    PROVE  BestInv'
<1>1. CASE UNCHANGED programVars
  <2>1. pc' = pc /\ i' = i /\ file' = file /\ best' = best /\ bestval' = bestval
        /\ outcome' = outcome
    BY <1>1 DEF programVars
  <2>2. \A r : Score(r)' = Score(r)
    BY <2>1, ScoreSame
  <2>3. Score(best)' = Score(best)
    BY <2>1 DEF Score, Dot, Partial, Signed
  <2> QED BY <2>1, <2>2, <2>3 DEF BestInv, Index
<1>2. CASE \E f \in Files : Open(f)
  BY <1>2 DEF Open, BestInv
<1>3. CASE Acked /\ Continue
  <2>1. CASE First
    <3>1. /\ pc' = "res" /\ best' = 0 /\ bestval' = Score(0) /\ i' = 0 /\ file' = file
      BY <1>3, <2>1 DEF First, Step, ModelInv
    <3>2. Score(best)' = Score(0)
      BY <3>1 DEF Score, Dot, Partial, Signed
    <3>3. \A s \in Index : ~(s < i') /\ ~(s < best')
      BY <3>1, Sizes DEF Index
    <3> QED BY <3>1, <3>2, <3>3 DEF BestInv, Index
  <2>2. CASE Compared
    <3>1. pc = "res" /\ file' = file /\ i \in Index /\ best \in Index /\ xbus_dat_r.sum = Score(i)
      BY <1>3, <2>2 DEF Compared, ProgInv, ModelInv
    <3>2. \A r : Score(r)' = Score(r)
      BY <3>1, ScoreSame
    <3>3. bestval = Score(best) /\ \A s \in Index : /\ s < i => Score(s) <= bestval
                                                    /\ s < best => Score(s) < bestval
      BY <3>1 DEF BestInv
    <3>4. \A s \in Index : Score(s) \in Int
      BY ScoreInt DEF ProgInv
    <3>5. \A s \in Index : s \in Int
      BY DEF Index
    <3>6. /\ bestval' = Score(best')
          /\ \A s \in Index : /\ s <= i => Score(s) <= bestval'
                              /\ s < best' => Score(s) < bestval'
      <4>1. CASE Score(i) > bestval
        <5>1. best' = i /\ bestval' = Score(i)
          BY <2>2, <3>1, <4>1 DEF Compared
        <5>2. \A s \in Index : /\ s < i => Score(s) < Score(i)
                               /\ s <= i => Score(s) <= Score(i)
          <6> SUFFICES ASSUME NEW s \in Index
                       PROVE  /\ s < i => Score(s) < Score(i)
                              /\ s <= i => Score(s) <= Score(i)
            OBVIOUS
          <6>1. s \in Int /\ i \in Int /\ Score(s) \in Int /\ Score(i) \in Int /\ bestval \in Int
            BY <3>1, <3>3, <3>4, <3>5
          <6>2. s < i => Score(s) < Score(i)
            BY <3>3, <4>1, <6>1
          <6>3. s <= i => s < i \/ s = i
            BY <6>1
          <6> QED BY <6>1, <6>2, <6>3
        <5> QED BY <5>1, <5>2
      <4>2. CASE ~(Score(i) > bestval)
        <5>1. best' = best /\ bestval' = bestval
          BY <2>2, <3>1, <4>2 DEF Compared
        <5>2. \A s \in Index : s <= i => Score(s) <= bestval
          <6> SUFFICES ASSUME NEW s \in Index, s <= i
                       PROVE  Score(s) <= bestval
            OBVIOUS
          <6>1. s \in Int /\ i \in Int /\ Score(s) \in Int /\ Score(i) \in Int /\ bestval \in Int
            BY <3>1, <3>3, <3>4, <3>5
          <6>2. s < i \/ s = i
            BY <6>1
          <6>3. Score(i) <= bestval
            BY <4>2, <6>1
          <6> QED BY <3>3, <6>2, <6>3
        <5> QED BY <3>3, <5>1, <5>2
      <4> QED BY <4>1, <4>2
    <3>7. Score(best)' = Score(best')
      BY <3>1 DEF Score, Dot, Partial, Signed
    <3>8. CASE i = N - 1
      <4>1. pc' = "shell" /\ \A s \in Index : s <= i
        BY <2>2, <3>8, Sizes DEF Compared, Index
      <4> QED BY <3>2, <3>6, <3>7, <4>1 DEF BestInv, Index
    <3>9. CASE i # N - 1
      <4>1. pc' = "res" /\ i' = i + 1
        BY <2>2, <3>1, <3>9 DEF Compared
      <4>2. \A s \in Index : s < i' => s <= i
        BY <3>1, <3>5, <4>1
      <4> QED BY <3>2, <3>6, <3>7, <4>1, <4>2 DEF BestInv, Index
    <3> QED BY <3>8, <3>9
  <2>3. CASE Cleared \/ Addressed \/ Weighted \/ Given \/ Started \/ Polled
    <3>1. pc' # "res" /\ (pc' = "shell" => outcome' = "timeout")
      BY <2>3 DEF Cleared, Addressed, Weighted, Given, Started, Polled, Step
    <3> QED BY <3>1 DEF BestInv
  <2> QED BY <1>3, <2>1, <2>2, <2>3 DEF Continue
<1> QED BY <1>1, <1>2, <1>3, StepCases

LEMMA TimeKept ==
    ASSUME BusInv, DataInv, ProgInv, ModelInv, TimeInv, Tick
    PROVE  TimeInv'
<1>1. TpuClock
  BY StepCases
<1>2. /\ computing => compute_cnt' = IF compute_cnt = LastCount THEN 0 ELSE compute_cnt + 1
      /\ compute_cnt \in 0 .. LastCount /\ LastCount <= 9 /\ LastCount \in Nat
      /\ Selected /\ pc = "start" => compute_cnt' = 1
      /\ ~(Selected /\ pc = "start") => (computing' => computing)
  BY <1>1, ClockSums
<1>3. computing' <=> compute_cnt' # 0
  BY DEF computing
<1>4. computing' /\ computing => compute_cnt' = compute_cnt + 1 /\ compute_cnt < 9
  BY <1>2, <1>3
<1>5. CASE UNCHANGED programVars /\ BusMoves
  <2>1. pc' = pc /\ to' = to /\ outcome' = outcome
    BY <1>5 DEF programVars
  <2>2. /\ Free' => Free /\ ~Asked' /\ ~Selected' /\ ~Taken' /\ ~Acked'
        /\ Asked' => Free /\ ~Selected' /\ ~Taken' /\ ~Acked'
        /\ Selected' => Asked /\ ~Taken' /\ ~Acked'
        /\ Taken' => Selected /\ ~Acked'
        /\ Acked' => Taken
        /\ Sent' <=> Taken' \/ Acked'
    BY <1>5, PrimedApart DEF BusMoves
  <2>3. pc = "start" => (Taken' => compute_cnt' = 1) /\ (Acked' => compute_cnt' = 2)
    <3>1. pc = "start" /\ Taken' => compute_cnt' = 1
      BY <1>2, <2>2
    <3>2. pc = "start" /\ Acked' => compute_cnt = 1 /\ computing
      BY <2>2 DEF TimeInv, ProgInv, Sent
    <3>3. LastCount # 1
      BY Sizes DEF LastCount
    <3> QED BY <1>2, <3>1, <3>2, <3>3
  <2>4. pc = "poll" => (computing' => computing)
    BY <1>2
  <2>5. pc = "poll" /\ to = PollLimit /\ computing' =>
            /\ Free' => compute_cnt' >= 3
            /\ Asked' => compute_cnt' >= 4
            /\ Selected' => compute_cnt' >= 5
            /\ Taken' => compute_cnt' >= 6
            /\ Acked' => compute_cnt' >= 7
    BY <1>2, <1>4, <2>2, <2>4 DEF TimeInv
  <2>6. pc = "poll" /\ to # PollLimit /\ computing' =>
            /\ Free' => compute_cnt' >= 8
            /\ Asked' => compute_cnt' >= 9
            /\ ~Selected' /\ ~Sent'
    BY <1>2, <1>4, <2>2, <2>4 DEF TimeInv, Sent
  <2>7. pc = "poll" /\ to # PollLimit /\ Acked' => xbus_dat_r'.done
    <3> SUFFICES ASSUME pc = "poll", to # PollLimit, Acked'
                 PROVE  xbus_dat_r'.done
      OBVIOUS
    <3>1. Taken /\ xbus = AccessAt
      BY <2>2, SelectedIs DEF Sent
    <3>2. ~computing /\ done
      BY <3>1 DEF TimeInv, ProgInv, Sent
    <3>3. xbus.reg = "STATUS"
      BY <3>1, AccessIs DEF Accesses
    <3>4. xbus_dat_r' = rdata(xbus)
      BY <1>1, <3>1 DEF TpuClock, Bridge, Completed, Taken
    <3> QED BY <3>2, <3>3, <3>4 DEF rdata, ZeroData
  <2> QED BY <2>1, <2>3, <2>5, <2>6, <2>7 DEF TimeInv
<1>6. CASE Free /\ Free' /\ \E f \in Files : Open(f)
  <2>1. pc' \in {"shell", "clear"} /\ (outcome' = outcome \/ outcome' = "rejected")
    BY <1>6 DEF Open
  <2> QED BY <2>1 DEF TimeInv
<1>7. CASE Acked /\ Free' /\ Continue
  <2>1. /\ ~Asked' /\ ~Selected' /\ ~Taken' /\ ~Acked' /\ ~Sent' /\ Free'
        /\ (computing' => computing)
    BY <1>2, <1>7, PrimedApart, PhasesApart
  <2>2. CASE Started
    <3>1. pc = "start" /\ pc' = "poll" /\ to' = PollLimit /\ outcome' = outcome
      BY <2>2 DEF Started, Step
    <3>2. compute_cnt = 2
      BY <1>7, <3>1 DEF TimeInv
    <3>3. computing' => compute_cnt' >= 3
      BY <1>4, <2>1, <3>2
    <3> QED BY <2>1, <3>1, <3>3, ClassifierAssumption DEF TimeInv
  <2>3. CASE Polled
    <3>1. pc = "poll" /\ to \in Nat /\ to <= PollLimit /\ PollLimit \in Nat /\ PollLimit > 1
      BY <2>3, ClassifierAssumption DEF Polled, Step, TimeInv
    <3>2. CASE xbus_dat_r.done
      <4>1. pc' = "best" /\ outcome' = outcome
        BY <2>3, <3>2 DEF Polled, Step
      <4> QED BY <4>1 DEF TimeInv
    <3>3. CASE ~xbus_dat_r.done
      <4>1. to = PollLimit
        BY <1>7, <3>1, <3>3 DEF TimeInv
      <4>2. pc' = "poll" /\ outcome' = outcome /\ to' = to - 1
        BY <2>3, <3>1, <3>3, <4>1 DEF Polled, Step
      <4>3. computing' => compute_cnt' >= 8
        BY <1>4, <1>2, <1>7, <2>1, <3>1, <4>1 DEF TimeInv
      <4>4. to' \in Nat /\ to' # PollLimit /\ to' <= PollLimit
        BY <3>1, <4>1, <4>2
      <4> QED BY <2>1, <4>2, <4>3, <4>4 DEF TimeInv
    <3> QED BY <3>2, <3>3
  <2>4. CASE Cleared \/ Addressed \/ Weighted \/ Given \/ First \/ Compared
    <3>1. pc' # "poll" /\ (outcome' = outcome \/ outcome' = "predicted")
      BY <2>4 DEF Cleared, Addressed, Weighted, Given, First, Compared, Step
    <3> QED BY <2>1, <3>1 DEF TimeInv
  <2> QED BY <1>7, <2>2, <2>3, <2>4 DEF Continue
<1> QED BY <1>5, <1>6, <1>7, StepCases

LEMMA TrustKept ==
    ASSUME BusInv, DataInv, ProgInv, ModelInv, TrustInv, TpuClock
    PROVE  TrustInv'
<1>1. ASSUME NEW p \in Cell
      PROVE  TrustedFor(p, w_reg'[p])
  <2>1. w_reg'[p] = Settled(p)
    BY ClockSettles
  <2> QED BY <2>1 DEF Settled, LoadsWeight, TrustInv
<1>2. ASSUME sa_load_weight'
      PROVE  TrustedFor(<<sa_w'.row, sa_w'.col>>, sa_w'.data)
  <2>1. CASE Selected /\ pc = "w_data"
    <3>1. sa_w' = [row |-> w_addr.row, col |-> w_addr.col, data |-> file.weights[CellAt]]
      BY <2>1, ClockLoads
    <3>2. w_addr = [row |-> i \div N, col |-> i % N]
      BY <2>1 DEF ModelInv
    <3>3. <<sa_w'.row, sa_w'.col>> = CellAt /\ sa_w'.data = file.weights[CellAt]
      BY <3>1, <3>2 DEF CellAt
    <3>4. file \in Files /\ file.whole /\ file.trusted
      BY <2>1 DEF ProgInv, Accesses
    <3> QED BY <3>3, <3>4 DEF TrustedFor
  <2>2. CASE ~(Selected /\ pc = "w_data")
    <3>1. sa_load_weight /\ sa_w' = sa_w
      BY <1>2, <2>2, ClockLoads
    <3> QED BY <3>1 DEF TrustInv
  <2> QED BY <2>1, <2>2
<1> QED BY <1>1, <1>2 DEF TrustInv, TrustedFor, Cell, Index

LEMMA ClassInit == Init => ClassInv
<1> SUFFICES ASSUME Init PROVE ClassInv
  OBVIOUS
<1>1. Request0 \in Request
  BY Sizes DEF Request0, Request, Register, Word, ZeroWord, LutIndex
<1>2. BusInv /\ DataInv
  <2>1. {Request0} \in SUBSET Request /\ BusInit({Request0})
    BY <1>1 DEF Init
  <2> QED BY <2>1, BusInitInv, DataInit
<1>3. ~computing /\ ~Sent /\ ~Selected
  BY DEF Init, BusInit, TpuInit, computing, Sent, Taken, Acked, Selected
<1>a. /\ file \in Files /\ pc = "shell" /\ best = 0 /\ outcome = "none"
      /\ ~xbus_cyc /\ ~bulk_active /\ ~lut_load_active
  BY DEF Init, BusInit, TpuInit, ProgramInit
<1>b. 0 \in Index
  BY Sizes DEF Index
<1>c. pc \notin Accesses
  BY <1>a DEF Accesses
<1>p. ProgInv
  BY <1>3, <1>a, <1>b, <1>c DEF ProgInv
<1>m. ModelInv
  BY <1>3, <1>a DEF ModelInv
<1>4. BestInv /\ TimeInv
  BY <1>a DEF BestInv, TimeInv
<1>5. TrustInv
  BY DEF Init, BusInit, TpuInit, TrustInv, TrustedFor, NoWeights
<1> QED BY <1>2, <1>p, <1>m, <1>4, <1>5 DEF ClassInv

LEMMA ClassTick == ClassInv /\ Tick => ClassInv'
<1> SUFFICES ASSUME ClassInv, Tick PROVE ClassInv'
  OBVIOUS
<1> USE DEF ClassInv
<1>1. TpuClock /\ Discipline
  BY Disciplined
<1>2. BusInv' /\ DataInv'
  BY <1>1, BusKept, DataKept
<1> QED BY <1>1, <1>2, ProgKept, ModelKept, BestKept, TimeKept, TrustKept

LEMMA ClassReset == ClassInv /\ Reset => ClassInv'
<1> SUFFICES ASSUME ClassInv, Reset PROVE ClassInv'
  OBVIOUS
<1>1. BusInv' /\ DataInv'
  BY BusResetKept, DataResetKept DEF Reset, ClassInv
<1>2. ~computing' /\ ~Sent' /\ ~Selected' /\ ~xbus_cyc'
  BY DEF Reset, BusReset, TpuReset, computing, Sent, Taken, Acked, Selected
<1>3. ProgInv' /\ ModelInv' /\ BestInv' /\ TimeInv'
  BY <1>2, Sizes DEF Reset, BusReset, TpuReset, ClassInv, ProgInv, ModelInv, BestInv, TimeInv, Acked
<1>4. TrustInv'
  BY DEF Reset, BusReset, TpuReset, TrustInv, TrustedFor, NoWeights
<1> QED BY <1>1, <1>3, <1>4 DEF ClassInv

LEMMA ClassStutter == ClassInv /\ UNCHANGED vars => ClassInv'
<1> SUFFICES ASSUME ClassInv, UNCHANGED vars PROVE ClassInv'
  OBVIOUS
<1> USE DEF vars, programVars, busVars, tpuVars, peVars, computeVars, weightVars, bulkVars, loadVars,
        loaderVars, lutVars, bridgeVars, xbusVars, ClassInv
<1>1. BusInv'
  BY DEF BusInv, BusTypeOK, TpuTypeOK, Handshake, RowInv, QuietInv, Free, Asked, Selected, Taken,
     Acked, computing, OneOrder
<1>2. ArrayInv' /\ WrittenInv' /\ PortInv'
  BY DEF DataInv, ArrayInv, OnDiagonal, Partial, WrittenInv, PortInv, Taken
<1>3. Free' = Free /\ Asked' = Asked /\ Selected' = Selected /\ Taken' = Taken /\ Acked' = Acked
      /\ Sent' = Sent /\ computing' = computing /\ AccessAt' = AccessAt
  BY DEF Free, Asked, Selected, Taken, Acked, Sent, computing, AccessAt, Request0, Store, Fetch,
     Result, ByteWord, ZeroWord
<1>4. ProgInv'
  BY <1>3 DEF ProgInv, Accesses
<1>5. \A r : Score(r)' = Score(r) /\ Promised(r)' = Promised(r)
  BY <1>3 DEF Score, Promised, Dot, Partial, Signed
<1>6. (\A p : Settled(p)' = Settled(p)) /\ Filled' = Filled
  BY <1>3 DEF Settled, LoadsWeight, Filled
<1>7. Score(i)' = Score(i) /\ Score(best)' = Score(best)
  BY DEF Score, Dot, Partial, Signed
<1>8. ModelInv'
  BY <1>3, <1>5, <1>6, <1>7 DEF ModelInv, EntryOf, Cell, Index
<1>9. BestInv' /\ TimeInv' /\ TrustInv'
  BY <1>3, <1>5, <1>7 DEF BestInv, TimeInv, TrustInv, TrustedFor, Cell, Index
<1> QED BY <1>1, <1>2, <1>4, <1>8, <1>9 DEF DataInv

(***************************************************************************)
(* The command, its requests and the accelerator stay in step.             *)
(***************************************************************************)
THEOREM InvCorrect == Spec => []ClassInv
<1>1. ClassInv /\ [Next]_vars => ClassInv'
  BY ClassTick, ClassReset, ClassStutter DEF Next
<1> QED BY ClassInit, <1>1, PTL DEF Spec

(***************************************************************************)
(* The class that the command prints is the first with the highest score,  *)
(* whatever earlier runs and resets left in the accelerator (cmd_tpu).     *)
(***************************************************************************)
THEOREM AlwaysRight == Spec => []PredictionRight
<1>1. ClassInv => PredictionRight
  <2> SUFFICES ASSUME ClassInv, outcome = "predicted", pc = "shell"
               PROVE  best = Winner /\ bestval = Score(Winner)
    BY DEF PredictionRight
  <2> DEFINE Wins(r) == \A s \in Index : Score(s) <= Score(r) /\ (s < r => Score(s) < Score(r))
  <2>1. best \in Index /\ bestval = Score(best) /\ Wins(best)
    BY DEF ClassInv, BestInv, ProgInv
  <2>2. ASSUME NEW r \in Index, Wins(r)
        PROVE  r = best
    <3>1. r \in Int /\ best \in Int /\ Score(r) \in Int /\ Score(best) \in Int
      BY <2>1, ScoreInt DEF Index, ClassInv, ProgInv
    <3>2. Score(r) <= Score(best) /\ Score(best) <= Score(r)
          /\ (r < best => Score(r) < Score(best)) /\ (best < r => Score(best) < Score(r))
      BY <2>1, <2>2
    <3> QED BY <3>1, <3>2
  <2>3. Winner = CHOOSE r \in Index : Wins(r)
    BY DEF Winner
  <2> HIDE DEF Wins
  <2>4. Winner = best
    BY <2>1, <2>2, <2>3
  <2> QED BY <2>1, <2>4
<1> QED BY InvCorrect, <1>1, PTL

(***************************************************************************)
(* Every weight in the array is zero or that of a file the gate passed     *)
(* (cmd_tpu returns before its first access to the accelerator).           *)
(***************************************************************************)
THEOREM AlwaysTrusted == Spec => []OnlyTrusted
<1>1. ClassInv => OnlyTrusted
  BY DEF ClassInv, TrustInv, TrustedFor, OnlyTrusted
<1> QED BY InvCorrect, <1>1, PTL

(***************************************************************************)
(* The bounded poll of cmd_tpu never gives up: the second STATUS read      *)
(* finds the computation over.                                             *)
(***************************************************************************)
THEOREM NeverTimesOut == Spec => []NoTimeout
<1>1. ClassInv => NoTimeout
  BY DEF ClassInv, TimeInv, NoTimeout
<1> QED BY InvCorrect, <1>1, PTL
=============================================================================
