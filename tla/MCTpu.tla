------------------------------- MODULE MCTpu -------------------------------
(***************************************************************************)
(* The 4 by 4 array of the source, 2-bit accumulators.  The four products  *)
(* of a full row cancel out and three of them do not: one that comes a     *)
(* clock early or late shows, and the accumulators grow only by the weight *)
(* that a load brings.                                                     *)
(***************************************************************************)
EXTENDS TpuSystem

W4(a, b, c, d) == [i \in 0 .. 3 |-> CASE i = 0 -> a [] i = 1 -> b [] i = 2 -> c [] OTHER -> d]
Zero == W4(0, 0, 0, 0)

Blank == [we |-> FALSE, reg |-> "STATUS", bits |-> {}, row |-> 0, col |-> 0,
          word |-> Zero, idx |-> 0]
Write(reg) == [Blank EXCEPT !.we = TRUE, !.reg = reg]
Ctrl(bits) == [Write("CTRL") EXCEPT !.bits = bits]

MCByte == -1 .. 1
MCPowerUpWords == {Zero}

MCRequests ==
    {Blank, Ctrl({"start"}), Ctrl({"clear"}), Ctrl({"load"}), Ctrl({"start", "clear"}),
     [Write("W_ADDR") EXCEPT !.row = 2],
     [Write("W_DATA4") EXCEPT !.word = W4(1, -1, 1, 1)],
     [Write("X_IN") EXCEPT !.word = W4(1, 1, -1, 1)],
     [Write("LUT") EXCEPT !.idx = 6, !.word = W4(0, 0, -1, 0)],
     [Blank EXCEPT !.reg = "RES", !.row = 1], [Blank EXCEPT !.reg = "LUT", !.idx = 6]}
=============================================================================
