------------------------------- MODULE MCSdram -------------------------------
(***************************************************************************)
(* Two banks of two rows.  The three words used differ from one another in *)
(* the row only, the bank only, or both.  One is written whole, one in its *)
(* two middle lanes, which lie in different halves, and one is never       *)
(* written, so that a stray write shows wherever it lands.                 *)
(***************************************************************************)
EXTENDS SdramSystem

CONSTANTS b0, b1, r0, r1, c0

MCBank == {b0, b1}
MCRow == {r0, r1}
MCCol == {c0}

Cell(b, r) == [ba |-> b, row |-> r, col |-> c0]
Ask0(a, lanes) ==
    [addr |-> a, wdata |-> [l \in 0 .. 3 |-> 1], wstrb |-> lanes, in_sdram |-> TRUE]

MCRequests == {Ask0(Cell(b0, r0), {}), Ask0(Cell(b0, r0), 0 .. 3),
               Ask0(Cell(b0, r1), {}), Ask0(Cell(b0, r1), {1, 2}),
               Ask0(Cell(b1, r0), {})}

\* Where only the timing matters: the memory holds nothing but zeros.
Elsewhere == [Ask0(Cell(b1, r0), {}) EXCEPT !.in_sdram = FALSE]
Blanked(q) == [q EXCEPT !.wdata = [l \in 0 .. 3 |-> 0]]
MCTimedRequests == {Blanked(q) : q \in {Ask0(Cell(b0, r0), {}), Ask0(Cell(b0, r1), 0 .. 3),
                                        Elsewhere}}
==============================================================================
