------------------------------ MODULE TpuTypes ------------------------------
(***************************************************************************)
(* The accelerator's registers and values (the register map at the head of *)
(* rtl/tpu/tpu_accel.v), shared by the detailed and the abstract           *)
(* specification.  The array is N by N; the source has N = 4, 32-bit       *)
(* accumulators and 256 LUT entries.                                       *)
(*                                                                         *)
(* A request is what the bus shows: the register it addresses and, for a   *)
(* write, the fields that register reads.                                  *)
(***************************************************************************)
EXTENDS Integers

CONSTANTS
    N,          \* rows and columns of the array
    Byte,       \* the values of a signed byte that are used
    AccMod,     \* an accumulator counts modulo AccMod (2^32)
    LutSize     \* entries of the LUT memory

ASSUME TpuAssumption ==
    /\ N \in 2 .. 4
    /\ Byte \subseteq -128 .. 127 /\ 0 \in Byte
    /\ AccMod \in Nat \ {0} /\ AccMod % 2 = 0
    /\ LutSize \in Nat /\ LutSize >= N * N

Index == 0 .. N - 1
Cell == Index \X Index
Word == [0 .. 3 -> Byte]                \* a bus word as its four bytes
LutIndex == 0 .. LutSize - 1

\* Two's complement.
Signed(n) == ((n + AccMod \div 2) % AccMod) - AccMod \div 2
Sums == -(AccMod \div 2) .. AccMod \div 2 - 1

Register == {"CTRL", "STATUS", "W_ADDR", "W_DATA", "X_IN", "W_DATA4", "RES", "LUT"}
CtrlBit == {"start", "clear", "load"}
Request == [we : BOOLEAN, reg : Register, bits : SUBSET CtrlBit,
            row : Index, col : Index, word : Word, idx : LutIndex]

\* What a read returns; reads of the other registers return zero.
ReadData == [done : BOOLEAN, busy : BOOLEAN, sum : Sums, word : Word]
ZeroWord == [i \in 0 .. 3 |-> 0]
ZeroData == [done |-> FALSE, busy |-> FALSE, sum |-> 0, word |-> ZeroWord]

NoWeights == [p \in Cell |-> 0]
NoSums == [r \in Index |-> 0]

\* Row r of a matrix of weights times a vector, up to column c, and whole.
Partial(weights, x, r, c) ==
    LET Term(i) == IF i <= c THEN weights[<<r, i>>] * x[i] ELSE 0
    IN  Term(0) + Term(1) + Term(2) + Term(3)
Dot(weights, x, r) == Partial(weights, x, r, N - 1)

\* The entry of the LUT that a load puts in a cell, and the byte of it that it takes.
EntryOf(p) == N * p[1] + p[2]
WeightIn(word) == word[2]
==============================================================================
