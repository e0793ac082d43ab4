-------------------------- MODULE MCTpuClassifier --------------------------
(***************************************************************************)
(* The 4 by 4 array and the golden model of host_reference.py, with the    *)
(* golden query and one whose two best scores are equal; a file with other *)
(* weights and one that is too short.                                      *)
(***************************************************************************)
EXTENDS TpuClassifier

Vector(a, b, c, d) == [j \in 0 .. 3 |-> CASE j = 0 -> a [] j = 1 -> b [] j = 2 -> c [] OTHER -> d]

Golden == [p \in Cell |-> CASE p[1] = 0 -> 40 - 10 * p[2]
                            [] p[1] = 1 -> 10 + 10 * p[2]
                            [] OTHER    -> IF (p[1] + p[2]) % 2 = 0 THEN 50 ELSE -50]

MCByte == -50 .. 50
MCPowerUpWords == {Vector(0, 0, 0, 0)}

Good == [whole |-> TRUE, trusted |-> TRUE, weights |-> Golden, x |-> Vector(1, 2, 3, 4)]
MCFiles ==
    {Good,
     [Good EXCEPT !.x = Vector(3, 2, 2, 3)],
     [Good EXCEPT !.trusted = FALSE, !.weights = [p \in Cell |-> 7]],
     [Good EXCEPT !.whole = FALSE, !.trusted = FALSE]}
=============================================================================
