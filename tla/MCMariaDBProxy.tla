--------------------------- MODULE MCMariaDBProxy ---------------------------
(* Small instances of MariaDBProxy for TLC: one asset behind an SSH gateway, *)
(* one reached directly.                                                     *)
EXTENDS MariaDBProxy, TLC

CONSTANTS a1, a2, g1

MCGatewayOf == [a \in Assets |-> IF a = a1 THEN g1 ELSE NoGateway]
Symmetry == Permutations(Conns)
=============================================================================
