---------------------------- MODULE MCOrderCodes ----------------------------
(***************************************************************************)
(* A small instance of OrderCodes for TLC.                                 *)
(***************************************************************************)
EXTENDS OrderCodes

CONSTANTS c1, c2, c3, p1, j1, j2

OneProduct == [c \in Calls |-> p1]
TwoOfThree == [c \in Calls |-> IF c = c3 THEN j2 ELSE j1]
=============================================================================
