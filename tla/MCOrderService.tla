--------------------------- MODULE MCOrderService ---------------------------
(***************************************************************************)
(* Small instances of OrderService for TLC.                                *)
(***************************************************************************)
EXTENDS OrderService, TLC

CONSTANTS c1, c2, c3, c4, p1, p2

OneProduct == [c \in Calls |-> p1]                      \* all compete
TwoProducts == [c \in Calls |-> IF c = c3 THEN p2 ELSE p1]
AnyCalls == Permutations(Calls)
=============================================================================
