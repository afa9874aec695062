------------------------ MODULE MCDynamicDataSource ------------------------
(***************************************************************************)
(* A small instance of DynamicDataSource for TLC.                          *)
(***************************************************************************)
EXTENDS DynamicDataSource

CONSTANTS d1, d2, s1, o1, t1, t2

OneOfEach == [r \in Requests |-> CASE r = s1 -> "student"
                                   [] r = o1 -> "other"
                                   [] OTHER -> "dynamic"]
=============================================================================
