--------------------------- MODULE MCServiceEngine ---------------------------
(***************************************************************************)
(* A small instance of ServiceEngine for TLC.                              *)
(***************************************************************************)
EXTENDS ServiceEngine

CONSTANTS c1, c2, c3, j1, j2, nf, blank

\* Two calls share a JVM and a third runs on another.
TwoJvms == [c \in Calls |-> IF c = c3 THEN j2 ELSE j1]
=============================================================================
