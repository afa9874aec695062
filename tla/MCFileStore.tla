----------------------------- MODULE MCFileStore -----------------------------
(***************************************************************************)
(* Small instances of FileStore for TLC.                                   *)
(***************************************************************************)
EXTENDS FileStore

CONSTANTS u1, u2, g1, d1, d2, q1, q2

FirstFile == [r \in Readers |-> 1]
OneProvider == [r \in Readers |-> q1]
TwoProviders == [r \in Readers |-> IF r = d2 THEN q2 ELSE q1]
TwoFiles == [r \in Readers |-> IF r = d2 THEN 2 ELSE 1]
=============================================================================
