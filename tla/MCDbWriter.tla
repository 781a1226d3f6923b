----------------------------- MODULE MCDbWriter -----------------------------
(* Instances of DbWriter for TLC.                                          *)
EXTENDS DbWriter

CONSTANTS c1, c2, c3

ThreeCallers == {c1, c2, c3}
=============================================================================
