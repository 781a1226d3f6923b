----------------------------- MODULE MCIngestion -----------------------------
(* Instances of Ingestion for TLC.                                         *)
EXTENDS Ingestion

CONSTANTS w1, w2

OneWriter  == {w1}
TwoWriters == {w1, w2}
=============================================================================
