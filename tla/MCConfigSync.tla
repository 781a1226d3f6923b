---------------------------- MODULE MCConfigSync ----------------------------
(* Instances of ConfigSync for TLC.                                        *)
EXTENDS ConfigSync

CONSTANTS d1, d2, t1

OneDevice  == {d1}
TwoDevices == {d1, d2}
OneTag     == {t1}
=============================================================================
