--------------------------- MODULE MCLoadShaping ---------------------------
(* Instances of LoadShaping for TLC.                                       *)
EXTENDS LoadShaping

CONSTANTS e1, e2, w1

FourOps == 1..4
TwoEndpoints == {e1, e2}
OneEndpoint == {e1}
OneWorker == {w1}

\* A poll, a write, an alarm and a write.
MixedPriorities == <<0, 1, 2, 1>>
Spread == <<e1, e1, e2, e1>>
=============================================================================
