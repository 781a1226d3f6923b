---------------------------- MODULE MCFieldPool ----------------------------
(* The instance of FieldPool for TLC: two devices and room for one, a      *)
(* poller on the first.                                                    *)
EXTENDS FieldPool

CONSTANTS d1, d2, p1, w1

MCPolled == [p \in {p1} |-> d1]
=============================================================================
