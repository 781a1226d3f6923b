-------------------------- MODULE MCOpcuaSessions --------------------------
(* Instances of OpcuaSessions for TLC.                                     *)
EXTENDS OpcuaSessions, TLC

CONSTANTS d1, d2, e1, e2, c1, c2

TwoDevices == {d1, d2}
TwoEndpoints == {e1, e2}
TwoCallers == {c1, c2}

\* c1 sends commands to d1 and polls d2; c2 keeps the subscription of d1, and
\* may browse it.
WorkOfTwo == (c1 :> {<<"write", d1>>, <<"read", d2>>}) @@
             (c2 :> {<<"subscribe", d1>>, <<"unsubscribe", d1>>})
WorkAndBrowse == [WorkOfTwo EXCEPT ![c2] = @ \cup {<<"browse", d1>>}]

\* Both devices are at e1, until d1 moves to e2, and perhaps back.
TogetherAtFirst == {[d \in TwoDevices |-> e1]}
OneMove == {<<d1, e1, e2>>}
ThereAndBack == OneMove \cup {<<d1, e2, e1>>}
=============================================================================
