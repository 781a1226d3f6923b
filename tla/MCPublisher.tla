---------------------------- MODULE MCPublisher ----------------------------
(* Instances of Publisher for TLC.                                         *)
EXTENDS Publisher

CONSTANTS g1, g2

TwoProducers == {g1, g2}

\* One topic is published twice, and there is one more than are kept.
ThreeTopics == <<1, 2, 1, 3>>
=============================================================================
