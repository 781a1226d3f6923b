----------------------------- MODULE MCPolling -----------------------------
(* Instances of Polling for TLC.                                           *)
EXTENDS Polling, TLC

CONSTANTS d1, p1, p2, t1, t2

OneDevice  == {d1}
TwoPollers == {p1, p2}
TwoThreads == {t1, t2}

Poll(interval) == [enabled |-> TRUE, push |-> FALSE, tags |-> TRUE, interval |-> interval]
Push(tags)     == [enabled |-> TRUE, push |-> TRUE, tags |-> tags, interval |-> 1]
Disabled       == [enabled |-> FALSE, push |-> FALSE, tags |-> TRUE, interval |-> 1]
NoTags         == [Poll(1) EXCEPT !.tags = FALSE]

AllConfigs  == {Poll(1), Poll(2), Push(TRUE), Push(FALSE), Disabled, NoTags}
PollConfigs == {Poll(1), Poll(2)}
=============================================================================
