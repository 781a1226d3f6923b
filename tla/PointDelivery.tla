---------------------------- MODULE PointDelivery ----------------------------
(***************************************************************************)
(* What the data-ingestion service promises for each data point it parses, *)
(* with the channels, the batches and the goroutines left out.             *)
(*                                                                         *)
(* A point is "new" until the service counts it as received, then it is    *)
(* "offered" to the buffer.  The buffer either accepts or rejects it.  An  *)
(* accepted point is settled exactly once, together with the rest of its   *)
(* batch: it is "stored", or its batch "failed" in the database.  A        *)
(* service that stops cleanly has settled everything it accepted; one      *)
(* whose stop timed out may leave accepted points behind.                  *)
(***************************************************************************)
EXTENDS Naturals, FiniteSets

CONSTANTS Points,     \* the data points that can arrive
          BatchSize   \* the largest batch handed to the database

VARIABLES fate,       \* fate[p]: how far the service has got with point p
          phase       \* whether the service runs, or how it stopped

Fates  == {"new", "offered", "rejected", "accepted", "stored", "failed"}
Phases == {"running", "stoppedClean", "timedOut"}

vars == <<fate, phase>>

WithFate(f) == {p \in Points : fate[p] = f}

Init == /\ fate = [p \in Points |-> "new"]
        /\ phase = "running"

Offer(p) == /\ fate[p] = "new"
            /\ fate' = [fate EXCEPT ![p] = "offered"]
            /\ UNCHANGED phase

\* A point may still be rejected after the service has stopped, never accepted.
Accept(p) == /\ fate[p] = "offered"
             /\ phase = "running"
             /\ fate' = [fate EXCEPT ![p] = "accepted"]
             /\ UNCHANGED phase

Reject(p) == /\ fate[p] = "offered"
             /\ fate' = [fate EXCEPT ![p] = "rejected"]
             /\ UNCHANGED phase

\* One batch is settled as a whole: no point of it has a fate of its own.
Settle(batch, outcome) ==
    /\ batch # {}
    /\ Cardinality(batch) <= BatchSize
    /\ \A p \in batch : fate[p] = "accepted"
    /\ fate' = [p \in Points |-> IF p \in batch THEN outcome ELSE fate[p]]
    /\ UNCHANGED phase

StopClean == /\ phase = "running"
             /\ WithFate("accepted") = {}
             /\ phase' = "stoppedClean"
             /\ UNCHANGED fate

StopTimesOut == /\ phase = "running"
                /\ phase' = "timedOut"
                /\ UNCHANGED fate

Next == \/ \E p \in Points : Offer(p) \/ Accept(p) \/ Reject(p)
        \/ \E batch \in SUBSET Points, outcome \in {"stored", "failed"} :
              Settle(batch, outcome)
        \/ StopClean
        \/ StopTimesOut

Spec == Init /\ [][Next]_vars
=============================================================================
