----------------------------- MODULE Publisher -----------------------------
(***************************************************************************)
(* The gateway's MQTT publisher (adapter/mqtt/publisher.go): pollers and   *)
(* subscriptions publish data points, or put them in a bounded buffer      *)
(* while the connection is down; one goroutine publishes what is buffered; *)
(* Disconnect drains the buffer.                                           *)
(*                                                                         *)
(* A point is the number of its Publish call.  publishRaw waits at most    *)
(* PublishTimeout for the client, which is external: whether a point whose *)
(* wait ended reaches the broker later is not followed.                    *)
(***************************************************************************)
EXTENDS Naturals, Sequences

CONSTANTS
    MaxPoints,    \* bound: the points that are published
    Producers,    \* the goroutines that call Publish
    BufferSize,   \* Config.BufferSize
    Breaks,       \* bound: how often the connection is lost
    TopicOf,      \* the topic of each point
    MaxTopics,    \* maxTrackedTopics
    EvictCount    \* how many topics make room at once

Points == 1..MaxPoints
Nothing == 0
Topics == {TopicOf[p] : p \in Points}

ASSUME PublisherAssumption ==
    /\ MaxPoints \in Nat
    /\ BufferSize \in Nat \ {0}
    /\ Breaks \in Nat
    /\ DOMAIN TopicOf = Points
    /\ MaxTopics \in Nat \ {0}
    /\ EvictCount \in 1..MaxTopics

VARIABLES
    link,       \* the connection to the broker is up
    breaks,     \* how often it was lost
    connected,  \* p.connected, which the client's callbacks set
    mainPc,     \* Disconnect: "running", "closing", "stopped"
    buffer,     \* p.messageBuffer
    call,       \* each producer: [pc, point]
    workerPc,   \* processBuffer: "select", "taken", "publish",
                \* "backoff", "drain", "drained", "flush", "gone"
    hand,       \* the point that processBuffer holds, or Nothing
    offered,    \* the number of Publish calls so far
    fate,       \* history: what became of each point
    handed,     \* history: the points given to the client, in order
    tracked,    \* the topics of topicStats, least recently published first
    ending      \* history: how processBuffer ended: "none", "drained",
                \* "timedOut", "inBackoff"

linkVars   == <<link, breaks, connected>>
workVars   == <<workerPc, hand, ending>>
traceVars  == <<fate, handed, tracked>>
vars == <<linkVars, mainPc, buffer, call, workVars, offered, traceVars>>

Fates == {"new", "open", "published", "failed", "dropped"}
NoCall == [pc |-> "idle", point |-> Nothing]

\* Connect has succeeded: main gives up otherwise.
Init ==
    /\ link = TRUE /\ breaks = 0 /\ connected = TRUE
    /\ mainPc = "running"
    /\ buffer = <<>>
    /\ call = [g \in Producers |-> NoCall]
    /\ workerPc = "select" /\ hand = Nothing /\ ending = "none"
    /\ offered = 0
    /\ fate = [p \in Points |-> "new"]
    /\ handed = <<>> /\ tracked = <<>>

-----------------------------------------------------------------------------
(* The connection.                                                         *)

LinkBreaks ==
    /\ link
    /\ breaks < Breaks
    /\ link' = FALSE
    /\ breaks' = breaks + 1
    /\ UNCHANGED <<connected, mainPc, buffer, call, workVars, offered, traceVars>>

\* The client reconnects by itself, until Disconnect ends it.
LinkReturns ==
    /\ ~link
    /\ mainPc # "stopped"
    /\ link' = TRUE
    /\ UNCHANGED <<breaks, connected, mainPc, buffer, call, workVars, offered, traceVars>>

\* onConnect and onConnectionLost: the flag follows the link after a while.
MutantNeverReconnects ==
    /\ connected /\ ~link
    /\ connected' = FALSE
    /\ UNCHANGED <<link, breaks, mainPc, buffer, call, workVars, offered, traceVars>>
FlagFollows ==
    /\ connected # link
    /\ mainPc # "stopped"
    /\ connected' = link
    /\ UNCHANGED <<link, breaks, mainPc, buffer, call, workVars, offered, traceVars>>

-----------------------------------------------------------------------------
(* publishRaw.                                                             *)

Settle(p, f) == fate' = [fate EXCEPT ![p] = f]

HandOver(p) == handed' = Append(handed, p)

\* recordTopicPublish, evictOldestTopicsLocked.
Evict(s) == SubSeq(s, EvictCount + 1, Len(s))

RecordTopic(t) ==
    \/ \E i \in 1..Len(tracked) :
          /\ tracked[i] = t
          /\ tracked' = Append(SubSeq(tracked, 1, i - 1) \o SubSeq(tracked, i + 1, Len(tracked)), t)
    \/ /\ \A i \in 1..Len(tracked) : tracked[i] # t
       /\ tracked' = Append(IF Len(tracked) >= MaxTopics THEN Evict(tracked) ELSE tracked, t)

\* The client took the point in time, which it can while the link is up.
PublishEnds(p) ==
    \/ link /\ Settle(p, "published") /\ RecordTopic(TopicOf[p])
    \/ Settle(p, "failed") /\ UNCHANGED tracked

-----------------------------------------------------------------------------
(* Publish and bufferMessage, called by a producer g.                      *)

SetCall(g, pc) == call' = [call EXCEPT ![g].pc = pc]
Return(g) == call' = [call EXCEPT ![g] = NoCall]

\* Publish reads the connected flag once.
Publish(g) ==
    /\ call[g] = NoCall
    /\ offered < MaxPoints
    /\ offered' = offered + 1
    /\ Settle(offered', "open")
    /\ call' = [call EXCEPT ![g] = [pc |-> IF connected THEN "publish" ELSE "buffer",
                                    point |-> offered']]
    /\ IF connected THEN HandOver(offered') ELSE UNCHANGED handed
    /\ UNCHANGED <<linkVars, mainPc, buffer, workVars, tracked>>

PublishReturns(g) ==
    /\ call[g].pc = "publish"
    /\ PublishEnds(call[g].point)
    /\ Return(g)
    /\ UNCHANGED <<linkVars, mainPc, buffer, workVars, offered, handed>>

HasRoom == Len(buffer) < BufferSize

\* The three non-blocking steps of bufferMessage: a send, ...
Buffered(g) ==
    /\ call[g].pc \in {"buffer", "retry"}
    /\ HasRoom
    /\ buffer' = Append(buffer, call[g].point)
    /\ Return(g)
    /\ UNCHANGED <<linkVars, mainPc, workVars, offered, traceVars>>

BufferFull(g) ==
    /\ call[g].pc = "buffer"
    /\ ~HasRoom
    /\ SetCall(g, "full")
    /\ UNCHANGED <<linkVars, mainPc, buffer, workVars, offered, traceVars>>

\* ... a receive that drops what was first in the buffer, if anything still is, ...
Rest(s) == Tail(s)

DropOldest(g) ==
    /\ call[g].pc = "full"
    /\ IF buffer = <<>>
       THEN UNCHANGED <<buffer, fate>>
       ELSE buffer' = Rest(buffer) /\ Settle(Head(buffer), "dropped")
    /\ SetCall(g, "retry")
    /\ UNCHANGED <<linkVars, mainPc, workVars, offered, handed, tracked>>

\* ... and a second send, which another goroutine may have forestalled.
GiveUp(g) ==
    /\ call[g].pc = "retry"
    /\ ~HasRoom
    /\ Settle(call[g].point, "failed")
    /\ Return(g)
    /\ UNCHANGED <<linkVars, mainPc, buffer, workVars, offered, handed, tracked>>

-----------------------------------------------------------------------------
(* processBuffer and drainBuffer.                                          *)

StopSeen == mainPc # "running"

Take(pc) ==
    /\ buffer # <<>>
    /\ hand' = Head(buffer)
    /\ buffer' = Tail(buffer)
    /\ workerPc' = pc

\* select: a message or done, at random if both are ready.
TakeMessage ==
    /\ workerPc = "select"
    /\ Take("taken")
    /\ UNCHANGED <<linkVars, mainPc, call, ending, offered, traceVars>>

SeeDone ==
    /\ workerPc = "select"
    /\ StopSeen
    /\ workerPc' = "drain"
    /\ UNCHANGED <<linkVars, mainPc, buffer, call, hand, ending, offered, traceVars>>

\* Connected: publish it.
PublishBuffered ==
    /\ workerPc = "taken"
    /\ connected
    /\ HandOver(hand)
    /\ workerPc' = "publish"
    /\ UNCHANGED <<linkVars, mainPc, buffer, call, hand, ending, offered, fate, tracked>>

\* Not connected: back to the end of the buffer, without waiting for room.
MutantKeepsHolding == /\ workerPc = "taken"
                      /\ ~connected /\ HasRoom
                      /\ buffer' = Append(buffer, hand)
                      /\ workerPc' = "backoff"
                      /\ UNCHANGED <<linkVars, mainPc, call, hand, ending, offered, traceVars>>
Rebuffer ==
    /\ workerPc = "taken"
    /\ ~connected
    /\ \/ HasRoom /\ buffer' = Append(buffer, hand) /\ UNCHANGED fate
       \/ ~HasRoom /\ Settle(hand, "dropped") /\ UNCHANGED buffer
    /\ workerPc' = "backoff"
    /\ hand' = Nothing
    /\ UNCHANGED <<linkVars, mainPc, call, ending, offered, handed, tracked>>

BackoffEnds ==
    /\ workerPc = "backoff"
    /\ workerPc' = "select"
    /\ UNCHANGED <<linkVars, mainPc, buffer, call, hand, ending, offered, traceVars>>

\* done during the backoff: the goroutine leaves without a drain.
LeaveInBackoff ==
    /\ workerPc = "backoff"
    /\ StopSeen
    /\ workerPc' = "gone"
    /\ ending' = "inBackoff"
    /\ UNCHANGED <<linkVars, mainPc, buffer, call, hand, offered, traceVars>>

MutantTriesAgain ==
    /\ workerPc \in {"publish", "flush"}
    /\ \/ PublishEnds(hand) /\ UNCHANGED buffer
       \/ HasRoom /\ buffer' = Append(buffer, hand) /\ UNCHANGED <<fate, tracked>>
    /\ hand' = Nothing
    /\ workerPc' = IF workerPc = "publish" THEN "select" ELSE "drain"
    /\ UNCHANGED <<linkVars, mainPc, call, ending, offered, handed>>
BufferedPublishEnds ==
    /\ workerPc \in {"publish", "flush"}
    /\ PublishEnds(hand)
    /\ hand' = Nothing
    /\ workerPc' = IF workerPc = "publish" THEN "select" ELSE "drain"
    /\ UNCHANGED <<linkVars, mainPc, buffer, call, ending, offered, handed>>

DrainMessage ==
    /\ workerPc = "drain"
    /\ Take("drained")
    /\ UNCHANGED <<linkVars, mainPc, call, ending, offered, traceVars>>

FlushMessage ==
    /\ workerPc = "drained"
    /\ connected
    /\ HandOver(hand)
    /\ workerPc' = "flush"
    /\ UNCHANGED <<linkVars, mainPc, buffer, call, hand, ending, offered, fate, tracked>>

\* Not connected: what the drain takes is thrown away.
DiscardMessage ==
    /\ workerPc = "drained"
    /\ ~connected
    /\ Settle(hand, "dropped")
    /\ hand' = Nothing
    /\ workerPc' = "drain"
    /\ UNCHANGED <<linkVars, mainPc, buffer, call, ending, offered, handed, tracked>>

Drained == workerPc = "drain" /\ buffer = <<>>

MutantBreaksTheSelectOnly ==
    /\ workerPc = "drain"
    /\ workerPc' = "select"
    /\ UNCHANGED <<linkVars, mainPc, buffer, call, hand, ending, offered, traceVars>>
DrainEnds ==
    /\ Drained
    /\ workerPc' = "gone"
    /\ ending' = "drained"
    /\ UNCHANGED <<linkVars, mainPc, buffer, call, hand, offered, traceVars>>

DrainTimesOut ==
    /\ workerPc = "drain"
    /\ workerPc' = "gone"
    /\ ending' = "timedOut"
    /\ UNCHANGED <<linkVars, mainPc, buffer, call, hand, offered, traceVars>>

-----------------------------------------------------------------------------
(* Disconnect.                                                             *)

CloseDone ==
    /\ mainPc = "running"
    /\ mainPc' = "closing"
    /\ UNCHANGED <<linkVars, buffer, call, workVars, offered, traceVars>>

WorkerAwaited == mainPc = "closing" /\ workerPc = "gone"

\* wg.Wait, then the client and the flag.
DisconnectReturns ==
    /\ WorkerAwaited
    /\ mainPc' = "stopped"
    /\ link' = FALSE
    /\ connected' = FALSE
    /\ UNCHANGED <<breaks, buffer, call, workVars, offered, traceVars>>

-----------------------------------------------------------------------------
Connection == LinkBreaks \/ LinkReturns \/ FlagFollows
Returns(g) == PublishReturns(g) \/ Buffered(g) \/ BufferFull(g) \/ DropOldest(g) \/ GiveUp(g)
Worker == \/ TakeMessage \/ SeeDone \/ PublishBuffered \/ Rebuffer \/ BackoffEnds
          \/ LeaveInBackoff \/ BufferedPublishEnds \/ DrainMessage \/ FlushMessage
          \/ DiscardMessage \/ DrainEnds \/ DrainTimesOut

\* Nothing is left to do.
Idle ==
    /\ mainPc \in {"running", "stopped"}
    /\ workerPc \in {"select", "gone"}
    /\ workerPc = "select" => buffer = <<>>
    /\ \A g \in Producers : call[g] = NoCall
    /\ UNCHANGED vars

Next == \/ Connection \/ CloseDone \/ DisconnectReturns \/ Worker \/ Idle
        \/ \E g \in Producers : Publish(g) \/ Returns(g)

\* Goroutines are scheduled, the client reconnects and runs its callbacks.
\* Nothing makes the pollers publish or main disconnect.
Fairness ==
    /\ WF_vars(LinkReturns) /\ WF_vars(FlagFollows)
    /\ WF_vars(Worker) /\ WF_vars(DisconnectReturns)
    /\ \A g \in Producers : WF_vars(Returns(g))

Spec == Init /\ [][Next]_vars /\ Fairness

-----------------------------------------------------------------------------
(* Properties.                                                             *)

\* Every variable has its type.
TypeOK ==
    /\ link \in BOOLEAN /\ connected \in BOOLEAN /\ breaks \in 0..Breaks
    /\ mainPc \in {"running", "closing", "stopped"}
    /\ buffer \in Seq(Points) /\ Len(buffer) <= BufferSize
    /\ call \in [Producers -> [pc : {"idle", "publish", "buffer", "full", "retry"},
                               point : Points \cup {Nothing}]]
    /\ workerPc \in {"select", "taken", "publish", "backoff", "drain", "drained",
                     "flush", "gone"}
    /\ hand \in Points \cup {Nothing}
    /\ ending \in {"none", "drained", "timedOut", "inBackoff"}
    /\ offered \in 0..MaxPoints
    /\ fate \in [Points -> Fates]
    /\ handed \in Seq(Points) /\ tracked \in Seq(Topics)

Homes(p) == {<<"buffer", i>> : i \in {j \in 1..Len(buffer) : buffer[j] = p}}
            \cup {<<"call", g>> : g \in {h \in Producers : call[h].point = p}}
            \cup {<<"worker", w>> : w \in {hand} \cap {p}}

\* No point is lost or doubled between the goroutines: until its fate is settled
\* it is in exactly one place, afterwards in none, although the buffer rotates,
\* overflows and is drained meanwhile.
PointHasOneHome ==
    \A p \in Points :
        /\ fate[p] = "open" => \E h \in Homes(p) : Homes(p) = {h}
        /\ fate[p] # "open" => Homes(p) = {}

\* A point is given to the MQTT client once: a point put back in the buffer has
\* not been given to it, and a failed publication is not repeated.
HandedOverOnce ==
    /\ \A i, j \in 1..Len(handed) : handed[i] = handed[j] => i = j
    /\ \A i \in 1..Len(handed), j \in 1..Len(buffer) : handed[i] # buffer[j]

\* The statistics of topics forget only when they must: they list a topic once,
\* and if they miss a published one they are filled to the eviction's mark.
TopicsForgottenWhenFull ==
    /\ \A i, j \in 1..Len(tracked) : tracked[i] = tracked[j] => i = j
    /\ (\E p \in Points : fate[p] = "published" /\ \A i \in 1..Len(tracked) : tracked[i] # TopicOf[p])
          => Len(tracked) \in (MaxTopics - EvictCount + 1)..MaxTopics

\* The safety of the buffer: types, homes and the statistics.
BufferSafe == TypeOK /\ PointHasOneHome /\ TopicsForgottenWhenFull

\* A point in the buffer is published or dropped once the connection stays, also
\* by Disconnect, unless the goroutine that publishes runs out of time or leaves
\* in a backoff.
InBuffer(p) == \E i \in 1..Len(buffer) : buffer[i] = p
BufferedPointsSettle ==
    \A p \in Points : InBuffer(p) /\ workerPc # "gone"
                         ~> fate[p] # "open" \/ ending \in {"timedOut", "inBackoff"}

\* Disconnect returns, whatever the connection and the producers do.
DisconnectEnds == mainPc = "closing" ~> mainPc = "stopped"
=============================================================================
