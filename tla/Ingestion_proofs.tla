-------------------------- MODULE Ingestion_proofs --------------------------
(***************************************************************************)
(* Proofs about the data-ingestion service.  About Ingestion, for every    *)
(* number of points, buffer size, batch size and set of writers: type      *)
(* correctness, the order in which the batch channel is closed, that a     *)
(* clean stop leaves nothing in the pipeline, that each point has one      *)
(* home, and that the pipeline implements PointDelivery.                   *)
(*                                                                         *)
(* About DbWriter, for every set of callers, number of retries and breaker *)
(* setting, with COPY and with INSERT: type correctness, which bounds how  *)
(* often the rows of one batch are committed, and the honesty of           *)
(* WriteBatch's result.                                                    *)
(***************************************************************************)
EXTENDS Ingestion, DbWriter, FiniteSetTheorems, TLAPS

\* NoPoint is not a point.
LEMMA PointsFacts ==
    /\ NoPoint \notin Points
    /\ \A n \in 0 .. MaxPoints : n < MaxPoints => n + 1 \in Points /\ n + 1 \in 0 .. MaxPoints
  BY IngestionAssumption DEF NoPoint, Points

\* What the channel operations keep: their element type.
LEMMA ChannelTypes ==
  ASSUME NEW S, NEW q \in Seq(S)
  PROVE  /\ \A x \in S : Append(q, x) \in Seq(S)
         /\ q # <<>> => Head(q) \in S /\ Tail(q) \in Seq(S)
  OBVIOUS

\* The initial states, before main has started anything, have the types.
LEMMA InitType == Init => TypeOK
  <1> SUFFICES ASSUME Init PROVE TypeOK
    OBVIOUS
  <1> USE DEF Init
  <1>1. /\ mainPc \in MainPcs
        /\ accPc \in AccPcs
        /\ writerPc \in [Writers -> WriterPcs]
    BY DEF MainPcs, AccPcs, WriterPcs
  <1>2. /\ pointsReceived \in 0 .. MaxPoints
        /\ accPoint \in Points \union {NoPoint}
    BY IngestionAssumption
  <1>3. /\ pointsChan \in Seq(Points)
        /\ batchChan \in Seq(PointSet)
    OBVIOUS
  <1>4. /\ handlers \in PointSet
        /\ dropped \in PointSet
        /\ discarded \in PointSet
        /\ currentBatch \in PointSet
        /\ flushing \in PointSet
        /\ written \in PointSet
        /\ failed \in PointSet
        /\ writerBatch \in [Writers -> PointSet]
    BY DEF PointSet
  <1>5. QED
    BY <1>1, <1>2, <1>3, <1>4 DEF TypeOK

\* TypeOK needs one fact of PipelineInv: a point is at hand when addToBatch runs.
LEMMA NextType == TypeOK /\ PipelineInv /\ [Next]_vars => TypeOK'
  <1> SUFFICES ASSUME TypeOK, PipelineInv, [Next]_vars PROVE TypeOK'
    OBVIOUS
  <1> USE DEF TypeOK, PointSet, mainVars, mqttVars, chanVars, accVars, batchVars,
              writerVars, dbVars
  <1>1. CASE HandleMessage
    BY <1>1, PointsFacts
       DEF HandleMessage
  <1>2. ASSUME NEW p \in Points, SendPoint(p) PROVE TypeOK'
    BY <1>2, ChannelTypes
       DEF SendPoint
  <1>3. ASSUME NEW p \in Points, DropPoint(p) PROVE TypeOK'
    BY <1>3
       DEF DropPoint
  <1>4. ASSUME NEW p \in Points, DiscardPoint(p) PROVE TypeOK'
    BY <1>4
       DEF DiscardPoint
  <1>5. CASE AccReceive
    BY <1>5, ChannelTypes
       DEF AccReceive, AccPcs
  <1>6. CASE AccSeesClose
    BY <1>6
       DEF AccSeesClose, AccPcs
  <1>7. CASE AccAdd
    BY <1>7
       DEF AccAdd, StartFlush, AccPcs, PipelineInv
  <1>8. CASE AccTick
    BY <1>8
       DEF AccTick, StartFlush, AccPcs
  <1>9. CASE AccFinal
    BY <1>9
       DEF AccFinal, StartFlush, AccPcs
  <1>10. CASE FlushSend
    BY <1>10, ChannelTypes
       DEF FlushSend, EndFlush, AccPcs
  <1>11. CASE FlushDirect
    BY <1>11
       DEF FlushDirect, AccPcs
  <1>12. ASSUME NEW ok \in BOOLEAN, DirectReturns(ok) PROVE TypeOK'
    BY <1>12
       DEF DirectReturns, Outcome, EndFlush, AccPcs
  <1>13. CASE AccClose
    BY <1>13
       DEF AccClose, AccPcs
  <1>14. ASSUME NEW w \in Writers, WriterTake(w) PROVE TypeOK'
    BY <1>14, ChannelTypes
       DEF WriterTake, WriterPcs
  <1>15. ASSUME NEW w \in Writers, NEW ok \in BOOLEAN, WriterReturns(w, ok) PROVE TypeOK'
    BY <1>15
       DEF WriterReturns, Outcome, WriterPcs
  <1>16. ASSUME NEW w \in Writers, WriterExits(w) PROVE TypeOK'
    BY <1>16
       DEF WriterExits, WriterPcs
  <1>17. CASE Connect
    BY <1>17
       DEF Connect, MainStep, MainPcs
  <1>18. CASE ConnectFails
    BY <1>18
       DEF ConnectFails, MainStep, MainPcs
  <1>19. CASE CreateBatcher
    BY <1>19
       DEF CreateBatcher, MainStep, MainPcs
  <1>20. CASE StartBatcher
    BY <1>20
       DEF StartBatcher, MainStep, AccPcs, WriterPcs, MainPcs
  <1>21. CASE Signal
    BY <1>21
       DEF Signal, MainStep, MainPcs
  <1>22. CASE SetShutdownFlag
    BY <1>22
       DEF SetShutdownFlag, MainStep, MainPcs
  <1>23. CASE Disconnect
    BY <1>23
       DEF Disconnect, MainStep, MainPcs
  <1>24. CASE ClosePoints
    BY <1>24
       DEF ClosePoints, MainStep, MainPcs
  <1>25. CASE BatcherStop
    BY <1>25
       DEF BatcherStop, MainStep, MainPcs
  <1>26. CASE StopReturns
    BY <1>26
       DEF StopReturns, MainStep, MainPcs
  <1>27. CASE StopTimesOut
    BY <1>27
       DEF StopTimesOut, MainStep, MainPcs
  <1>28. CASE CloseDb
    BY <1>28
       DEF CloseDb, MainStep, MainPcs
  <1>29. CASE Exit
    BY <1>29
       DEF Exit, MainStep, MainPcs
  <1>30. CASE StatusPanics
    BY <1>30
       DEF StatusPanics
  <1>31. CASE UNCHANGED vars
    BY <1>31
       DEF vars
  <1>32. QED
    BY <1>1, <1>2, <1>3, <1>4, <1>5, <1>6, <1>7, <1>8, <1>9,
       <1>10, <1>11, <1>12, <1>13, <1>14, <1>15, <1>16, <1>17,
       <1>18, <1>19, <1>20, <1>21, <1>22, <1>23, <1>24, <1>25,
       <1>26, <1>27, <1>28, <1>29, <1>30, <1>31
    DEF Next, Mqtt, Accumulator, Writer, Main, Exited

-----------------------------------------------------------------------------

\* Before main has started anything, no program counter claims anything.
LEMMA InitPipeline == Init => PipelineInv
  BY DEF Init, PipelineInv, CleanlyStopped, NoPoint

\* Every step of the callbacks, the accumulator, the writers, main and the status
\* server keeps what the program counters say.
LEMMA NextPipeline == TypeOK /\ PipelineInv /\ [Next]_vars => PipelineInv'
  <1> SUFFICES ASSUME TypeOK, PipelineInv, [Next]_vars PROVE PipelineInv'
    OBVIOUS
  <1> USE PointsFacts DEF PipelineInv, TypeOK, CleanlyStopped, GoroutinesDone, mainVars, mqttVars,
              chanVars, accVars, batchVars, writerVars, dbVars
  <1>1. CASE HandleMessage
    BY <1>1, PointsFacts
       DEF HandleMessage
  <1>2. ASSUME NEW p \in Points, SendPoint(p) PROVE PipelineInv'
    BY <1>2, ChannelTypes
       DEF SendPoint
  <1>3. ASSUME NEW p \in Points, DropPoint(p) PROVE PipelineInv'
    BY <1>3
       DEF DropPoint
  <1>4. ASSUME NEW p \in Points, DiscardPoint(p) PROVE PipelineInv'
    BY <1>4
       DEF DiscardPoint
  <1>5. CASE AccReceive
    BY <1>5, ChannelTypes
       DEF AccReceive, AccPcs
  <1>6. CASE AccSeesClose
    BY <1>6
       DEF AccSeesClose, AccPcs
  <1>7. CASE AccAdd
    BY <1>7
       DEF AccAdd, StartFlush, AccPcs
  <1>8. CASE AccTick
    BY <1>8
       DEF AccTick, StartFlush, AccPcs
  <1>9. CASE AccFinal
    BY <1>9
       DEF AccFinal, StartFlush, AccPcs
  <1>10. CASE FlushSend
    BY <1>10, ChannelTypes
       DEF FlushSend, EndFlush, AccPcs
  <1>11. CASE FlushDirect
    BY <1>11
       DEF FlushDirect, AccPcs
  <1>12. ASSUME NEW ok \in BOOLEAN, DirectReturns(ok) PROVE PipelineInv'
    BY <1>12
       DEF DirectReturns, Outcome, EndFlush, AccPcs
  <1>13. CASE AccClose
    BY <1>13
       DEF AccClose, AccPcs
  <1>14. ASSUME NEW w \in Writers, WriterTake(w) PROVE PipelineInv'
    BY <1>14, ChannelTypes
       DEF WriterTake, WriterPcs
  <1>15. ASSUME NEW w \in Writers, NEW ok \in BOOLEAN, WriterReturns(w, ok) PROVE PipelineInv'
    BY <1>15
       DEF WriterReturns, Outcome, WriterPcs
  <1>16. ASSUME NEW w \in Writers, WriterExits(w) PROVE PipelineInv'
    BY <1>16
       DEF WriterExits, WriterPcs
  <1>17. CASE Connect
    BY <1>17
       DEF Connect, MainStep
  <1>18. CASE ConnectFails
    BY <1>18
       DEF ConnectFails, MainStep
  <1>19. CASE CreateBatcher
    BY <1>19
       DEF CreateBatcher, MainStep
  <1>20. CASE StartBatcher
    BY <1>20
       DEF StartBatcher, MainStep, AccPcs, WriterPcs
  <1>21. CASE Signal
    BY <1>21
       DEF Signal, MainStep
  <1>22. CASE SetShutdownFlag
    BY <1>22
       DEF SetShutdownFlag, MainStep
  <1>23. CASE Disconnect
    BY <1>23
       DEF Disconnect, MainStep
  <1>24. CASE ClosePoints
    BY <1>24
       DEF ClosePoints, MainStep
  <1>25. CASE BatcherStop
    BY <1>25
       DEF BatcherStop, MainStep
  <1>26. CASE StopReturns
    BY <1>26
       DEF StopReturns, MainStep
  <1>27. CASE StopTimesOut
    BY <1>27
       DEF StopTimesOut, MainStep
  <1>28. CASE CloseDb
    BY <1>28
       DEF CloseDb, MainStep
  <1>29. CASE Exit
    BY <1>29
       DEF Exit, MainStep
  <1>30. CASE StatusPanics
    BY <1>30
       DEF StatusPanics
  <1>31. CASE UNCHANGED vars
    BY <1>31
       DEF vars
  <1>32. QED
    BY <1>1, <1>2, <1>3, <1>4, <1>5, <1>6, <1>7, <1>8, <1>9,
       <1>10, <1>11, <1>12, <1>13, <1>14, <1>15, <1>16, <1>17,
       <1>18, <1>19, <1>20, <1>21, <1>22, <1>23, <1>24, <1>25,
       <1>26, <1>27, <1>28, <1>29, <1>30, <1>31
    DEF Next, Mqtt, Accumulator, Writer, Main, Exited

\* Every variable keeps its type, and what the program counters say holds.
THEOREM PipelineCorrect == Spec => [](TypeOK /\ PipelineInv)
  <1>1. Init => TypeOK /\ PipelineInv
    BY InitType, InitPipeline
  <1>2. TypeOK /\ PipelineInv /\ [Next]_vars => (TypeOK /\ PipelineInv)'
    BY NextType, NextPipeline
  <1>3. QED
    BY <1>1, <1>2, PTL DEF Spec

\* The batch channel is closed last: no send on it and no second close of it
\* can follow, and a writer leaves only a drained channel.
THEOREM ClosedLast == Spec => []BatchChanClosedLast
  <1>1. PipelineInv => BatchChanClosedLast
    BY DEF PipelineInv, BatchChanClosedLast
  <1>2. QED
    BY <1>1, PipelineCorrect, PTL

\* A Stop that returns nil leaves no accepted point in the pipeline.
THEOREM CleanStop == Spec => []CleanStopLeavesNothing
  <1>1. PipelineInv => CleanStopLeavesNothing
    BY IngestionAssumption DEF PipelineInv, CleanStopLeavesNothing, GoroutinesDone
  <1>2. QED
    BY <1>1, PipelineCorrect, PTL

-----------------------------------------------------------------------------
(* One home for each point.  The places of Homes, those on the channels and *)
(* in the writers' hands taken together: a step moves points from one such  *)
(* room to another, or a point arrives.                                     *)

Tags == {"handler", "received", "current", "flushing", "written", "failed",
         "dropped", "discarded", "chan", "queued", "held"}

Rooms == [handler |-> handlers, received |-> {accPoint} \ {NoPoint},
          current |-> currentBatch, flushing |-> flushing,
          written |-> written, failed |-> failed,
          dropped |-> dropped, discarded |-> discarded,
          chan |-> ChanPoints, queued |-> QueuedPoints, held |-> HeldPoints]

Apart(r) == \A s, t \in Tags : s # t => \A p \in r[s] : p \notin r[t]
Inside(r, p) == \E t \in Tags : p \in r[t]

\* No point is in two rooms, in two slots of a channel or in two batches, and the
\* points that are anywhere are those that have arrived.
HomeInv ==
    /\ Apart(Rooms)
    /\ \A p \in Points : Inside(Rooms, p) <=> p <= pointsReceived
    /\ \A i, j \in DOMAIN pointsChan : pointsChan[i] = pointsChan[j] => i = j
    /\ \A i, j \in DOMAIN batchChan : \A p \in batchChan[i] : p \in batchChan[j] => i = j
    /\ \A v, w \in Writers : \A p \in writerBatch[v] : p \in writerBatch[w] => v = w

\* The points of S go from room s to room t.
Moved(r, r2, s, t, S) ==
    /\ S \subseteq r[s]
    /\ r2[s] = r[s] \ S
    /\ r2[t] = r[t] \cup S
    /\ \A u \in Tags : u # s /\ u # t => r2[u] = r[u]

\* Moving keeps the rooms apart and the same points inside.
LEMMA MovedFacts ==
  ASSUME NEW r, NEW r2, NEW s \in Tags, NEW t \in Tags, s # t, NEW S,
         Apart(r), Moved(r, r2, s, t, S)
  PROVE  Apart(r2) /\ \A p : Inside(r2, p) <=> Inside(r, p)
  <1>1. ASSUME NEW u \in Tags, NEW v \in Tags, u # v, NEW p \in r2[u]
        PROVE  p \notin r2[v]
    <2>1. CASE p \in S
      <3>1. \A x \in Tags : p \in r[x] => x = s
        BY <2>1 DEF Moved, Apart
      <3>2. \A x \in Tags : p \in r2[x] => x = t
        BY <2>1, <3>1 DEF Moved
      <3>3. QED
        BY <1>1, <3>2
    <2>2. CASE p \notin S
      <3>1. \A x \in Tags : p \in r2[x] => p \in r[x]
        BY <2>2 DEF Moved
      <3>2. QED
        BY <1>1, <3>1 DEF Apart
    <2>3. QED
      BY <2>1, <2>2
  <1>2. ASSUME NEW p PROVE Inside(r2, p) <=> Inside(r, p)
    <2>1. CASE p \in S
      BY <2>1 DEF Moved, Inside
    <2>2. CASE p \notin S
      <3>1. \A x \in Tags : p \in r2[x] <=> p \in r[x]
        BY <2>2 DEF Moved
      <3>2. QED
        BY <3>1 DEF Inside
    <2>3. QED
      BY <2>1, <2>2
  <1>3. QED
    BY <1>1, <1>2 DEF Apart

\* The slots of a channel after a send ...
LEMMA SendSlots ==
  ASSUME NEW S, NEW q \in Seq(S), NEW x \in S
  PROVE  /\ DOMAIN Append(q, x) = DOMAIN q \cup {Len(q) + 1}
         /\ Len(q) + 1 \notin DOMAIN q
         /\ \A i \in DOMAIN q : Append(q, x)[i] = q[i]
         /\ Append(q, x)[Len(q) + 1] = x
  OBVIOUS

\* ... and after a receive.
LEMMA ReceiveSlots ==
  ASSUME NEW S, NEW q \in Seq(S), q # <<>>
  PROVE  /\ 1 \in DOMAIN q /\ q[1] = Head(q)
         /\ \A i \in DOMAIN Tail(q) : i \in Nat /\ i # 0 /\ i + 1 \in DOMAIN q /\ Tail(q)[i] = q[i + 1]
         /\ \A i \in DOMAIN q : i \in Nat /\ (i # 1 => i - 1 \in DOMAIN Tail(q) /\ Tail(q)[i - 1] = q[i])
  OBVIOUS

\* The rooms of the state, one by one.
LEMMA RoomFacts ==
  /\ Rooms["handler"] = handlers
  /\ Rooms["received"] = {accPoint} \ {NoPoint}
  /\ Rooms["current"] = currentBatch
  /\ Rooms["flushing"] = flushing
  /\ Rooms["written"] = written
  /\ Rooms["failed"] = failed
  /\ Rooms["dropped"] = dropped
  /\ Rooms["discarded"] = discarded
  /\ Rooms["chan"] = ChanPoints
  /\ Rooms["queued"] = QueuedPoints
  /\ Rooms["held"] = HeldPoints
  BY DEF Rooms

\* What a step that touches neither channel nor a writer leaves as it was.
Elsewhere == <<pointsChan, batchChan, writerBatch>>

\* A step that moves points between two rooms keeps the invariant, when it keeps
\* channels and batches free of doubles.
LEMMA MoveStep ==
  ASSUME HomeInv, pointsReceived' = pointsReceived,
         NEW s \in Tags, NEW t \in Tags, s # t, NEW S, Moved(Rooms, Rooms', s, t, S),
         \A i, j \in DOMAIN pointsChan' : pointsChan'[i] = pointsChan'[j] => i = j,
         \A i, j \in DOMAIN batchChan' : \A p \in batchChan'[i] : p \in batchChan'[j] => i = j,
         \A v, w \in Writers : \A p \in writerBatch'[v] : p \in writerBatch'[w] => v = w
  PROVE  HomeInv'
  <1>1. Apart(Rooms') /\ \A p : Inside(Rooms', p) <=> Inside(Rooms, p)
    BY MovedFacts DEF HomeInv
  <1>2. Apart(Rooms)' /\ \A p : Inside(Rooms, p)' <=> Inside(Rooms', p)
    BY <1>1 DEF Apart, Inside
  <1>3. QED
    BY <1>1, <1>2 DEF HomeInv

\* The same for a step away from channels and writers.
LEMMA QuietMoveStep ==
  ASSUME HomeInv, pointsReceived' = pointsReceived, UNCHANGED Elsewhere,
         NEW s \in Tags, NEW t \in Tags, s # t, NEW S, Moved(Rooms, Rooms', s, t, S)
  PROVE  HomeInv'
  <1>1. pointsChan' = pointsChan /\ batchChan' = batchChan /\ writerBatch' = writerBatch
    BY DEF Elsewhere
  <1>2. QED
    BY <1>1, MoveStep DEF HomeInv

\* A message arrives in its callback's hands.
LEMMA ArriveStep == TypeOK /\ HomeInv /\ HandleMessage => HomeInv'
  <1> SUFFICES ASSUME TypeOK, HomeInv, HandleMessage PROVE HomeInv'
    OBVIOUS
  <1> DEFINE q == pointsReceived + 1
  <1>1. /\ q \in Points /\ handlers' = handlers \cup {q} /\ pointsReceived' = q
        /\ \A p \in Points : p <= q <=> p <= pointsReceived \/ p = q
        /\ ~(q <= pointsReceived)
    BY PointsFacts, IngestionAssumption DEF HandleMessage, TypeOK, Points
  <1>2. UNCHANGED <<Elsewhere, accPoint, currentBatch, flushing, written, failed, dropped, discarded>>
    BY DEF HandleMessage, Elsewhere, chanVars, accVars, batchVars, writerVars, dbVars
  <1>3. ChanPoints' = ChanPoints /\ QueuedPoints' = QueuedPoints /\ HeldPoints' = HeldPoints
    BY <1>2 DEF Elsewhere, ChanPoints, QueuedPoints, HeldPoints
  <1>4. /\ Rooms'["handler"] = Rooms["handler"] \cup {q}
        /\ \A t \in Tags : t # "handler" => Rooms'[t] = Rooms[t]
    BY <1>1, <1>2, <1>3 DEF Rooms, Tags
  <1>5. \A t \in Tags : q \notin Rooms[t]
    BY <1>1 DEF HomeInv, Inside
  <1>6. "handler" \in Tags
    BY DEF Tags
  <1>7. Apart(Rooms')
    BY <1>4, <1>5 DEF Apart, HomeInv
  <1>8. \A p \in Points : Inside(Rooms', p) <=> p <= q
    <2> SUFFICES ASSUME NEW p \in Points PROVE Inside(Rooms', p) <=> p <= q
      OBVIOUS
    <2>1. Inside(Rooms', p) <=> Inside(Rooms, p) \/ p = q
      BY <1>4, <1>6 DEF Inside
    <2>2. QED
      BY <2>1, <1>1 DEF HomeInv
  <1>9. Apart(Rooms)' /\ \A p : Inside(Rooms, p)' <=> Inside(Rooms', p)
    BY <1>7 DEF Apart, Inside
  <1>10. pointsChan' = pointsChan /\ batchChan' = batchChan /\ writerBatch' = writerBatch
    BY <1>2 DEF Elsewhere
  <1>11. QED
    BY <1>1, <1>8, <1>9, <1>10 DEF HomeInv

\* A callback gives its point to the channel, or it is dropped or discarded.
LEMMA CallbackStep ==
  ASSUME TypeOK, HomeInv, NEW p \in Points,
         SendPoint(p) \/ DropPoint(p) \/ DiscardPoint(p)
  PROVE  HomeInv'
  <1> USE DEF mainVars, mqttVars, chanVars, accVars, batchVars, writerVars, dbVars
  <1>1. CASE SendPoint(p)
    <2>1. /\ p \in handlers /\ handlers' = handlers \ {p}
          /\ pointsChan' = Append(pointsChan, p)
          /\ UNCHANGED <<pointsReceived, accPoint, currentBatch, flushing, written, failed,
                         dropped, discarded, batchChan, writerBatch>>
      BY <1>1 DEF SendPoint
    <2>2. /\ DOMAIN pointsChan' = DOMAIN pointsChan \cup {Len(pointsChan) + 1}
          /\ Len(pointsChan) + 1 \notin DOMAIN pointsChan
          /\ \A i \in DOMAIN pointsChan : pointsChan'[i] = pointsChan[i]
          /\ pointsChan'[Len(pointsChan) + 1] = p
      BY <2>1, SendSlots DEF TypeOK
    <2>3. ChanPoints' = ChanPoints \cup {p}
      BY <2>2 DEF ChanPoints
    <2>4. p \notin ChanPoints
      BY <2>1, RoomFacts DEF HomeInv, Apart, Tags
    <2>5. \A i \in DOMAIN pointsChan : pointsChan[i] # p
      BY <2>4 DEF ChanPoints
    <2>6. QueuedPoints' = QueuedPoints /\ HeldPoints' = HeldPoints
      BY <2>1 DEF QueuedPoints, HeldPoints
    <2>7. Moved(Rooms, Rooms', "handler", "chan", {p})
      BY <2>1, <2>3, <2>6 DEF Moved, Rooms, Tags
    <2>8. \A i, j \in DOMAIN pointsChan' : pointsChan'[i] = pointsChan'[j] => i = j
      BY <2>2, <2>5 DEF HomeInv
    <2>9. QED
      BY <2>1, <2>7, <2>8, MoveStep DEF HomeInv, Tags
  <1>2. CASE DropPoint(p)
    <2>1. /\ p \in handlers /\ handlers' = handlers \ {p}
          /\ dropped' = dropped \cup {p}
          /\ UNCHANGED <<pointsReceived, accPoint, currentBatch, flushing, written, failed,
                         discarded, pointsChan, batchChan, writerBatch>>
      BY <1>2 DEF DropPoint
    <2>2. UNCHANGED <<ChanPoints, QueuedPoints, HeldPoints>>
      BY <2>1 DEF ChanPoints, QueuedPoints, HeldPoints
    <2>3. Moved(Rooms, Rooms', "handler", "dropped", {p})
      BY <2>1, <2>2 DEF Moved, Rooms, Tags
    <2>4. QED
      BY <2>1, <2>3, QuietMoveStep DEF Elsewhere, Tags
  <1>3. CASE DiscardPoint(p)
    <2>1. /\ p \in handlers /\ handlers' = handlers \ {p}
          /\ discarded' = discarded \cup {p}
          /\ UNCHANGED <<pointsReceived, accPoint, currentBatch, flushing, written, failed,
                         dropped, pointsChan, batchChan, writerBatch>>
      BY <1>3 DEF DiscardPoint
    <2>2. UNCHANGED <<ChanPoints, QueuedPoints, HeldPoints>>
      BY <2>1 DEF ChanPoints, QueuedPoints, HeldPoints
    <2>3. Moved(Rooms, Rooms', "handler", "discarded", {p})
      BY <2>1, <2>2 DEF Moved, Rooms, Tags
    <2>4. QED
      BY <2>1, <2>3, QuietMoveStep DEF Elsewhere, Tags
  <1>4. QED
    BY <1>1, <1>2, <1>3

\* The accumulator takes the oldest point of the channel.
LEMMA ReceiveStep == TypeOK /\ PipelineInv /\ HomeInv /\ AccReceive => HomeInv'
  <1> SUFFICES ASSUME TypeOK, PipelineInv, HomeInv, AccReceive PROVE HomeInv'
    OBVIOUS
  <1> DEFINE q == Head(pointsChan)
  <1>1. /\ accPoint = NoPoint /\ accPoint' = q
        /\ pointsChan # <<>> /\ pointsChan' = Tail(pointsChan)
        /\ UNCHANGED <<pointsReceived, handlers, currentBatch, flushing, written, failed,
                       dropped, discarded, batchChan, writerBatch>>
    BY DEF AccReceive, PipelineInv, mainVars, mqttVars, chanVars, accVars, batchVars,
           writerVars, dbVars
  <1>2. q \in Points /\ q # NoPoint
    BY <1>1, PointsFacts, ChannelTypes DEF TypeOK
  <1>3. /\ 1 \in DOMAIN pointsChan /\ pointsChan[1] = q
        /\ \A i \in DOMAIN pointsChan' : /\ i \in Nat /\ i # 0 /\ i + 1 \in DOMAIN pointsChan
                                         /\ pointsChan'[i] = pointsChan[i + 1]
        /\ \A i \in DOMAIN pointsChan :
              i \in Nat /\ (i # 1 => i - 1 \in DOMAIN pointsChan' /\ pointsChan'[i - 1] = pointsChan[i])
    BY <1>1, ReceiveSlots DEF TypeOK
  <1>4. \A i, j \in DOMAIN pointsChan' : pointsChan'[i] = pointsChan'[j] => i = j
    <2> SUFFICES ASSUME NEW i \in DOMAIN pointsChan', NEW j \in DOMAIN pointsChan',
                        pointsChan'[i] = pointsChan'[j]
                 PROVE  i = j
      OBVIOUS
    <2>1. i + 1 = j + 1
      BY <1>3 DEF HomeInv
    <2>2. QED
      BY <1>3, <2>1
  <1>5. ChanPoints' = ChanPoints \ {q}
    <2>1. ASSUME NEW x \in ChanPoints' PROVE x \in ChanPoints \ {q}
      <3>1. PICK i \in DOMAIN pointsChan' : x = pointsChan'[i]
        BY DEF ChanPoints
      <3>2. x = pointsChan[i + 1] /\ i + 1 \in DOMAIN pointsChan /\ i + 1 # 1
        BY <1>3, <3>1
      <3>3. QED
        BY <1>3, <3>2 DEF ChanPoints, HomeInv
    <2>2. ASSUME NEW x \in ChanPoints, x # q PROVE x \in ChanPoints'
      <3>1. PICK i \in DOMAIN pointsChan : x = pointsChan[i]
        BY DEF ChanPoints
      <3>2. i - 1 \in DOMAIN pointsChan' /\ pointsChan'[i - 1] = x
        BY <1>3, <2>2, <3>1
      <3>3. QED
        BY <3>2 DEF ChanPoints
    <2>3. QED
      BY <2>1, <2>2
  <1>6. q \in ChanPoints
    BY <1>3 DEF ChanPoints
  <1>7. QueuedPoints' = QueuedPoints /\ HeldPoints' = HeldPoints
    BY <1>1 DEF QueuedPoints, HeldPoints
  <1>8. Moved(Rooms, Rooms', "chan", "received", {q})
    BY <1>1, <1>2, <1>5, <1>6, <1>7 DEF Moved, Rooms, Tags
  <1>9. QED
    BY <1>1, <1>4, <1>8, MoveStep DEF HomeInv, Tags

\* The accumulator adds its point to the batch, which may start the flush.
LEMMA AddStep == TypeOK /\ PipelineInv /\ HomeInv /\ AccAdd => HomeInv'
  <1> SUFFICES ASSUME TypeOK, PipelineInv, HomeInv, AccAdd PROVE HomeInv'
    OBVIOUS
  <1> DEFINE q == accPoint
             batch == currentBatch \cup {q}
             m == [Rooms EXCEPT !["received"] = {}, !["current"] = batch]
  <1>1. /\ accPoint # NoPoint /\ accPoint' = NoPoint /\ flushing = {}
        /\ UNCHANGED <<pointsReceived, handlers, written, failed,
                       dropped, discarded, pointsChan, batchChan, writerBatch>>
    BY DEF AccAdd, PipelineInv, mainVars, mqttVars, chanVars, accVars, batchVars,
           writerVars, dbVars
  <1>2. UNCHANGED <<ChanPoints, QueuedPoints, HeldPoints>>
    BY <1>1 DEF ChanPoints, QueuedPoints, HeldPoints
  <1>3. CASE currentBatch' = batch /\ UNCHANGED flushing
    <2>1. Moved(Rooms, Rooms', "received", "current", {q})
      BY <1>1, <1>2, <1>3 DEF Moved, Rooms, Tags
    <2>2. QED
      BY <1>1, <2>1, QuietMoveStep DEF Elsewhere, Tags
  <1>4. CASE currentBatch' = {} /\ flushing' = batch
    <2>1. Moved(Rooms, m, "received", "current", {q})
      BY <1>1 DEF Moved, Rooms, Tags
    <2>2. Apart(m) /\ \A p : Inside(m, p) <=> Inside(Rooms, p)
      BY <2>1, MovedFacts DEF HomeInv, Tags
    <2>3. Moved(m, Rooms', "current", "flushing", batch)
      BY <1>1, <1>2, <1>4 DEF Moved, Rooms, Tags
    <2>4. Apart(Rooms') /\ \A p : Inside(Rooms', p) <=> Inside(m, p)
      BY <2>2, <2>3, MovedFacts DEF Tags
    <2>5. Apart(Rooms)' /\ \A p : Inside(Rooms, p)' <=> Inside(Rooms', p)
      BY <2>4 DEF Apart, Inside
    <2>6. QED
      BY <1>1, <2>2, <2>4, <2>5 DEF HomeInv
  <1>5. QED
    BY <1>3, <1>4 DEF AccAdd, StartFlush

\* flush() takes the whole current batch.
LEMMA FlushStep == TypeOK /\ PipelineInv /\ HomeInv /\ (AccTick \/ AccFinal) => HomeInv'
  <1> SUFFICES ASSUME TypeOK, PipelineInv, HomeInv, AccTick \/ AccFinal PROVE HomeInv'
    OBVIOUS
  <1>1. /\ flushing = {}
        /\ UNCHANGED <<pointsReceived, handlers, accPoint, written, failed,
                       dropped, discarded, pointsChan, batchChan, writerBatch>>
        /\ \/ currentBatch' = {} /\ flushing' = currentBatch
           \/ UNCHANGED <<currentBatch, flushing>>
    BY DEF AccTick, AccFinal, StartFlush, PipelineInv, mainVars, mqttVars, chanVars, accVars,
           batchVars, writerVars, dbVars
  <1>2. UNCHANGED <<ChanPoints, QueuedPoints, HeldPoints>>
    BY <1>1 DEF ChanPoints, QueuedPoints, HeldPoints
  <1>3. Moved(Rooms, Rooms', "current", "flushing", currentBatch) \/
        Moved(Rooms, Rooms', "current", "flushing", {})
    BY <1>1, <1>2 DEF Moved, Rooms, Tags
  <1>4. QED
    BY <1>1, <1>3, QuietMoveStep DEF Elsewhere, Tags

\* flush() puts the batch in the batch channel.
LEMMA SendBatchStep == TypeOK /\ HomeInv /\ FlushSend => HomeInv'
  <1> SUFFICES ASSUME TypeOK, HomeInv, FlushSend PROVE HomeInv'
    OBVIOUS
  <1>1. /\ flushing' = {} /\ batchChan' = Append(batchChan, flushing)
        /\ UNCHANGED <<pointsReceived, handlers, accPoint, currentBatch, written, failed,
                       dropped, discarded, pointsChan, writerBatch>>
    BY DEF FlushSend, EndFlush, mainVars, mqttVars, chanVars, writerVars, dbVars
  <1>2. /\ DOMAIN batchChan' = DOMAIN batchChan \cup {Len(batchChan) + 1}
        /\ Len(batchChan) + 1 \notin DOMAIN batchChan
        /\ \A i \in DOMAIN batchChan : batchChan'[i] = batchChan[i]
        /\ batchChan'[Len(batchChan) + 1] = flushing
    BY <1>1, SendSlots DEF TypeOK
  <1>3. QueuedPoints' = QueuedPoints \cup flushing
    BY <1>2 DEF QueuedPoints
  <1>4. \A p \in flushing : p \notin QueuedPoints
    BY RoomFacts DEF HomeInv, Apart, Tags
  <1>5. \A i \in DOMAIN batchChan : \A p \in batchChan[i] : p \notin flushing
    BY <1>4 DEF QueuedPoints
  <1>6. \A i, j \in DOMAIN batchChan' : \A p \in batchChan'[i] : p \in batchChan'[j] => i = j
    BY <1>2, <1>5 DEF HomeInv
  <1>7. UNCHANGED <<ChanPoints, HeldPoints>>
    BY <1>1 DEF ChanPoints, HeldPoints
  <1>8. Moved(Rooms, Rooms', "flushing", "queued", flushing)
    BY <1>1, <1>3, <1>7 DEF Moved, Rooms, Tags
  <1>9. QED
    BY <1>1, <1>6, <1>8, MoveStep DEF HomeInv, Tags

\* The accumulator's own WriteBatch returns.
LEMMA DirectStep ==
  ASSUME TypeOK, HomeInv, NEW ok \in BOOLEAN, DirectReturns(ok)
  PROVE  HomeInv'
  <1>1. /\ flushing' = {}
        /\ UNCHANGED <<pointsReceived, handlers, accPoint, currentBatch,
                       dropped, discarded, pointsChan, batchChan, writerBatch>>
        /\ \/ written' = written \cup flushing /\ failed' = failed
           \/ failed' = failed \cup flushing /\ written' = written
    BY DEF DirectReturns, Outcome, EndFlush, mainVars, mqttVars, chanVars, batchVars, writerVars
  <1>2. UNCHANGED <<ChanPoints, QueuedPoints, HeldPoints>>
    BY <1>1 DEF ChanPoints, QueuedPoints, HeldPoints
  <1>3. \/ Moved(Rooms, Rooms', "flushing", "written", flushing)
        \/ Moved(Rooms, Rooms', "flushing", "failed", flushing)
    BY <1>1, <1>2 DEF Moved, Rooms, Tags
  <1>4. QED
    BY <1>1, <1>3, QuietMoveStep DEF Elsewhere, Tags

\* A writer takes the oldest batch.
LEMMA TakeStep ==
  ASSUME TypeOK, PipelineInv, HomeInv, NEW w \in Writers, WriterTake(w)
  PROVE  HomeInv'
  <1> DEFINE batch == Head(batchChan)
  <1>1. /\ batchChan # <<>> /\ batchChan' = Tail(batchChan)
        /\ writerBatch[w] = {}
        /\ writerBatch' = [writerBatch EXCEPT ![w] = batch]
        /\ UNCHANGED <<pointsReceived, handlers, accPoint, currentBatch, flushing, written, failed,
                       dropped, discarded, pointsChan>>
    BY DEF WriterTake, PipelineInv, mainVars, mqttVars, chanVars, accVars, dbVars
  <1>2. /\ 1 \in DOMAIN batchChan /\ batchChan[1] = batch
        /\ \A i \in DOMAIN batchChan' : /\ i \in Nat /\ i # 0 /\ i + 1 \in DOMAIN batchChan
                                        /\ batchChan'[i] = batchChan[i + 1]
        /\ \A i \in DOMAIN batchChan :
              i \in Nat /\ (i # 1 => i - 1 \in DOMAIN batchChan' /\ batchChan'[i - 1] = batchChan[i])
    BY <1>1, ReceiveSlots DEF TypeOK
  <1>3. \A i, j \in DOMAIN batchChan' : \A p \in batchChan'[i] : p \in batchChan'[j] => i = j
    <2> SUFFICES ASSUME NEW i \in DOMAIN batchChan', NEW j \in DOMAIN batchChan',
                        NEW p \in batchChan'[i], p \in batchChan'[j]
                 PROVE  i = j
      OBVIOUS
    <2>1. i + 1 = j + 1
      BY <1>2 DEF HomeInv
    <2>2. QED
      BY <1>2, <2>1
  <1>4. QueuedPoints' = QueuedPoints \ batch
    <2>1. ASSUME NEW x \in QueuedPoints' PROVE x \in QueuedPoints \ batch
      <3>1. PICK i \in DOMAIN batchChan' : x \in batchChan'[i]
        BY DEF QueuedPoints
      <3>2. x \in batchChan[i + 1] /\ i + 1 \in DOMAIN batchChan /\ i + 1 # 1
        BY <1>2, <3>1
      <3>3. QED
        BY <1>2, <3>2 DEF QueuedPoints, HomeInv
    <2>2. ASSUME NEW x \in QueuedPoints, x \notin batch PROVE x \in QueuedPoints'
      <3>1. PICK i \in DOMAIN batchChan : x \in batchChan[i]
        BY DEF QueuedPoints
      <3>2. i - 1 \in DOMAIN batchChan' /\ x \in batchChan'[i - 1]
        BY <1>2, <2>2, <3>1
      <3>3. QED
        BY <3>2 DEF QueuedPoints
    <2>3. QED
      BY <2>1, <2>2
  <1>5. batch \subseteq QueuedPoints
    BY <1>2 DEF QueuedPoints
  <1>6. /\ writerBatch'[w] = batch
        /\ \A v \in Writers : v # w => writerBatch'[v] = writerBatch[v]
    BY <1>1 DEF TypeOK
  <1>7. HeldPoints' = HeldPoints \cup batch
    BY <1>1, <1>6 DEF HeldPoints
  <1>8. \A p \in batch : p \notin HeldPoints
    BY <1>5, RoomFacts DEF HomeInv, Apart, Tags
  <1>9. \A v \in Writers : \A p \in writerBatch[v] : p \notin batch
    BY <1>8 DEF HeldPoints
  <1>10. \A u, v \in Writers : \A p \in writerBatch'[u] : p \in writerBatch'[v] => u = v
    BY <1>6, <1>9 DEF HomeInv
  <1>11. UNCHANGED ChanPoints
    BY <1>1 DEF ChanPoints
  <1>12. Moved(Rooms, Rooms', "queued", "held", batch)
    BY <1>1, <1>4, <1>5, <1>7, <1>11 DEF Moved, Rooms, Tags
  <1>13. QED
    BY <1>1, <1>3, <1>10, <1>12, MoveStep DEF HomeInv, Tags

\* A writer's WriteBatch returns.
LEMMA ReturnStep ==
  ASSUME TypeOK, HomeInv, NEW w \in Writers, NEW ok \in BOOLEAN, WriterReturns(w, ok)
  PROVE  HomeInv'
  <1> DEFINE batch == writerBatch[w]
  <1>1. /\ writerBatch' = [writerBatch EXCEPT ![w] = {}]
        /\ UNCHANGED <<pointsReceived, handlers, accPoint, currentBatch, flushing,
                       dropped, discarded, pointsChan, batchChan>>
        /\ \/ written' = written \cup batch /\ failed' = failed
           \/ failed' = failed \cup batch /\ written' = written
    BY DEF WriterReturns, Outcome, mainVars, mqttVars, chanVars, accVars, batchVars
  <1>2. /\ writerBatch'[w] = {}
        /\ \A v \in Writers : v # w => writerBatch'[v] = writerBatch[v]
    BY <1>1 DEF TypeOK
  <1>3. HeldPoints' = HeldPoints \ batch
    <2>1. ASSUME NEW x \in HeldPoints' PROVE x \in HeldPoints \ batch
      <3>1. PICK v \in Writers : x \in writerBatch'[v]
        BY DEF HeldPoints
      <3>2. v # w /\ x \in writerBatch[v]
        BY <1>2, <3>1
      <3>3. QED
        BY <3>2 DEF HeldPoints, HomeInv
    <2>2. ASSUME NEW x \in HeldPoints, x \notin batch PROVE x \in HeldPoints'
      <3>1. PICK v \in Writers : x \in writerBatch[v]
        BY DEF HeldPoints
      <3>2. v # w
        BY <2>2, <3>1
      <3>3. QED
        BY <1>2, <3>1, <3>2 DEF HeldPoints
    <2>3. QED
      BY <2>1, <2>2
  <1>4. batch \subseteq HeldPoints
    BY DEF HeldPoints
  <1>5. UNCHANGED <<ChanPoints, QueuedPoints>>
    BY <1>1 DEF ChanPoints, QueuedPoints
  <1>6. \A u, v \in Writers : \A p \in writerBatch'[u] : p \in writerBatch'[v] => u = v
    BY <1>2 DEF HomeInv
  <1>7. \/ Moved(Rooms, Rooms', "held", "written", batch)
        \/ Moved(Rooms, Rooms', "held", "failed", batch)
    BY <1>1, <1>3, <1>4, <1>5 DEF Moved, Rooms, Tags
  <1>8. QED
    BY <1>1, <1>6, <1>7, MoveStep DEF HomeInv, Tags

\* Every step keeps it; the others touch no point.
LEMMA NextHome == TypeOK /\ PipelineInv /\ HomeInv /\ [Next]_vars => HomeInv'
  <1> SUFFICES ASSUME TypeOK, PipelineInv, HomeInv, [Next]_vars PROVE HomeInv'
    OBVIOUS
  <1> USE DEF mainVars, mqttVars, chanVars, accVars, batchVars, writerVars, dbVars
  <1> DEFINE Still == UNCHANGED <<pointsReceived, handlers, accPoint, currentBatch, flushing,
                                  written, failed, dropped, discarded, pointsChan, batchChan,
                                  writerBatch>>
  <1>1. CASE Still
    <2>1. UNCHANGED <<ChanPoints, QueuedPoints, HeldPoints>>
      BY <1>1 DEF ChanPoints, QueuedPoints, HeldPoints
    <2>2. Rooms' = Rooms
      BY <1>1, <2>1 DEF Rooms
    <2>3. QED
      BY <1>1, <2>2 DEF HomeInv, Apart, Inside
  <1>2. CASE AccSeesClose \/ FlushDirect \/ AccClose \/ StatusPanics \/ UNCHANGED vars
    <2>1. Still
      BY <1>2 DEF AccSeesClose, FlushDirect, AccClose, StatusPanics, vars
    <2>2. QED
      BY <1>1, <2>1
  <1>3. CASE Main
    <2>1. Still
      BY <1>3 DEF Main, Connect, ConnectFails, CreateBatcher, StartBatcher, Signal, SetShutdownFlag,
                  Disconnect, ClosePoints, BatcherStop, StopReturns, StopTimesOut, CloseDb, Exit
    <2>2. QED
      BY <1>1, <2>1
  <1>4. ASSUME NEW w \in Writers, WriterExits(w) PROVE HomeInv'
    <2>1. Still
      BY <1>4 DEF WriterExits
    <2>2. QED
      BY <1>1, <2>1
  <1>5. CASE Mqtt
    BY <1>5, ArriveStep, CallbackStep DEF Mqtt
  <1>6. CASE Accumulator
    BY <1>2, <1>6, ReceiveStep, AddStep, FlushStep, SendBatchStep, DirectStep DEF Accumulator
  <1>7. ASSUME NEW w \in Writers, Writer(w) PROVE HomeInv'
    BY <1>4, <1>7, TakeStep, ReturnStep DEF Writer
  <1>8. QED
    BY <1>2, <1>3, <1>5, <1>6, <1>7 DEF Next, Exited

\* Nothing has arrived.
LEMMA InitHome == Init => HomeInv
  <1> SUFFICES ASSUME Init PROVE HomeInv
    OBVIOUS
  <1>1. ChanPoints = {} /\ QueuedPoints = {} /\ HeldPoints = {}
    BY DEF Init, ChanPoints, QueuedPoints, HeldPoints
  <1>2. \A t \in Tags : Rooms[t] = {}
    BY <1>1 DEF Init, Rooms, Tags
  <1>3. \A p \in Points : ~(p <= 0)
    BY IngestionAssumption DEF Points
  <1>4. QED
    BY <1>2, <1>3 DEF Init, HomeInv, Apart, Inside

\* What Homes says of a point, room by room.
LEMMA HomesByRoom ==
  ASSUME HomeInv, NEW p \in Points
  PROVE  /\ ~Inside(Rooms, p) => Homes(p) = {}
         /\ Inside(Rooms, p) => \E h : Homes(p) = {h}
  <1> DEFINE static == {pl \in DOMAIN Places : p \in Places[pl]}
             inChan == {j \in DOMAIN pointsChan : pointsChan[j] = p}
             inBatches == {j \in DOMAIN batchChan : p \in batchChan[j]}
             atWriters == {v \in Writers : p \in writerBatch[v]}
  <1>1. Homes(p) = {<<h, 0>> : h \in static}
                   \union {<<"pointsChan", i>> : i \in inChan}
                   \union {<<"batchChan", i>> : i \in inBatches}
                   \union {<<"writer", w>> : w \in atWriters}
    BY DEF Homes
  <1> HIDE DEF static, inChan, inBatches, atWriters
  <1>2. \A t : t \in static <=> t \in Tags \ {"chan", "queued", "held"} /\ p \in Rooms[t]
    BY PointsFacts DEF static, Places, Rooms, Tags
  <1>3. /\ p \in Rooms["chan"] <=> inChan # {}
        /\ p \in Rooms["queued"] <=> inBatches # {}
        /\ p \in Rooms["held"] <=> atWriters # {}
    BY RoomFacts DEF inChan, inBatches, atWriters, ChanPoints, QueuedPoints, HeldPoints
  <1>4. /\ \A i, j \in inChan : i = j
        /\ \A i, j \in inBatches : i = j
        /\ \A v, w \in atWriters : v = w
    BY DEF HomeInv, inChan, inBatches, atWriters
  <1>5. ASSUME ~Inside(Rooms, p) PROVE Homes(p) = {}
    <2>1. static = {} /\ inChan = {} /\ inBatches = {} /\ atWriters = {}
      BY <1>2, <1>3, <1>5 DEF Inside, Tags
    <2>2. QED
      BY <1>1, <2>1
  <1>6. ASSUME Inside(Rooms, p) PROVE \E h : Homes(p) = {h}
    <2>1. PICK t \in Tags : p \in Rooms[t]
      BY <1>6 DEF Inside
    <2>2. \A u \in Tags : u # t => p \notin Rooms[u]
      BY <2>1 DEF HomeInv, Apart
    <2>3. CASE t \notin {"chan", "queued", "held"}
      <3>1. static = {t} /\ inChan = {} /\ inBatches = {} /\ atWriters = {}
        BY <1>2, <1>3, <2>1, <2>2, <2>3 DEF Tags
      <3>2. Homes(p) = {<<t, 0>>}
        BY <1>1, <3>1
      <3>3. QED
        BY <3>2
    <2>4. CASE t = "chan"
      <3>1. static = {} /\ inBatches = {} /\ atWriters = {} /\ inChan # {}
        BY <1>2, <1>3, <2>1, <2>2, <2>4 DEF Tags
      <3>2. PICK i : i \in inChan
        BY <3>1
      <3>3. inChan = {i}
        BY <1>4, <3>2
      <3>4. Homes(p) = {<<"pointsChan", i>>}
        BY <1>1, <3>1, <3>3
      <3>5. QED
        BY <3>4
    <2>5. CASE t = "queued"
      <3>1. static = {} /\ inChan = {} /\ atWriters = {} /\ inBatches # {}
        BY <1>2, <1>3, <2>1, <2>2, <2>5 DEF Tags
      <3>2. PICK i : i \in inBatches
        BY <3>1
      <3>3. inBatches = {i}
        BY <1>4, <3>2
      <3>4. Homes(p) = {<<"batchChan", i>>}
        BY <1>1, <3>1, <3>3
      <3>5. QED
        BY <3>4
    <2>6. CASE t = "held"
      <3>1. static = {} /\ inChan = {} /\ inBatches = {} /\ atWriters # {}
        BY <1>2, <1>3, <2>1, <2>2, <2>6 DEF Tags
      <3>2. PICK i : i \in atWriters
        BY <3>1
      <3>3. atWriters = {i}
        BY <1>4, <3>2
      <3>4. Homes(p) = {<<"writer", i>>}
        BY <1>1, <3>1, <3>3
      <3>5. QED
        BY <3>4
    <2>7. QED
      BY <2>3, <2>4, <2>5, <2>6
  <1>7. QED
    BY <1>5, <1>6

\* From the callback that counted it to the database, a point is in exactly one
\* place: no step of callbacks, accumulator, writers or shutdown loses a point or
\* puts it in two batches (ingestion.go: handleMessage; batcher.go).
THEOREM OneHome == Spec => []EveryPointHasOneHome
  <1>1. HomeInv => EveryPointHasOneHome
    <2> SUFFICES ASSUME HomeInv, NEW p \in Points
                 PROVE  Cardinality(Homes(p)) = IF p <= pointsReceived THEN 1 ELSE 0
      BY DEF EveryPointHasOneHome
    <2>1. CASE p <= pointsReceived
      <3>1. PICK h : Homes(p) = {h}
        BY <2>1, HomesByRoom DEF HomeInv
      <3>2. QED
        BY <2>1, <3>1, FS_Singleton
    <2>2. CASE ~(p <= pointsReceived)
      <3>1. Homes(p) = {}
        BY <2>2, HomesByRoom DEF HomeInv
      <3>2. QED
        BY <2>2, <3>1, FS_EmptySet
    <2>3. QED
      BY <2>1, <2>2
  <1>2. Init => HomeInv
    BY InitHome
  <1>3. TypeOK /\ PipelineInv /\ HomeInv /\ [Next]_vars => HomeInv'
    BY NextHome
  <1>4. QED
    BY <1>1, <1>2, <1>3, PipelineCorrect, PTL DEF Spec

-----------------------------------------------------------------------------
(* The refinement of PointDelivery.                                        *)

\* A batch that is on its way: not empty, and never larger than BatchSize.
Handy(batch) == batch # {} /\ Cardinality(batch) <= BatchSize

SizeInv ==
    /\ Cardinality(currentBatch) < BatchSize
    /\ accPc \in {"flush", "direct"} => Handy(flushing)
    /\ \A i \in DOMAIN batchChan : Handy(batchChan[i])
    /\ \A w \in Writers : writerPc[w] = "write" => Handy(writerBatch[w])

\* A Stop that is over has closed the buffer to callbacks that are still running.
PhaseInv ==
    /\ mainPc \in {"flagged", "disconnected", "closed", "waiting"} => shutdownFlag
    /\ mainPc \in {"closed", "waiting"} => pointsClosed
    /\ mainPc \in {"stopped", "closing", "exited"} /\ shutdownFlag => pointsClosed
    /\ stopErr => mainPc \in {"stopped", "closing", "exited"}

\* Sets of points are finite.
LEMMA PointSetsFinite ==
  \A S \in PointSet : IsFiniteSet(S) /\ Cardinality(S) \in Nat
  <1>1. IsFiniteSet(Points)
    BY IngestionAssumption, FS_Interval DEF Points
  <1>2. QED
    BY <1>1, FS_Subset, FS_CardinalityType DEF PointSet

\* Nothing is batched, and main has not begun to stop.
LEMMA InitSizePhase == Init => SizeInv /\ PhaseInv
  BY FS_EmptySet, IngestionAssumption DEF Init, SizeInv, PhaseInv

\* A full batch leaves at once, so the current one has room.
LEMMA NextSize == TypeOK /\ PipelineInv /\ SizeInv /\ [Next]_vars => SizeInv'
  <1> SUFFICES ASSUME TypeOK, PipelineInv, SizeInv, [Next]_vars PROVE SizeInv'
    OBVIOUS
  <1> USE DEF mainVars, mqttVars, chanVars, accVars, batchVars, writerVars, dbVars, SizeInv
  <1> DEFINE Still == UNCHANGED <<currentBatch, accPc, flushing, batchChan, writerPc, writerBatch>>
  <1>a. Cardinality({}) = 0 /\ BatchSize > 0 /\ BatchSize \in Nat
    BY FS_EmptySet, IngestionAssumption
  <1>1. ASSUME Still PROVE SizeInv'
    BY <1>1
  <1>2. CASE Mqtt \/ StatusPanics \/ UNCHANGED vars
    <2>1. Still
      BY <1>2 DEF Mqtt, HandleMessage, SendPoint, DropPoint, DiscardPoint, StatusPanics, vars
    <2>2. QED
      BY <1>1, <2>1
  <1>3. CASE Main
    <2>1. CASE StartBatcher
      BY <2>1, <1>a DEF StartBatcher
    <2>2. CASE ~StartBatcher
      <3>1. Still
        BY <1>3, <2>2 DEF Main, Connect, ConnectFails, CreateBatcher, Signal, SetShutdownFlag,
                          Disconnect, ClosePoints, BatcherStop, StopReturns, StopTimesOut, CloseDb, Exit
      <3>2. QED
        BY <1>1, <3>1
    <2>3. QED
      BY <2>1, <2>2
  <1>4. CASE AccReceive \/ AccSeesClose \/ AccClose \/ FlushDirect
    BY <1>4 DEF AccReceive, AccSeesClose, AccClose, FlushDirect
  <1>5. CASE AccAdd
    <2>1. /\ UNCHANGED <<batchChan, writerPc, writerBatch>>
          /\ accPoint \in Points
      BY <1>5, PointsFacts DEF AccAdd, PipelineInv, TypeOK
    <2>2. /\ Cardinality(currentBatch) \in Nat
          /\ Cardinality(currentBatch \cup {accPoint}) \in Nat
          /\ Cardinality(currentBatch \cup {accPoint}) <= Cardinality(currentBatch) + 1
      <3>1. IsFiniteSet(currentBatch) /\ Cardinality(currentBatch) \in Nat
        BY PointSetsFinite DEF TypeOK
      <3>2. Cardinality(currentBatch \cup {accPoint}) =
              IF accPoint \in currentBatch THEN Cardinality(currentBatch) ELSE Cardinality(currentBatch) + 1
        BY <3>1, FS_AddElement
      <3>3. QED
        BY <3>1, <3>2
    <2>3. CASE BatchIsFull(currentBatch \cup {accPoint}) /\ StartFlush(currentBatch \cup {accPoint})
      BY <2>1, <2>2, <2>3, <1>a DEF StartFlush, Handy
    <2>4. CASE /\ ~BatchIsFull(currentBatch \cup {accPoint})
               /\ currentBatch' = currentBatch \cup {accPoint}
               /\ accPc' = "select"
      BY <2>1, <2>2, <2>4, <1>a DEF BatchIsFull
    <2>5. QED
      BY <1>5, <2>3, <2>4 DEF AccAdd
  <1>6. CASE AccTick \/ AccFinal
    <2>1. /\ UNCHANGED <<batchChan, writerPc, writerBatch>>
          /\ \/ currentBatch # {} /\ currentBatch' = {} /\ flushing' = currentBatch
             \/ accPc' = "close" /\ UNCHANGED currentBatch
      BY <1>6 DEF AccTick, AccFinal, StartFlush
    <2>2. Cardinality(currentBatch) \in Nat
      BY PointSetsFinite DEF TypeOK
    <2>3. Handy(currentBatch) \/ currentBatch = {}
      BY <2>2, <1>a DEF Handy
    <2>4. CASE currentBatch # {} /\ currentBatch' = {} /\ flushing' = currentBatch
      BY <2>1, <2>3, <2>4, <1>a
    <2>5. CASE accPc' = "close" /\ UNCHANGED currentBatch
      BY <2>1, <2>5
    <2>6. QED
      BY <2>1, <2>4, <2>5
  <1>7. CASE FlushSend
    <2>1. /\ UNCHANGED <<currentBatch, writerPc, writerBatch>>
          /\ Handy(flushing) /\ batchChan' = Append(batchChan, flushing)
          /\ accPc' \in {"close", "select"}
      BY <1>7 DEF FlushSend, EndFlush
    <2>2. \A i \in DOMAIN batchChan' : Handy(batchChan'[i])
      BY <2>1, SendSlots DEF TypeOK
    <2>3. QED
      BY <2>1, <2>2
  <1>8. ASSUME NEW ok \in BOOLEAN, DirectReturns(ok) PROVE SizeInv'
    BY <1>8 DEF DirectReturns, EndFlush
  <1>9. ASSUME NEW w \in Writers, WriterTake(w) PROVE SizeInv'
    <2>1. /\ UNCHANGED <<currentBatch, accPc, flushing>>
          /\ batchChan # <<>> /\ batchChan' = Tail(batchChan)
          /\ writerBatch' = [writerBatch EXCEPT ![w] = Head(batchChan)]
          /\ writerPc' = [writerPc EXCEPT ![w] = "write"]
      BY <1>9 DEF WriterTake
    <2>2. /\ \A i \in DOMAIN batchChan' : Handy(batchChan'[i])
          /\ Handy(Head(batchChan))
      BY <2>1, ReceiveSlots DEF TypeOK
    <2>3. \A v \in Writers : writerPc'[v] = "write" => Handy(writerBatch'[v])
      BY <2>1, <2>2 DEF TypeOK
    <2>4. QED
      BY <2>1, <2>2, <2>3
  <1>10. ASSUME NEW w \in Writers, NEW ok \in BOOLEAN, WriterReturns(w, ok) PROVE SizeInv'
    BY <1>10 DEF WriterReturns, TypeOK
  <1>11. ASSUME NEW w \in Writers, WriterExits(w) PROVE SizeInv'
    BY <1>11 DEF WriterExits, TypeOK
  <1>12. QED
    BY <1>2, <1>3, <1>4, <1>5, <1>6, <1>7, <1>8, <1>9, <1>10, <1>11
    DEF Next, Accumulator, Writer, Exited

\* Main goes through its phases in order.
LEMMA NextPhase == TypeOK /\ PipelineInv /\ PhaseInv /\ [Next]_vars => PhaseInv'
  <1> SUFFICES ASSUME TypeOK, PipelineInv, PhaseInv, [Next]_vars PROVE PhaseInv'
    OBVIOUS
  <1> USE DEF mainVars, chanVars, PhaseInv
  <1>1. CASE UNCHANGED <<mainPc, shutdownFlag, stopErr, pointsClosed>>
    BY <1>1
  <1>2. CASE Main
    BY <1>2 DEF Main, MainStep, Connect, ConnectFails, CreateBatcher, StartBatcher, Signal,
                SetShutdownFlag, Disconnect, ClosePoints, BatcherStop, StopReturns, StopTimesOut,
                CloseDb, Exit, PipelineInv
  <1>3. CASE Mqtt \/ Accumulator \/ StatusPanics \/ UNCHANGED vars \/ \E w \in Writers : Writer(w)
    <2>1. UNCHANGED <<mainPc, shutdownFlag, stopErr, pointsClosed>>
      BY <1>3 DEF Mqtt, HandleMessage, SendPoint, DropPoint, DiscardPoint, Accumulator, AccReceive,
                  AccSeesClose, AccAdd, AccTick, AccFinal, FlushSend, FlushDirect, AccClose,
                  DirectReturns, StatusPanics, vars, Writer, WriterTake, WriterExits, WriterReturns
    <2>2. QED
      BY <1>1, <2>1
  <1>4. QED
    BY <1>2, <1>3 DEF Next, Exited

\* The fates of the refinement mapping.
Fate == [p \in Points |-> FateOf(p)]

\* Where a point is tells its fate: on its way it counts as accepted.
LEMMA FateByRoom ==
  ASSUME TypeOK, HomeInv, NEW p \in Points
  PROVE  /\ p \in handlers => Fate[p] = "offered"
         /\ \A t \in {"received", "current", "flushing", "chan", "queued", "held"} :
               p \in Rooms[t] =>
                   /\ Fate[p] = "accepted"
                   /\ p <= pointsReceived
                   /\ p \notin handlers \cup dropped \cup discarded \cup written \cup failed
         /\ Fate[p] = "accepted" =>
               \E t \in {"received", "current", "flushing", "chan", "queued", "held"} : p \in Rooms[t]
  <1>0. p > pointsReceived <=> ~(p <= pointsReceived)
    BY IngestionAssumption DEF TypeOK, Points
  <1>1. p \in handlers => p <= pointsReceived
    BY RoomFacts DEF HomeInv, Inside, Tags
  <1>2. ASSUME NEW t \in {"received", "current", "flushing", "chan", "queued", "held"}, p \in Rooms[t]
        PROVE  /\ p <= pointsReceived
               /\ p \notin handlers \cup dropped \cup discarded \cup written \cup failed
    <2>1. t \in Tags
      BY DEF Tags
    <2>2. p <= pointsReceived
      BY <1>2, <2>1 DEF HomeInv, Inside
    <2>3. \A u \in {"handler", "dropped", "discarded", "written", "failed"} : p \notin Rooms[u]
      BY <1>2, <2>1 DEF HomeInv, Apart, Tags
    <2>4. QED
      BY <2>2, <2>3, RoomFacts
  <1>3. ASSUME Fate[p] = "accepted"
        PROVE  \E t \in {"received", "current", "flushing", "chan", "queued", "held"} : p \in Rooms[t]
    <2>1. /\ ~(p > pointsReceived)
          /\ p \notin handlers \cup dropped \cup discarded \cup written \cup failed
      BY <1>3 DEF Fate, FateOf
    <2>2. Inside(Rooms, p) \/ ~(p <= pointsReceived)
      BY DEF HomeInv
    <2>3. CASE Inside(Rooms, p)
      BY <2>1, <2>3, RoomFacts DEF Inside, Tags
    <2>4. CASE ~(p <= pointsReceived)
      BY <1>0, <1>3, <2>4 DEF Fate, FateOf
    <2>5. QED
      BY <2>2, <2>3, <2>4
  <1>4. p \in handlers => Fate[p] = "offered"
    BY <1>0, <1>1 DEF Fate, FateOf
  <1>5. ASSUME p <= pointsReceived,
               p \notin handlers \cup dropped \cup discarded \cup written \cup failed
        PROVE  Fate[p] = "accepted"
    BY <1>0, <1>5 DEF Fate, FateOf
  <1>6. QED
    BY <1>2, <1>3, <1>4, <1>5

\* Only the hands of callbacks and the ends of the way decide a fate.
LEMMA FateStill ==
  UNCHANGED <<pointsReceived, handlers, dropped, discarded, written, failed>> => Fate' = Fate
  BY DEF Fate, FateOf

LEMMA PhaseStill == UNCHANGED <<mainPc, shutdownFlag, stopErr>> => Phase' = Phase
  BY DEF Phase

\* A message that arrives is offered.
LEMMA OfferRefined == TypeOK /\ HomeInv /\ HandleMessage => Delivery!Next
  <1> SUFFICES ASSUME TypeOK, HomeInv, HandleMessage PROVE Delivery!Next
    OBVIOUS
  <1> DEFINE q == pointsReceived + 1
  <1>1. /\ q \in Points /\ pointsReceived' = q /\ handlers' = handlers \cup {q}
        /\ q > pointsReceived /\ ~(q > q)
        /\ \A p \in Points : p # q => (p > q <=> p > pointsReceived)
        /\ UNCHANGED <<dropped, discarded, written, failed, mainPc, shutdownFlag, stopErr>>
    BY PointsFacts, IngestionAssumption
    DEF HandleMessage, TypeOK, Points, mainVars, dbVars
  <1>2. Fate[q] = "new" /\ Fate'[q] = "offered"
    BY <1>1 DEF Fate, FateOf
  <1>3. \A p \in Points : p # q => Fate'[p] = Fate[p]
    BY <1>1 DEF Fate, FateOf
  <1>4. Fate' = [Fate EXCEPT ![q] = "offered"]
    BY <1>2, <1>3 DEF Fate
  <1>5. Phase' = Phase
    BY <1>1, PhaseStill
  <1>6. Delivery!Offer(q)
    BY <1>1, <1>2, <1>4, <1>5 DEF Delivery!Offer, Fate
  <1>7. QED
    BY <1>1, <1>6 DEF Delivery!Next

\* A callback's point is accepted or rejected, never accepted after Stop.
LEMMA CallbackRefined ==
  ASSUME TypeOK, PhaseInv, HomeInv, NEW p \in Points,
         SendPoint(p) \/ DropPoint(p) \/ DiscardPoint(p)
  PROVE  Delivery!Next
  <1>1. /\ p \in handlers /\ handlers' = handlers \ {p}
        /\ UNCHANGED <<pointsReceived, written, failed, mainPc, shutdownFlag, stopErr>>
        /\ \/ SendPoint(p) /\ UNCHANGED <<dropped, discarded>>
           \/ dropped' = dropped \cup {p} /\ UNCHANGED discarded
           \/ discarded' = discarded \cup {p} /\ UNCHANGED dropped
    BY DEF SendPoint, DropPoint, DiscardPoint, mainVars, dbVars
  <1>2. p <= pointsReceived /\ p \notin dropped \cup discarded \cup written \cup failed
    BY <1>1, RoomFacts DEF HomeInv, Apart, Inside, Tags
  <1>3. ~(p > pointsReceived)
    BY <1>2, IngestionAssumption DEF TypeOK, Points
  <1>4. Fate[p] = "offered"
    BY <1>1, <1>3 DEF Fate, FateOf
  <1>5. \A q \in Points : q # p => Fate'[q] = Fate[q]
    BY <1>1 DEF Fate, FateOf
  <1>6. Phase' = Phase
    BY <1>1, PhaseStill
  <1>7. CASE SendPoint(p) /\ UNCHANGED <<dropped, discarded>>
    <2>1. Fate'[p] = "accepted"
      BY <1>1, <1>2, <1>3, <1>7 DEF Fate, FateOf
    <2>2. Fate' = [Fate EXCEPT ![p] = "accepted"]
      BY <2>1, <1>5 DEF Fate
    <2>3. Phase = "running"
      BY <1>7 DEF SendPoint, PhaseInv, Phase
    <2>4. Delivery!Accept(p)
      BY <1>4, <1>6, <2>2, <2>3 DEF Delivery!Accept, Fate
    <2>5. QED
      BY <2>4 DEF Delivery!Next
  <1>8. CASE p \in dropped' \cup discarded'
    <2>1. Fate'[p] = "rejected"
      BY <1>1, <1>3, <1>8 DEF Fate, FateOf
    <2>2. Fate' = [Fate EXCEPT ![p] = "rejected"]
      BY <2>1, <1>5 DEF Fate
    <2>3. Delivery!Reject(p)
      BY <1>4, <1>6, <2>2 DEF Delivery!Reject, Fate
    <2>4. QED
      BY <2>3 DEF Delivery!Next
  <1>9. QED
    BY <1>1, <1>7, <1>8

\* A batch whose WriteBatch returns is settled as a whole.
LEMMA SettleRefined ==
  ASSUME TypeOK, HomeInv, NEW batch \in PointSet, Handy(batch),
         NEW t \in {"flushing", "held"}, batch \subseteq Rooms[t],
         UNCHANGED <<pointsReceived, handlers, dropped, discarded, mainPc, shutdownFlag, stopErr>>,
         \/ written' = written \cup batch /\ failed' = failed
         \/ failed' = failed \cup batch /\ written' = written
  PROVE  Delivery!Next
  <1>1. \A p \in batch : /\ p \in Points /\ Fate[p] = "accepted" /\ p <= pointsReceived
                         /\ p \notin handlers \cup dropped \cup discarded \cup written \cup failed
    BY FateByRoom DEF PointSet
  <1>2. \A p \in batch : ~(p > pointsReceived)
    BY <1>1, IngestionAssumption DEF TypeOK, Points
  <1>3. Phase' = Phase
    BY PhaseStill
  <1>4. \A p \in Points \ batch : Fate'[p] = Fate[p]
    BY DEF Fate, FateOf
  <1>5. \E outcome \in {"stored", "failed"} : \A p \in batch : Fate'[p] = outcome
    BY <1>1, <1>2 DEF Fate, FateOf
  <1>6. PICK outcome \in {"stored", "failed"} : \A p \in batch : Fate'[p] = outcome
    BY <1>5
  <1>7. Fate' = [p \in Points |-> IF p \in batch THEN outcome ELSE Fate[p]]
    BY <1>4, <1>6 DEF Fate
  <1>8. Delivery!Cardinality(batch) = Cardinality(batch)
    BY DEF Delivery!Cardinality, Cardinality
  <1>9. Delivery!Settle(batch, outcome)
    BY <1>1, <1>3, <1>7, <1>8 DEF Delivery!Settle, Handy, Fate
  <1>10. QED
    BY <1>6, <1>9 DEF Delivery!Next, PointSet

\* Stop returns: cleanly, with nothing accepted left, or on the timeout.
LEMMA StopRefined ==
  ASSUME TypeOK, PipelineInv, PhaseInv, HomeInv, PipelineInv', StopReturns \/ StopTimesOut
  PROVE  Delivery!Next
  <1>1. /\ mainPc = "waiting" /\ mainPc' = "stopped" /\ shutdownFlag /\ shutdownFlag'
        /\ ~stopErr
        /\ UNCHANGED <<mqttVars, chanVars, accVars, batchVars, writerVars, dbVars>>
    BY DEF StopReturns, StopTimesOut, MainStep, PhaseInv
  <1>2. Phase = "running" /\ Fate' = Fate
    BY <1>1, FateStill DEF Phase, mqttVars, dbVars
  <1>3. CASE StopReturns
    <2>1. ~stopErr'
      BY <1>1, <1>3 DEF StopReturns
    <2>2. Phase' = "stoppedClean"
      BY <1>1, <2>1 DEF Phase
    <2>3. CleanStopLeavesNothing'
      BY IngestionAssumption DEF PipelineInv, CleanStopLeavesNothing, GoroutinesDone
    <2>4. /\ pointsChan = <<>> /\ accPoint = NoPoint /\ currentBatch = {} /\ flushing = {}
          /\ batchChan = <<>> /\ \A w \in Writers : writerBatch[w] = {}
      BY <1>1, <2>1, <2>3 DEF CleanStopLeavesNothing, CleanlyStopped, chanVars, accVars,
                               batchVars, writerVars
    <2>5. ChanPoints = {} /\ QueuedPoints = {} /\ HeldPoints = {}
      BY <2>4 DEF ChanPoints, QueuedPoints, HeldPoints
    <2>6. \A p \in Points : Fate[p] # "accepted"
      BY <2>4, <2>5, FateByRoom, RoomFacts
    <2>7. Delivery!WithFate("accepted") = {}
      BY <2>6 DEF Delivery!WithFate, Fate
    <2>8. Delivery!StopClean
      BY <1>2, <2>2, <2>7 DEF Delivery!StopClean, Fate
    <2>9. QED
      BY <2>8 DEF Delivery!Next
  <1>4. CASE StopTimesOut
    <2>1. Phase' = "timedOut"
      BY <1>1, <1>4 DEF StopTimesOut, Phase
    <2>2. Delivery!StopTimesOut
      BY <1>2, <2>1 DEF Delivery!StopTimesOut, Fate
    <2>3. QED
      BY <2>2 DEF Delivery!Next
  <1>5. QED
    BY <1>3, <1>4

\* Every step of the pipeline is a step of PointDelivery or changes neither a fate
\* nor the phase.
LEMMA NextRefined ==
  ASSUME TypeOK, PipelineInv, SizeInv, PhaseInv, HomeInv, PipelineInv', [Next]_vars
  PROVE  Delivery!Next \/ (Fate' = Fate /\ Phase' = Phase)
  <1> USE DEF mainVars, mqttVars, chanVars, accVars, batchVars, writerVars, dbVars
  <1> DEFINE Ends == UNCHANGED <<pointsReceived, handlers, dropped, discarded, written, failed>>
             MainStays == UNCHANGED <<mainPc, shutdownFlag, stopErr>>
  <1>1. CASE Mqtt
    BY <1>1, OfferRefined, CallbackRefined DEF Mqtt
  <1>2. CASE \/ AccReceive \/ AccSeesClose \/ AccAdd \/ AccTick \/ AccFinal
             \/ FlushSend \/ FlushDirect \/ AccClose \/ StatusPanics \/ UNCHANGED vars
             \/ \E w \in Writers : WriterTake(w) \/ WriterExits(w)
    <2>1. Ends /\ MainStays
      BY <1>2 DEF AccReceive, AccSeesClose, AccAdd, AccTick, AccFinal, FlushSend, FlushDirect,
                  AccClose, StatusPanics, vars, WriterTake, WriterExits
    <2>2. QED
      BY <2>1, FateStill, PhaseStill
  <1>3. ASSUME NEW ok \in BOOLEAN, DirectReturns(ok) PROVE Delivery!Next
    <2>1. Handy(flushing) /\ flushing \in PointSet /\ flushing \subseteq Rooms["flushing"]
      BY <1>3, RoomFacts DEF DirectReturns, SizeInv, TypeOK
    <2>2. /\ UNCHANGED <<pointsReceived, handlers, dropped, discarded, mainPc, shutdownFlag, stopErr>>
          /\ \/ written' = written \cup flushing /\ failed' = failed
             \/ failed' = failed \cup flushing /\ written' = written
      BY <1>3 DEF DirectReturns, Outcome
    <2>3. QED
      BY <2>1, <2>2, SettleRefined
  <1>4. ASSUME NEW w \in Writers, NEW ok \in BOOLEAN, WriterReturns(w, ok) PROVE Delivery!Next
    <2>1. Handy(writerBatch[w]) /\ writerBatch[w] \in PointSet
      BY <1>4 DEF WriterReturns, SizeInv, TypeOK
    <2>2. writerBatch[w] \subseteq Rooms["held"]
      BY RoomFacts DEF HeldPoints
    <2>3. /\ UNCHANGED <<pointsReceived, handlers, dropped, discarded, mainPc, shutdownFlag, stopErr>>
          /\ \/ written' = written \cup writerBatch[w] /\ failed' = failed
             \/ failed' = failed \cup writerBatch[w] /\ written' = written
      BY <1>4 DEF WriterReturns, Outcome
    <2>4. QED
      BY <2>1, <2>2, <2>3, SettleRefined
  <1>5. CASE StopReturns \/ StopTimesOut
    BY <1>5, StopRefined
  <1>6. CASE Main /\ ~StopReturns /\ ~StopTimesOut
    <2>1. Ends /\ UNCHANGED stopErr
      BY <1>6 DEF Main, Connect, ConnectFails, CreateBatcher, StartBatcher, Signal, SetShutdownFlag,
                  Disconnect, ClosePoints, BatcherStop, CloseDb, Exit
    <2>2. Phase' = Phase
      BY <1>6, <2>1 DEF Main, MainStep, Connect, ConnectFails, CreateBatcher, StartBatcher, Signal,
                        SetShutdownFlag, Disconnect, ClosePoints, BatcherStop, CloseDb, Exit,
                        Phase, PipelineInv
    <2>3. QED
      BY <2>1, <2>2, FateStill
  <1>7. QED
    BY <1>1, <1>2, <1>3, <1>4, <1>5, <1>6 DEF Next, Accumulator, Writer, Exited

\* Before anything has arrived, every point is new and the service runs.
LEMMA InitRefined == Init => Delivery!Init
  <1> SUFFICES ASSUME Init PROVE Delivery!Init
    OBVIOUS
  <1>1. \A p \in Points : p > pointsReceived
    BY IngestionAssumption DEF Init, Points
  <1>2. Phase = "running"
    BY DEF Init, Phase
  <1>3. Fate = [p \in Points |-> "new"]
    BY <1>1 DEF Fate, FateOf
  <1>4. QED
    BY <1>2, <1>3 DEF Delivery!Init, Fate

\* The pipeline implements PointDelivery, for every number of points, writers and
\* sizes: a point goes from offered to accepted or rejected and is settled once,
\* with its whole batch; a clean stop (ingestion.go, Stop) leaves none accepted.
THEOREM PipelineRefines == Spec => ImplementsDelivery
  <1>1. Init => Delivery!Init
    BY InitRefined
  <1>2. Init => SizeInv /\ PhaseInv /\ HomeInv
    BY InitSizePhase, InitHome
  <1>3. TypeOK /\ PipelineInv /\ SizeInv /\ PhaseInv /\ HomeInv /\ [Next]_vars
          => (SizeInv /\ PhaseInv /\ HomeInv)'
    BY NextSize, NextPhase, NextHome
  <1>4. TypeOK /\ PipelineInv /\ SizeInv /\ PhaseInv /\ HomeInv /\ PipelineInv' /\ [Next]_vars
          => [Delivery!Next]_(Delivery!vars)
    <2> SUFFICES ASSUME TypeOK, PipelineInv, SizeInv, PhaseInv, HomeInv, PipelineInv', [Next]_vars
                 PROVE  [Delivery!Next]_(Delivery!vars)
      OBVIOUS
    <2>1. Delivery!Next \/ (Fate' = Fate /\ Phase' = Phase)
      BY NextRefined
    <2>2. Fate' = Fate /\ Phase' = Phase => UNCHANGED Delivery!vars
      BY DEF Delivery!vars, Fate
    <2>3. QED
      BY <2>1, <2>2
  <1>5. QED
    BY <1>1, <1>2, <1>3, <1>4, PipelineCorrect, PTL DEF Spec, ImplementsDelivery, Delivery!Spec

-----------------------------------------------------------------------------
(* The writer of the database.                                             *)

\* The inductive invariant.
WriterInv == WriterTypeOK /\ CallInv

\* No call has begun and the breaker is closed.
LEMMA InitWriter == WriterInit => WriterInv
  BY DbWriterAssumption DEF WriterInit, WriterInv, WriterTypeOK, CallInv, States, Pcs, Results

\* A new generation starts the breaker's counts over.
LEMMA NewGenerationType ==
  ASSUME WriterTypeOK, NEW state \in States, NewGeneration(state)
  PROVE  /\ cbState' \in States
         /\ failures' \in 0 .. TripAfter - 1
         /\ successes' \in 0 .. MaxRequests - 1
         /\ requests' \in 0 .. MaxRequests
         /\ current' \in [Callers -> BOOLEAN]
  BY DbWriterAssumption DEF NewGeneration

\* ... and so do the two ways a request reports back.
LEMMA ReportType ==
  ASSUME WriterTypeOK, NEW c \in Callers, OnSuccess(c) \/ OnFailure(c)
  PROVE  /\ cbState' \in States
         /\ failures' \in 0 .. TripAfter - 1
         /\ successes' \in 0 .. MaxRequests - 1
         /\ requests' \in 0 .. MaxRequests
         /\ current' \in [Callers -> BOOLEAN]
  <1> USE DbWriterAssumption DEF WriterTypeOK
  <1>1. CASE OnSuccess(c)
    <2>1. CASE NewGeneration("closed")
      BY <2>1, NewGenerationType DEF States
    <2>2. CASE ~(cbState = "half-open" /\ successes + 1 >= MaxRequests)
      <3>1. /\ current' = [current EXCEPT ![c] = FALSE]
            /\ failures' = 0 /\ cbState' = cbState /\ requests' = requests
            /\ successes' = IF cbState = "half-open" THEN successes + 1 ELSE successes
        BY <1>1, <2>2 DEF OnSuccess
      <3>2. QED
        BY <2>2, <3>1
    <2>3. QED
      BY <1>1, <2>1, <2>2 DEF OnSuccess
  <1>2. CASE OnFailure(c)
    <2>1. CASE NewGeneration("open")
      BY <2>1, NewGenerationType DEF States
    <2>2. CASE ~(cbState = "half-open" \/ failures + 1 >= TripAfter)
      <3>1. /\ current' = [current EXCEPT ![c] = FALSE]
            /\ failures' = failures + 1
            /\ cbState' = cbState /\ successes' = successes /\ requests' = requests
        BY <1>2, <2>2 DEF OnFailure
      <3>2. QED
        BY <2>2, <3>1
    <2>3. QED
      BY <1>2, <2>1, <2>2 DEF OnFailure
  <1>3. QED
    BY <1>1, <1>2

\* Every step of a call, of the breaker's clock and of the database keeps it.
LEMMA NextWriter == WriterInv /\ [WriterNext]_writeBatchVars => WriterInv'
  <1> SUFFICES ASSUME WriterInv, [WriterNext]_writeBatchVars PROVE WriterInv'
    OBVIOUS
  <1> USE DbWriterAssumption DEF WriterInv, WriterTypeOK, CallInv, breakerVars, callVars
  <1>1. ASSUME NEW c \in Callers, Call(c) PROVE WriterInv'
    BY <1>1 DEF Call, Admits, Pcs, Results
  <1>2. ASSUME NEW c \in Callers, Refused(c) PROVE WriterInv'
    BY <1>2 DEF Refused, Results
  <1>3. ASSUME NEW c \in Callers, AttemptSucceeds(c) PROVE WriterInv'
    BY <1>3 DEF AttemptSucceeds, Pcs
  <1>4. ASSUME NEW c \in Callers, AttemptFails(c) PROVE WriterInv'
    BY <1>4 DEF AttemptFails, RetryOrGiveUp, Pcs
  <1>5. ASSUME NEW c \in Callers, AnswerLost(c) PROVE WriterInv'
    BY <1>5 DEF AnswerLost, RetryOrGiveUp, Pcs
  <1>5a. ASSUME NEW c \in Callers, CommitErrorDropped(c) PROVE WriterInv'
    BY <1>5a DEF CommitErrorDropped, Pcs
  <1>6. ASSUME NEW c \in Callers, AttemptRefused(c) PROVE WriterInv'
    BY <1>6 DEF AttemptRefused, Pcs
  <1>7. ASSUME NEW c \in Callers, Backoff(c) PROVE WriterInv'
    BY <1>7 DEF Backoff, Pcs
  <1>8. ASSUME NEW c \in Callers, Return(c) PROVE WriterInv'
    <2>1. /\ cbState' \in States
          /\ failures' \in 0 .. TripAfter - 1
          /\ successes' \in 0 .. MaxRequests - 1
          /\ requests' \in 0 .. MaxRequests
          /\ current' \in [Callers -> BOOLEAN]
      BY <1>8, ReportType DEF Return
    <2>2. /\ pc' = [pc EXCEPT ![c] = "idle"]
          /\ result' = [result EXCEPT ![c] = IF err[c] THEN "failed" ELSE "ok"]
          /\ attempt' = [attempt EXCEPT ![c] = 0]
          /\ err' = [err EXCEPT ![c] = FALSE]
          /\ UNCHANGED <<dbUp, useCopy, commits>>
      BY <1>8 DEF Return
    <2>3. pc[c] = "after"
      BY <1>8 DEF Return
    <2>4. WriterTypeOK'
      BY <2>1, <2>2 DEF Pcs, Results
    <2>5. ASSUME NEW d \in Callers
          PROVE  /\ pc'[d] = IF d = c THEN "idle" ELSE pc[d]
                 /\ result'[d] = IF d = c THEN IF err[c] THEN "failed" ELSE "ok" ELSE result[d]
                 /\ d # c => attempt'[d] = attempt[d] /\ err'[d] = err[d]
      BY <2>2
    <2>6. useCopy /\ ~err[c] => commits[c] > 0
      BY <2>3
    <2>7. CallInv'
      BY <2>2, <2>5, <2>6
    <2>8. QED
      BY <2>4, <2>7
  <1>9. CASE BreakerTimeout
    BY <1>9, NewGenerationType DEF BreakerTimeout, States
  <1>10. CASE BreakerInterval
    BY <1>10, NewGenerationType DEF BreakerInterval, States
  <1>11. CASE DbChanges
    BY <1>11 DEF DbChanges
  <1>12. CASE UNCHANGED writeBatchVars
    BY <1>12 DEF writeBatchVars
  <1>13. QED
    BY <1>1, <1>2, <1>3, <1>4, <1>5, <1>5a, <1>6, <1>7, <1>8, <1>9, <1>10, <1>11, <1>12
    DEF WriterNext, Caller

\* Every variable keeps its type: in particular the rows of one batch are
\* committed at most once per attempt of the retry loop.
THEOREM WriterCorrect == WriterSpec => []WriterTypeOK
  <1>1. WriterInv => WriterTypeOK
    BY DEF WriterInv
  <1>2. QED
    BY <1>1, InitWriter, NextWriter, PTL DEF WriterSpec

\* With COPY, WriteBatch returns nil only for rows that are in the database; on
\* either path a batch the breaker refused never got there.
THEOREM HonestResult == WriterSpec => []ResultIsHonest
  <1>1. WriterInv => ResultIsHonest
    BY DEF WriterInv, CallInv, ResultIsHonest
  <1>2. QED
    BY <1>1, InitWriter, NextWriter, PTL DEF WriterSpec

=============================================================================
