------------------------------ MODULE Ingestion ------------------------------
(***************************************************************************)
(* The data-ingestion service: MQTT callbacks put parsed points on a       *)
(* bounded channel, one accumulator goroutine groups them into batches,    *)
(* writer goroutines store the batches, and the main goroutine starts and  *)
(* stops the whole.                                                        *)
(*   service/ingestion.go   IngestionService                               *)
(*   service/batcher.go     Batcher                                        *)
(*   cmd/ingestion/main.go  the shutdown sequence                          *)
(*                                                                         *)
(* A data point is its arrival number.  A batch is the set of its points:  *)
(* nothing here depends on their order inside a batch.  WriteBatch is one  *)
(* call with two outcomes (module DbWriter has its retries and breaker).   *)
(***************************************************************************)
EXTENDS Naturals, Sequences, FiniteSets

CONSTANTS
    MaxPoints,      \* bound: points that arrive in a behaviour
    BufferSize,     \* IngestionConfig.BufferSize
    BatchSize,      \* BatcherConfig.BatchSize
    Writers,        \* the writer goroutines, BatcherConfig.WriterCount of them
    StopMayTimeOut, \* whether the 30 s shutdown context can expire
    StatusRequests  \* whether /status is queried while the service starts

ASSUME IngestionAssumption ==
    /\ MaxPoints \in Nat
    /\ BufferSize \in Nat \ {0}
    /\ BatchSize \in Nat \ {0}
    /\ IsFiniteSet(Writers) /\ Writers # {}
    /\ StopMayTimeOut \in BOOLEAN
    /\ StatusRequests \in BOOLEAN

VARIABLES
    mainPc,         \* where main() and IngestionService.Stop are
    shutdownFlag,   \* IngestionService.shutdownFlag
    ctxDone,        \* b.ctx is cancelled
    stopErr,        \* what IngestionService.Stop returns (TRUE: an error)
    dbClosed,       \* dbWriter.Close() has closed the connection pool
    pointsReceived, \* IngestionService.pointsReceived
    handlers,       \* points whose callback is between the flag check and the send
    dropped,        \* points counted in pointsDropped
    discarded,      \* points whose send hit the closed channel (recover())
    pointsChan,     \* IngestionService.pointsChan
    pointsClosed,   \* close(s.pointsChan) has happened
    accPc,          \* where accumulatorLoop is
    accPoint,       \* the point it has received and not yet added (0: none)
    accClosing,     \* it runs the deferred flushAndClose
    batchMu,        \* Batcher.batchMu: "free", "acc", or "leaked"
    currentBatch,   \* Batcher.currentBatch
    flushing,       \* the local variable batch of flush()
    batchChan,      \* Batcher.batchChan
    batchClosed,    \* close(b.batchChan) has happened
    writerPc,       \* where each writerLoop is
    writerBatch,    \* the batch each writerLoop holds
    written,        \* points of batches whose WriteBatch returned nil
    failed          \* points of batches whose WriteBatch returned an error

mainVars   == <<mainPc, shutdownFlag, ctxDone, stopErr, dbClosed>>
mqttVars   == <<pointsReceived, handlers, dropped, discarded>>
chanVars   == <<pointsChan, pointsClosed>>
accVars    == <<accPc, accPoint, accClosing, batchMu, currentBatch, flushing>>
batchVars  == <<batchChan, batchClosed>>
writerVars == <<writerPc, writerBatch>>
dbVars     == <<written, failed>>
vars == <<mainVars, mqttVars, chanVars, accVars, batchVars, writerVars, dbVars>>

Points  == 1 .. MaxPoints
NoPoint == 0

\* make(chan *domain.Batch, config.WriterCount*2)
BatchChanCap == 2 * Cardinality(Writers)

MainPcs == {"start", "connected", "created", "running", "cancelled", "flagged",
            "disconnected", "closed", "waiting", "stopped", "closing", "exited"}
AccPcs == {"off", "select", "add", "final", "flush", "direct", "close", "done"}
WriterPcs == {"off", "idle", "write", "done"}

ChanPoints == {pointsChan[i] : i \in DOMAIN pointsChan}
QueuedPoints == UNION {batchChan[i] : i \in DOMAIN batchChan}
HeldPoints == UNION {writerBatch[w] : w \in Writers}

\* The goroutines run until main returns.
Alive == mainPc # "exited"

Init ==
    /\ mainPc = "start"
    /\ shutdownFlag = FALSE
    /\ ctxDone = FALSE
    /\ stopErr = FALSE
    /\ dbClosed = FALSE
    /\ pointsReceived = 0
    /\ handlers = {}
    /\ dropped = {}
    /\ discarded = {}
    /\ pointsChan = <<>>
    /\ pointsClosed = FALSE
    /\ accPc = "off"
    /\ accPoint = NoPoint
    /\ accClosing = FALSE
    /\ batchMu = "free"
    /\ currentBatch = {}
    /\ flushing = {}
    /\ batchChan = <<>>
    /\ batchClosed = FALSE
    /\ writerPc = [w \in Writers |-> "off"]
    /\ writerBatch = [w \in Writers |-> {}]
    /\ written = {}
    /\ failed = {}

-----------------------------------------------------------------------------
(* MQTT callbacks: IngestionService.handleMessage, run by paho.            *)

MayReceive == ~shutdownFlag

\* The first half of handleMessage: the flag is clear, the payload parses and
\* the point is counted.  (A set flag or a parse error returns here.)
HandleMessage ==
    /\ Alive
    /\ mainPc # "start"
    /\ MayReceive
    /\ pointsReceived < MaxPoints
    /\ pointsReceived' = pointsReceived + 1
    /\ handlers' = handlers \union {pointsReceived + 1}
    /\ UNCHANGED <<mainVars, dropped, discarded, chanVars, accVars, batchVars,
                   writerVars, dbVars>>

BufferHasRoom == Len(pointsChan) < BufferSize

\* The second half: the non-blocking send.
SendPoint(p) ==
    /\ Alive
    /\ p \in handlers
    /\ ~pointsClosed
    /\ BufferHasRoom
    /\ pointsChan' = Append(pointsChan, p)
    /\ handlers' = handlers \ {p}
    /\ UNCHANGED <<mainVars, pointsReceived, dropped, discarded, pointsClosed,
                   accVars, batchVars, writerVars, dbVars>>

DropPoint(p) ==
    /\ Alive
    /\ p \in handlers
    /\ ~pointsClosed
    /\ ~BufferHasRoom
    /\ dropped' = dropped \union {p}
    /\ handlers' = handlers \ {p}
    /\ UNCHANGED <<mainVars, pointsReceived, discarded, chanVars, accVars,
                   batchVars, writerVars, dbVars>>

\* A send on the closed channel panics; the deferred recover() swallows it.
DiscardPoint(p) ==
    /\ Alive
    /\ p \in handlers
    /\ pointsClosed
    /\ discarded' = discarded \union {p}
    /\ handlers' = handlers \ {p}
    /\ UNCHANGED <<mainVars, pointsReceived, dropped, chanVars, accVars,
                   batchVars, writerVars, dbVars>>

-----------------------------------------------------------------------------
(* The accumulator goroutine: Batcher.accumulatorLoop.                     *)

\* case dp, ok := <-b.pointsChan, with a point.
AccReceive ==
    /\ Alive
    /\ accPc = "select"
    /\ pointsChan # <<>>
    /\ accPoint' = Head(pointsChan)
    /\ pointsChan' = Tail(pointsChan)
    /\ accPc' = "add"
    /\ UNCHANGED <<mainVars, mqttVars, pointsClosed, accClosing, batchMu,
                   currentBatch, flushing, batchVars, writerVars, dbVars>>

\* Mutant: the accumulator closes batchChan before its last flush.
MutantClosesFirst ==
    /\ Alive
    /\ accPc = "select"
    /\ pointsClosed
    /\ pointsChan = <<>>
    /\ accPc' = "final"
    /\ accClosing' = TRUE
    /\ batchClosed' = TRUE
    /\ UNCHANGED <<mainVars, mqttVars, chanVars, accPoint, batchMu,
                   currentBatch, flushing, batchChan, writerVars, dbVars>>

\* case dp, ok := <-b.pointsChan, closed and drained: the deferred
\* flushAndClose runs.
AccSeesClose ==
    /\ Alive
    /\ accPc = "select"
    /\ pointsClosed
    /\ pointsChan = <<>>
    /\ accPc' = "final"
    /\ accClosing' = TRUE
    /\ UNCHANGED <<mainVars, mqttVars, chanVars, accPoint, batchMu,
                   currentBatch, flushing, batchVars, writerVars, dbVars>>

\* Mutant: flush() forgets to swap the batch for a fresh one.
MutantKeepsBatch(batch) ==
    /\ flushing' = batch
    /\ currentBatch' = batch
    /\ batchMu' = "acc"
    /\ accPc' = "flush"

\* flush(), first half: the batch is swapped for a fresh one, batchMu is held.
StartFlush(batch) ==
    /\ flushing' = batch
    /\ currentBatch' = {}
    /\ batchMu' = "acc"
    /\ accPc' = "flush"

\* Mutant: > for >=.
MutantFullLate(batch) == Cardinality(batch) > BatchSize

BatchIsFull(batch) == Cardinality(batch) >= BatchSize

\* addToBatch(dp): a full batch is flushed under the same lock.
AccAdd ==
    /\ Alive
    /\ accPc = "add"
    /\ batchMu = "free"
    /\ accPoint' = NoPoint
    /\ \/ /\ BatchIsFull(currentBatch \union {accPoint})
          /\ StartFlush(currentBatch \union {accPoint})
       \/ /\ ~BatchIsFull(currentBatch \union {accPoint})
          /\ currentBatch' = currentBatch \union {accPoint}
          /\ accPc' = "select"
          /\ UNCHANGED <<flushing, batchMu>>
    /\ UNCHANGED <<mainVars, mqttVars, chanVars, accClosing, batchVars,
                   writerVars, dbVars>>

\* Mutant: the ticker flushes full batches only.
MutantTickFullOnly ==
    /\ Alive
    /\ accPc = "select"
    /\ batchMu = "free"
    /\ BatchIsFull(currentBatch)
    /\ StartFlush(currentBatch)
    /\ UNCHANGED <<mainVars, mqttVars, chanVars, accPoint, accClosing,
                   batchVars, writerVars, dbVars>>

\* case <-ticker.C with a point in the batch.  (An empty batch: no effect.)
AccTick ==
    /\ Alive
    /\ accPc = "select"
    /\ batchMu = "free"
    /\ currentBatch # {}
    /\ StartFlush(currentBatch)
    /\ UNCHANGED <<mainVars, mqttVars, chanVars, accPoint, accClosing,
                   batchVars, writerVars, dbVars>>

\* flushAndClose(): what is left is flushed before the channel is closed.
AccFinal ==
    /\ Alive
    /\ accPc = "final"
    /\ batchMu = "free"
    /\ \/ /\ currentBatch # {}
          /\ StartFlush(currentBatch)
       \/ /\ currentBatch = {}
          /\ accPc' = "close"
          /\ UNCHANGED <<batchMu, currentBatch, flushing>>
    /\ UNCHANGED <<mainVars, mqttVars, chanVars, accPoint, accClosing,
                   batchVars, writerVars, dbVars>>

\* flush() returns: to the loop, or to flushAndClose.
EndFlush ==
    /\ flushing' = {}
    /\ batchMu' = "free"
    /\ accPc' = IF accClosing THEN "close" ELSE "select"

\* flush(), case b.batchChan <- batch.
FlushSend ==
    /\ Alive
    /\ accPc = "flush"
    /\ Len(batchChan) < BatchChanCap
    /\ batchChan' = Append(batchChan, flushing)
    /\ EndFlush
    /\ UNCHANGED <<mainVars, mqttVars, chanVars, accPoint, accClosing,
                   currentBatch, batchClosed, writerVars, dbVars>>

\* flush(), case <-b.ctx.Done(): the accumulator calls WriteBatch itself.
\* Go's select takes either case when both are ready.
FlushDirect ==
    /\ Alive
    /\ accPc = "flush"
    /\ ctxDone
    /\ accPc' = "direct"
    /\ UNCHANGED <<mainVars, mqttVars, chanVars, accPoint, accClosing, batchMu,
                   currentBatch, flushing, batchVars, writerVars, dbVars>>

\* WriteBatch returned.  A closed pool fails every write.
Outcome(batch, ok) ==
    \/ /\ ok
       /\ ~dbClosed
       /\ written' = written \union batch
       /\ UNCHANGED failed
    \/ /\ ~ok
       /\ failed' = failed \union batch
       /\ UNCHANGED written

\* ... in the accumulator; ReleaseBatch follows in either case.
DirectReturns(ok) ==
    /\ Alive
    /\ accPc = "direct"
    /\ Outcome(flushing, ok)
    /\ EndFlush
    /\ UNCHANGED <<mainVars, mqttVars, chanVars, accPoint, accClosing,
                   currentBatch, batchVars, writerVars>>

\* close(b.batchChan), the last thing flushAndClose does.
AccClose ==
    /\ Alive
    /\ accPc = "close"
    /\ batchClosed' = TRUE
    /\ accPc' = "done"
    /\ UNCHANGED <<mainVars, mqttVars, chanVars, accPoint, accClosing, batchMu,
                   currentBatch, flushing, batchChan, writerVars, dbVars>>

-----------------------------------------------------------------------------
(* The writer goroutines: Batcher.writerLoop.                              *)

\* for batch := range b.batchChan, with a batch.
WriterTake(w) ==
    /\ Alive
    /\ writerPc[w] = "idle"
    /\ batchChan # <<>>
    /\ writerBatch' = [writerBatch EXCEPT ![w] = Head(batchChan)]
    /\ batchChan' = Tail(batchChan)
    /\ writerPc' = [writerPc EXCEPT ![w] = "write"]
    /\ UNCHANGED <<mainVars, mqttVars, chanVars, accVars, batchClosed, dbVars>>

\* WriteBatch returned; an error is logged and the batch released all the same.
WriterReturns(w, ok) ==
    /\ Alive
    /\ writerPc[w] = "write"
    /\ Outcome(writerBatch[w], ok)
    /\ writerBatch' = [writerBatch EXCEPT ![w] = {}]
    /\ writerPc' = [writerPc EXCEPT ![w] = "idle"]
    /\ UNCHANGED <<mainVars, mqttVars, chanVars, accVars, batchVars>>

\* ... closed and drained.
WriterExits(w) ==
    /\ Alive
    /\ writerPc[w] = "idle"
    /\ batchClosed
    /\ batchChan = <<>>
    /\ writerPc' = [writerPc EXCEPT ![w] = "done"]
    /\ UNCHANGED <<mainVars, mqttVars, chanVars, accVars, batchVars,
                   writerBatch, dbVars>>

-----------------------------------------------------------------------------
(* The main goroutine: main(), IngestionService.Start and Stop.            *)

MainStep(from, to) == mainPc = from /\ mainPc' = to

\* Start: subscriber.Connect succeeds.  Messages arrive from now on.
Connect ==
    /\ MainStep("start", "connected")
    /\ UNCHANGED <<shutdownFlag, ctxDone, stopErr, dbClosed, mqttVars, chanVars,
                   accVars, batchVars, writerVars, dbVars>>

\* Start: Connect fails; main ends in logger.Fatal.
ConnectFails ==
    /\ MainStep("start", "exited")
    /\ UNCHANGED <<shutdownFlag, ctxDone, stopErr, dbClosed, mqttVars, chanVars,
                   accVars, batchVars, writerVars, dbVars>>

\* Start: s.batcher = NewBatcher(...), without a current batch yet.
CreateBatcher ==
    /\ MainStep("connected", "created")
    /\ UNCHANGED <<shutdownFlag, ctxDone, stopErr, dbClosed, mqttVars, chanVars,
                   accVars, batchVars, writerVars, dbVars>>

\* Start: Batcher.Start makes the current batch and starts the goroutines.
StartBatcher ==
    /\ MainStep("created", "running")
    /\ accPc' = "select"
    /\ writerPc' = [w \in Writers |-> "idle"]
    /\ UNCHANGED <<shutdownFlag, ctxDone, stopErr, dbClosed, mqttVars, chanVars,
                   accPoint, accClosing, batchMu, currentBatch, flushing,
                   batchVars, writerBatch, dbVars>>

\* GET /status while Start runs: Batcher.Stats locks batchMu, dereferences the
\* nil current batch and panics.  net/http recovers; nobody unlocks batchMu.
StatusPanics ==
    /\ StatusRequests
    /\ mainPc = "created"
    /\ batchMu = "free"
    /\ batchMu' = "leaked"
    /\ UNCHANGED <<mainVars, mqttVars, chanVars, accPc, accPoint, accClosing,
                   currentBatch, flushing, batchVars, writerVars, dbVars>>

\* SIGTERM: main cancels the context everything was started with.
Signal ==
    /\ MainStep("running", "cancelled")
    /\ ctxDone' = TRUE
    /\ UNCHANGED <<shutdownFlag, stopErr, dbClosed, mqttVars, chanVars, accVars,
                   batchVars, writerVars, dbVars>>

\* Stop, phase 1.
SetShutdownFlag ==
    /\ MainStep("cancelled", "flagged")
    /\ shutdownFlag' = TRUE
    /\ UNCHANGED <<ctxDone, stopErr, dbClosed, mqttVars, chanVars, accVars,
                   batchVars, writerVars, dbVars>>

\* Stop, phases 2 and 3: Disconnect waits at most 5 s for the callbacks and the
\* sleep 100 ms more, so a callback may outlast both.
Disconnect ==
    /\ MainStep("flagged", "disconnected")
    /\ UNCHANGED <<shutdownFlag, ctxDone, stopErr, dbClosed, mqttVars, chanVars,
                   accVars, batchVars, writerVars, dbVars>>

\* Mutant: Stop does not close the channel.
MutantNeverCloses ==
    /\ MainStep("disconnected", "closed")
    /\ UNCHANGED <<shutdownFlag, ctxDone, stopErr, dbClosed, mqttVars, chanVars,
                   accVars, batchVars, writerVars, dbVars>>

\* Stop, phase 4.
ClosePoints ==
    /\ MainStep("disconnected", "closed")
    /\ pointsClosed' = TRUE
    /\ UNCHANGED <<shutdownFlag, ctxDone, stopErr, dbClosed, mqttVars,
                   pointsChan, accVars, batchVars, writerVars, dbVars>>

\* Stop, phase 5: Batcher.Stop cancels b.ctx and waits for its WaitGroup.
BatcherStop ==
    /\ MainStep("closed", "waiting")
    /\ ctxDone' = TRUE
    /\ UNCHANGED <<shutdownFlag, stopErr, dbClosed, mqttVars, chanVars, accVars,
                   batchVars, writerVars, dbVars>>

\* Mutant: the writers are not in the WaitGroup.
MutantWaitsForAccumulator == accPc = "done"

\* The WaitGroup of the accumulator and the writers is at zero.
GoroutinesDone == accPc = "done" /\ \A w \in Writers : writerPc[w] = "done"

\* case <-done.
StopReturns ==
    /\ MainStep("waiting", "stopped")
    /\ GoroutinesDone
    /\ UNCHANGED <<shutdownFlag, ctxDone, stopErr, dbClosed, mqttVars, chanVars,
                   accVars, batchVars, writerVars, dbVars>>

\* case <-ctx.Done().
StopTimesOut ==
    /\ StopMayTimeOut
    /\ MainStep("waiting", "stopped")
    /\ stopErr' = TRUE
    /\ UNCHANGED <<shutdownFlag, ctxDone, dbClosed, mqttVars, chanVars, accVars,
                   batchVars, writerVars, dbVars>>

\* The deferred dbWriter.Close(): it returns once no connection is in use.
CloseDb ==
    /\ MainStep("stopped", "closing")
    /\ dbClosed' = TRUE
    /\ UNCHANGED <<shutdownFlag, ctxDone, stopErr, mqttVars, chanVars, accVars,
                   batchVars, writerVars, dbVars>>

Exit ==
    /\ MainStep("closing", "exited")
    /\ UNCHANGED <<shutdownFlag, ctxDone, stopErr, dbClosed, mqttVars, chanVars,
                   accVars, batchVars, writerVars, dbVars>>

\* The process is gone: nothing moves.
Exited == mainPc = "exited" /\ UNCHANGED vars

-----------------------------------------------------------------------------

Mqtt == \/ HandleMessage
        \/ \E p \in Points : SendPoint(p) \/ DropPoint(p) \/ DiscardPoint(p)

Accumulator == \/ AccReceive \/ AccSeesClose \/ AccAdd \/ AccTick \/ AccFinal
               \/ FlushSend \/ FlushDirect \/ AccClose
               \/ \E ok \in BOOLEAN : DirectReturns(ok)

Writer(w) == \/ WriterTake(w) \/ WriterExits(w)
             \/ \E ok \in BOOLEAN : WriterReturns(w, ok)

Main == \/ Connect \/ ConnectFails \/ CreateBatcher \/ StartBatcher \/ Signal
        \/ SetShutdownFlag \/ Disconnect \/ ClosePoints \/ BatcherStop
        \/ StopReturns \/ StopTimesOut \/ CloseDb \/ Exit

Next == \/ Mqtt
        \/ Accumulator
        \/ \E w \in Writers : Writer(w)
        \/ Main
        \/ StatusPanics
        \/ Exited

Spec == Init /\ [][Next]_vars

(***************************************************************************)
(* Fairness.  The Go scheduler runs every goroutine that can run: the      *)
(* accumulator, the writers, a callback already in handleMessage, and main *)
(* once it runs Stop.  WriteBatch returns because WriteTimeout bounds each *)
(* attempt and MaxRetries the number of them.  The flush ticker keeps      *)
(* firing.  Once connected, main goes on to start the batcher.  Nothing    *)
(* makes a message arrive, a signal come, /status be queried, or the 30 s  *)
(* of the shutdown pass.                                                   *)
(***************************************************************************)
StopSteps == \/ SetShutdownFlag \/ Disconnect \/ ClosePoints \/ BatcherStop
             \/ StopReturns \/ CloseDb \/ Exit

Fairness ==
    /\ \A p \in Points : WF_vars(SendPoint(p) \/ DropPoint(p) \/ DiscardPoint(p))
    /\ WF_vars(Accumulator)
    /\ \A w \in Writers : WF_vars(Writer(w))
    /\ WF_vars(CreateBatcher \/ StartBatcher)
    /\ WF_vars(StopSteps)

FairSpec == Spec /\ Fairness

-----------------------------------------------------------------------------
(* Properties.                                                             *)

PointSet == SUBSET Points

\* Every variable has its type.
TypeOK ==
    /\ mainPc \in MainPcs
    /\ shutdownFlag \in BOOLEAN
    /\ ctxDone \in BOOLEAN
    /\ stopErr \in BOOLEAN
    /\ dbClosed \in BOOLEAN
    /\ pointsReceived \in 0 .. MaxPoints
    /\ handlers \in PointSet
    /\ dropped \in PointSet
    /\ discarded \in PointSet
    /\ pointsChan \in Seq(Points)
    /\ pointsClosed \in BOOLEAN
    /\ accPc \in AccPcs
    /\ accPoint \in Points \union {NoPoint}
    /\ accClosing \in BOOLEAN
    /\ batchMu \in {"free", "acc", "leaked"}
    /\ currentBatch \in PointSet
    /\ flushing \in PointSet
    /\ batchChan \in Seq(PointSet)
    /\ batchClosed \in BOOLEAN
    /\ writerPc \in [Writers -> WriterPcs]
    /\ writerBatch \in [Writers -> PointSet]
    /\ written \in PointSet
    /\ failed \in PointSet

\* The places that hold a point at most once: a callback's hands, those of the
\* accumulator, and the ends of its way.
Places == [handler |-> handlers, received |-> {accPoint}, current |-> currentBatch,
           flushing |-> flushing, written |-> written, failed |-> failed,
           dropped |-> dropped, discarded |-> discarded]

\* Where point p is: those places, slots of the channels, writers.
Homes(p) ==
    {<<h, 0>> : h \in {pl \in DOMAIN Places : p \in Places[pl]}}
    \union {<<"pointsChan", i>> : i \in {j \in DOMAIN pointsChan : pointsChan[j] = p}}
    \union {<<"batchChan", i>> : i \in {j \in DOMAIN batchChan : p \in batchChan[j]}}
    \union {<<"writer", w>> : w \in {v \in Writers : p \in writerBatch[v]}}

\* Every point the service counted as received is in exactly one place: none
\* is lost between two goroutines, and no pooled point has two owners, so
\* ReleaseBatch never recycles a point that another batch still holds.
EveryPointHasOneHome ==
    \A p \in Points :
        Cardinality(Homes(p)) = IF p <= pointsReceived THEN 1 ELSE 0

\* The batch channel is closed by the accumulator's last step, so no flush can
\* send on it or close it again; a writer leaves only when it is drained.
BatchChanClosedLast ==
    /\ batchClosed => accPc = "done"
    /\ \A w \in Writers : writerPc[w] = "done" => batchClosed /\ batchChan = <<>>

CleanlyStopped == shutdownFlag /\ mainPc \in {"stopped", "closing", "exited"} /\ ~stopErr

\* When Stop returns without an error, no accepted point is left anywhere in
\* the pipeline, whatever callbacks were in flight and whichever way flush()
\* chose: each was written or its write failed.
CleanStopLeavesNothing ==
    CleanlyStopped =>
        /\ pointsChan = <<>>
        /\ accPoint = NoPoint
        /\ currentBatch = {}
        /\ flushing = {}
        /\ batchChan = <<>>
        /\ \A w \in Writers : writerBatch[w] = {}

\* The inductive invariant behind the two properties above.  What each program
\* counter says about the state: who holds a point or a batch, what has been
\* drained once the accumulator runs flushAndClose, what has not yet started,
\* and that a clean stop has seen every goroutine end.
PipelineInv ==
    /\ accPc = "add" <=> accPoint # NoPoint
    /\ accPc \notin {"flush", "direct"} => flushing = {}
    /\ accClosing => pointsClosed /\ pointsChan = <<>>
    /\ accPc \in {"final", "close", "done"} => accClosing
    /\ accPc \in {"off", "select", "add"} => ~accClosing
    /\ accClosing /\ accPc # "final" => currentBatch = {}
    /\ batchClosed <=> accPc = "done"
    /\ \A w \in Writers :
          /\ writerPc[w] = "done" => batchClosed /\ batchChan = <<>>
          /\ writerPc[w] # "write" => writerBatch[w] = {}
    /\ mainPc \in {"start", "connected", "created"} =>
          /\ accPc = "off"
          /\ \A w \in Writers : writerPc[w] = "off"
          /\ ~shutdownFlag
    /\ CleanlyStopped => GoroutinesDone

\* A point that was rejected, stored or failed was offered to the buffer and
\* goes no further; a batch is settled as a whole and is never larger than
\* BatchSize; a clean stop leaves no accepted point.  (Module PointDelivery.)
FateOf(p) ==
    IF p > pointsReceived THEN "new"
    ELSE IF p \in handlers THEN "offered"
    ELSE IF p \in dropped \union discarded THEN "rejected"
    ELSE IF p \in written THEN "stored"
    ELSE IF p \in failed THEN "failed"
    ELSE "accepted"

Phase ==
    IF ~(shutdownFlag /\ mainPc \in {"stopped", "closing", "exited"}) THEN "running"
    ELSE IF stopErr THEN "timedOut" ELSE "stoppedClean"

Delivery == INSTANCE PointDelivery WITH
                fate <- [p \in Points |-> FateOf(p)],
                phase <- Phase

\* The pipeline implements PointDelivery.
ImplementsDelivery == Delivery!Spec

\* The shutdown context has not expired and batchMu has not been leaked.
Undisturbed == ~stopErr /\ batchMu # "leaked"

\* A point on the channel is eventually written, or its batch fails: the flush
\* ticker, the blocked flush and the shutdown path leave none behind, as long as
\* Stop does not time out and no /status request has leaked batchMu.
AcceptedPointsSettle ==
    []Undisturbed => \A p \in Points : p \in ChanPoints ~> p \in written \union failed

\* Shutdown needs no timeout: once main cancels the context, Stop returns nil,
\* even with the batch channel full, the writers slow and points on the way.
StopNeedsNoTimeout == []Undisturbed => (mainPc = "cancelled" ~> CleanlyStopped)
=============================================================================
