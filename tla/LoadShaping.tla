---------------------------- MODULE LoadShaping ----------------------------
(***************************************************************************)
(* The load control of the OPC UA pool (adapter/opcua/loadshaping.go):     *)
(* every read and write is refused, run at once by its caller, or put on a *)
(* priority queue for the pool's workers, after a look at counters that    *)
(* all callers share.  Close ends the workers and closes the queues.       *)
(*                                                                         *)
(* An operation is one call of checkGlobalLoadAndQueueWithSession.         *)
(***************************************************************************)
EXTENDS Integers, Sequences, FiniteSets

CONSTANTS
    Ops,             \* bound: the operations
    NoOp,            \* none of them
    Priority,        \* 0 telemetry, 1 control, 2 safety
    Servers,       \* the sessions
    EndpointOf,      \* the session of each operation
    Flaky,           \* bound: the sessions whose breaker changes
    Workers,         \* the goroutines of priorityQueueProcessor
    MaxGlobal,       \* maxGlobalInFlight
    Threshold,       \* maxGlobalInFlight * brownoutThreshold, rounded down
    MaxPerEndpoint,  \* MaxInFlightPerEndpoint
    QueueSize        \* PriorityQueueSize

ASSUME LoadAssumption ==
    /\ NoOp \notin Ops
    /\ Priority \in [Ops -> 0..2]
    /\ EndpointOf \in [Ops -> Servers]
    /\ Flaky \subseteq Servers
    /\ IsFiniteSet(Ops)
    /\ MaxGlobal \in Nat \ {0}
    /\ Threshold \in 1..MaxGlobal
    /\ MaxPerEndpoint \in Nat \ {0}
    /\ QueueSize \in Nat \ {0}

VARIABLES
    pc,          \* where each operation's caller is
    seen,        \* the global counter that the caller read
    expired,     \* the operations whose context has ended
    result,      \* the operations whose worker has answered, and how
    inFlight,    \* globalInFlight
    perEndpoint, \* inFlight of each session
    brownout,    \* brownoutMode
    open,        \* the sessions whose breaker is open
    queues,      \* priorityQueues
    worker,      \* each worker: [pc, op]
    closing,     \* Close: "no", "closed" (p.closed, p.done), "queuesClosed"
    runs         \* history: how often each operation's function ran

counters == <<inFlight, perEndpoint>>
caller   == <<pc, seen>>
shapingVars == <<caller, expired, result, counters, brownout, open, queues, worker, closing, runs>>

Tiers == 0..2
Telemetry == 0

\* The end of a call: "refused" before anything ran, "done" when the function
\* returned, "cancelled" when the context ended first.  A call that has "panicked"
\* has no end: it takes the process with it.
Outcomes == {"refused", "done", "cancelled"}
Pcs == {"new", "endpoint", "load", "decide", "enqueue", "waiting", "running", "panicked"}
          \cup Outcomes

ShapingInit ==
    /\ pc = [o \in Ops |-> "new"]
    /\ seen = [o \in Ops |-> 0]
    /\ expired = {}
    /\ result = [o \in Ops |-> "none"]
    /\ inFlight = 0 /\ perEndpoint = [e \in Servers |-> 0]
    /\ brownout = FALSE
    /\ open = {}
    /\ queues = [t \in Tiers |-> <<>>]
    /\ worker = [w \in Workers |-> [pc |-> "safety", op |-> NoOp]]
    /\ closing = "no"
    /\ runs = [o \in Ops |-> 0]

Goto(o, p) == pc' = [pc EXCEPT ![o] = p]

\* The value read is forgotten: nothing uses it after the decision.
Decide(o, p) == Goto(o, p) /\ seen' = [seen EXCEPT ![o] = 0]

CountUp(o) == /\ inFlight' = inFlight + 1
              /\ perEndpoint' = [perEndpoint EXCEPT ![EndpointOf[o]] = @ + 1]
CountDown(o) == /\ inFlight' = inFlight - 1
                /\ perEndpoint' = [perEndpoint EXCEPT ![EndpointOf[o]] = @ - 1]

-----------------------------------------------------------------------------
(* checkGlobalLoadAndQueueWithSession, called for operation o.             *)

\* The breaker and the brownout.  An operation whose context has ended already
\* returns before that, and is not followed.
StopEarly(o) == EndpointOf[o] \in open \/ (brownout /\ Priority[o] = Telemetry)

EarlyChecks(o) ==
    /\ pc[o] = "new"
    /\ Goto(o, IF StopEarly(o) THEN "refused" ELSE "endpoint")
    /\ UNCHANGED <<seen, expired, result, counters, brownout, open, queues, worker, closing, runs>>

\* Only telemetry is held to the limit of its endpoint.
EndpointCheck(o) ==
    /\ pc[o] = "endpoint"
    /\ Goto(o, IF perEndpoint[EndpointOf[o]] >= MaxPerEndpoint /\ Priority[o] = Telemetry
               THEN "refused" ELSE "load")
    /\ UNCHANGED <<seen, expired, result, counters, brownout, open, queues, worker, closing, runs>>

LoadGlobal(o) ==
    /\ pc[o] = "load"
    /\ seen' = [seen EXCEPT ![o] = inFlight]
    /\ Goto(o, "decide")
    /\ UNCHANGED <<expired, result, counters, brownout, open, queues, worker, closing, runs>>

\* What follows relies on the value read, which may be out of date.
ShedTelemetry(o) ==
    /\ pc[o] = "decide"
    /\ Priority[o] = Telemetry /\ seen[o] >= Threshold
    /\ brownout' = TRUE
    /\ Decide(o, "refused")
    /\ UNCHANGED <<expired, result, counters, open, queues, worker, closing, runs>>

\* The hard limit: p.closed is read without the lock, then the operation is
\* counted before it is queued.
AtLimit(o) == pc[o] = "decide" /\ Priority[o] # Telemetry /\ seen[o] >= MaxGlobal

RefuseClosed(o) ==
    /\ AtLimit(o)
    /\ closing # "no"
    /\ Decide(o, "refused")
    /\ UNCHANGED <<expired, result, counters, brownout, open, queues, worker, closing, runs>>

CountForQueue(o) ==
    /\ AtLimit(o)
    /\ closing = "no"
    /\ CountUp(o)
    /\ Decide(o, "enqueue")
    /\ UNCHANGED <<expired, result, brownout, open, queues, worker, closing, runs>>

Enqueue(o) ==
    /\ pc[o] = "enqueue"
    /\ closing # "queuesClosed"
    /\ Len(queues[Priority[o]]) < QueueSize
    /\ queues' = [queues EXCEPT ![Priority[o]] = Append(@, o)]
    /\ Goto(o, "waiting")
    /\ UNCHANGED <<seen, expired, result, counters, brownout, open, worker, closing, runs>>

MutantKeepsCount(o) == UNCHANGED counters
GiveBack(o) == CountDown(o)

QueueFull(o) ==
    /\ pc[o] = "enqueue"
    /\ closing # "queuesClosed"
    /\ Len(queues[Priority[o]]) >= QueueSize
    /\ GiveBack(o)
    /\ Goto(o, "refused")
    /\ UNCHANGED <<seen, expired, result, brownout, open, queues, worker, closing, runs>>

\* Close overtook the caller: a send on a closed channel.
SendPanics(o) ==
    /\ pc[o] = "enqueue"
    /\ closing = "queuesClosed"
    /\ Goto(o, "panicked")
    /\ UNCHANGED <<seen, expired, result, counters, brownout, open, queues, worker, closing, runs>>

\* The answer of a worker, or the end of the context, at random if both are ready.
MutantNoCancel(o) == pc[o] = "waiting" /\ result[o] # "none" /\ Goto(o, result[o])
StopWaiting(o) ==
    /\ pc[o] = "waiting"
    /\ \/ result[o] # "none" /\ Goto(o, result[o])
       \/ o \in expired /\ Goto(o, "cancelled")

WaitEnds(o) ==
    /\ StopWaiting(o)
    /\ UNCHANGED <<seen, expired, result, counters, brownout, open, queues, worker, closing, runs>>

\* Below the limit the caller runs the function itself.
RunNow(o) ==
    /\ pc[o] = "decide"
    /\ seen[o] < IF Priority[o] = Telemetry THEN Threshold ELSE MaxGlobal
    /\ CountUp(o)
    /\ brownout' = (brownout /\ seen[o] >= Threshold \div 2)
    /\ runs' = [runs EXCEPT ![o] = @ + 1]
    /\ Decide(o, "running")
    /\ UNCHANGED <<expired, result, open, queues, worker, closing>>

RunEnds(o) ==
    /\ pc[o] = "running"
    /\ CountDown(o)
    /\ Goto(o, "done")
    /\ UNCHANGED <<seen, expired, result, brownout, open, queues, worker, closing, runs>>

-----------------------------------------------------------------------------
(* priorityQueueProcessor, worker w: three nested selects.                 *)

\* The tiers that the select at hand listens to.
Listens(p) == CASE p = "safety" -> {2} [] p = "control" -> {1, 2} [] p = "all" -> Tiers

SetWorker(w, p, o) == worker' = [worker EXCEPT ![w] = [pc |-> p, op |-> o]]

Receive(w, t) ==
    /\ worker[w].pc \in {"safety", "control", "all"}
    /\ t \in Listens(worker[w].pc)
    /\ queues[t] # <<>>
    /\ queues' = [queues EXCEPT ![t] = Tail(@)]
    /\ SetWorker(w, "judge", Head(queues[t]))
    /\ UNCHANGED <<caller, expired, result, counters, brownout, open, closing, runs>>

\* default: nothing to receive at this level.
LookFurther(w) ==
    /\ worker[w].pc \in {"safety", "control"}
    /\ closing = "no"
    /\ \A t \in Listens(worker[w].pc) : queues[t] = <<>>
    /\ SetWorker(w, IF worker[w].pc = "safety" THEN "control" ELSE "all", NoOp)
    /\ UNCHANGED <<caller, expired, result, counters, brownout, open, queues, closing, runs>>

WorkerLeaves(w) ==
    /\ worker[w].pc \in {"safety", "control", "all"}
    /\ closing # "no"
    /\ SetWorker(w, "gone", NoOp)
    /\ UNCHANGED <<caller, expired, result, counters, brownout, open, queues, closing, runs>>

Reply(o, r) == result' = [result EXCEPT ![o] = r]

\* The context has ended, or the breaker opened: answered without a run.
Discard(w) ==
    LET o == worker[w].op IN
    /\ worker[w].pc = "judge"
    /\ o \in expired \/ EndpointOf[o] \in open
    /\ Reply(o, "refused")
    /\ CountDown(o)
    /\ SetWorker(w, "safety", NoOp)
    /\ UNCHANGED <<caller, expired, brownout, open, queues, closing, runs>>

Execute(w) ==
    LET o == worker[w].op IN
    /\ worker[w].pc = "judge"
    /\ o \notin expired /\ EndpointOf[o] \notin open
    /\ runs' = [runs EXCEPT ![o] = @ + 1]
    /\ SetWorker(w, "execute", o)
    /\ UNCHANGED <<caller, expired, result, counters, brownout, open, queues, closing>>

ExecuteEnds(w) ==
    LET o == worker[w].op IN
    /\ worker[w].pc = "execute"
    /\ Reply(o, "done")
    /\ CountDown(o)
    /\ SetWorker(w, "safety", NoOp)
    /\ UNCHANGED <<caller, expired, brownout, open, queues, closing, runs>>

-----------------------------------------------------------------------------
(* The health checker's look at the load, Close, and the environment.      *)

\* checkGlobalHealth.
MutantComparesWithZero == inFlight < 0
LoadIsLow == inFlight < Threshold \div 2

HealthTick ==
    /\ closing = "no"
    /\ \/ inFlight >= Threshold /\ ~brownout
       \/ LoadIsLow /\ brownout
    /\ brownout' = ~brownout
    /\ UNCHANGED <<caller, expired, result, counters, open, queues, worker, closing, runs>>

PoolCloses ==
    /\ closing = "no"
    /\ closing' = "closed"
    /\ UNCHANGED <<caller, expired, result, counters, brownout, open, queues, worker, runs>>

\* Close waits for the workers before it closes the queues.
CloseQueues ==
    /\ closing = "closed"
    /\ \A w \in Workers : worker[w].pc = "gone"
    /\ closing' = "queuesClosed"
    /\ UNCHANGED <<caller, expired, result, counters, brownout, open, queues, worker, runs>>

\* The context of a queued operation ends: its timeout, or its caller's cancel.
\* Elsewhere nothing looks at it between the early checks and the function.
ContextEnds(o) ==
    /\ pc[o] = "waiting"
    /\ o \notin expired
    /\ expired' = expired \cup {o}
    /\ UNCHANGED <<caller, result, counters, brownout, open, queues, worker, closing, runs>>

BreakerOpens(e) ==
    /\ e \notin open
    /\ open' = open \cup {e}
    /\ UNCHANGED <<caller, expired, result, counters, brownout, queues, worker, closing, runs>>

BreakerLeavesOpen(e) ==
    /\ e \in open
    /\ open' = open \ {e}
    /\ UNCHANGED <<caller, expired, result, counters, brownout, queues, worker, closing, runs>>

-----------------------------------------------------------------------------
Caller(o) == \/ EndpointCheck(o) \/ LoadGlobal(o) \/ ShedTelemetry(o) \/ RefuseClosed(o)
             \/ CountForQueue(o) \/ Enqueue(o) \/ QueueFull(o) \/ SendPanics(o)
             \/ WaitEnds(o) \/ RunNow(o) \/ RunEnds(o)
Worker(w) == \/ \E t \in Tiers : Receive(w, t)
             \/ LookFurther(w) \/ WorkerLeaves(w) \/ Discard(w) \/ Execute(w) \/ ExecuteEnds(w)
Environment == \/ \E o \in Ops : ContextEnds(o)
               \/ \E e \in Flaky : BreakerOpens(e) \/ BreakerLeavesOpen(e)

ShapingNext == \/ \E o \in Ops : EarlyChecks(o) \/ Caller(o)
               \/ \E w \in Workers : Worker(w)
               \/ HealthTick \/ PoolCloses \/ CloseQueues \/ Environment

\* Some caller that can go on does, some worker that can, some context ends; the
\* ticker ticks and Close goes on.  The operations are finitely many.
Fairness ==
    /\ WF_shapingVars(\E o \in Ops : Caller(o))
    /\ WF_shapingVars(\E o \in Ops : ContextEnds(o))
    /\ WF_shapingVars(\E w \in Workers : Worker(w))
    /\ WF_shapingVars(HealthTick)
    /\ WF_shapingVars(CloseQueues)

ShapingSpec == ShapingInit /\ [][ShapingNext]_shapingVars /\ Fairness

-----------------------------------------------------------------------------
(* Properties.                                                             *)

\* Every variable has its type; telemetry never waits in a queue.
ShapingTypeOK ==
    /\ pc \in [Ops -> Pcs]
    /\ seen \in [Ops -> Nat]
    /\ expired \subseteq Ops
    /\ result \in [Ops -> {"none", "refused", "done"}]
    /\ inFlight \in Nat /\ perEndpoint \in [Servers -> Nat]
    /\ brownout \in BOOLEAN
    /\ open \subseteq Servers
    /\ queues \in [Tiers -> Seq(Ops)]
    /\ queues[Telemetry] = <<>> /\ \A t \in Tiers : Len(queues[t]) <= QueueSize
    /\ worker \in [Workers -> [pc : {"safety", "control", "all", "judge", "execute", "gone"},
                               op : Ops \cup {NoOp}]]
    /\ closing \in {"no", "closed", "queuesClosed"}
    /\ runs \in [Ops -> Nat]

Queued == UNION {{queues[t][i] : i \in 1..Len(queues[t])} : t \in Tiers}
WithWorker == {worker[w].op : w \in Workers} \ {NoOp}
Counted == {o \in Ops : pc[o] \in {"enqueue", "running", "panicked"}} \cup Queued \cup WithWorker

\* The counters that every admission looks at are true at every step: they count
\* the operations that run, wait in a queue or are about to, also after callers
\* gave up and on every path that an operation leaves by.
InFlightIsTrue ==
    /\ inFlight = Cardinality(Counted)
    /\ \A e \in Servers : perEndpoint[e] = Cardinality({o \in Counted : EndpointOf[o] = e})

\* A caller is told the truth: refused means that its function never runs, done
\* that it ran, and it runs at most once, although worker, context, breaker and
\* caller decide at different times.
AnswersAreHonest ==
    \A o \in Ops : /\ runs[o] <= 1
                   /\ pc[o] = "refused" => runs[o] = 0
                   /\ pc[o] = "done" => runs[o] = 1

\* The safety of the load shaping: types, counters and answers.
ShapingSafe == ShapingTypeOK /\ InFlightIsTrue /\ AnswersAreHonest

Panicked == \E o \in Ops : pc[o] = "panicked"

\* Unless a send on the closed queue crashes the process, every caller gets an
\* answer, by its deadline at the latest: also one that waits in a queue when the
\* workers leave, or whose worker answers when it has gone.
EveryCallReturns ==
    [](~Panicked) => <>[](\A o \in Ops : pc[o] \in Outcomes \cup {"new"})

\* Brownout ends when the load is gone, without a call to notice it.
BrownoutEnds == brownout ~> ~brownout \/ closing # "no"
=============================================================================
