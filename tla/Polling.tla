------------------------------- MODULE Polling -------------------------------
(***************************************************************************)
(* PollingService (service/polling.go): one poller goroutine, or one OPC   *)
(* UA subscription, per registered device; configuration changes that      *)
(* register, replace and unregister devices under s.mu; a worker pool that *)
(* bounds the polls; Start and Stop.                                       *)
(*                                                                         *)
(* The code allocates a devicePoller and a goroutine whenever it needs one. *)
(* Here they come from finite sets and one that nothing refers to any more *)
(* is used again, so behaviours are unbounded although the state is finite.*)
(* A stop channel is known by its poller: of an older one it only matters  *)
(* whether it was closed, to a goroutine that still waits on it.           *)
(***************************************************************************)
EXTENDS Naturals, FiniteSets

CONSTANTS
    Devices,        \* device ids
    Pollers,        \* devicePoller structs
    Threads,        \* poller goroutines
    Configs,        \* device configurations that can arrive
    WorkerCount,    \* PollingConfig.WorkerCount
    PollsAreShort,  \* whether a goroutine answers its stop channel within 5 s
    StopMayTimeOut, \* whether Stop's context can expire
    MaxLateChanges, \* bound: changes of the message in hand when main stops
    NoPoller,       \* the nil of *devicePoller
    NoDevice,       \* s.mu was never taken for a device
    NoConfig        \* a configuration not yet read

\* What a configuration tells the service: push stands for OPCUseSubscriptions
\* of an OPC UA device, tags for "has an enabled tag".
ConfigFields == [enabled : BOOLEAN, push : BOOLEAN, tags : BOOLEAN, interval : Nat]

ASSUME PollingAssumption ==
    /\ IsFiniteSet(Threads)
    /\ Configs \subseteq ConfigFields
    /\ WorkerCount \in Nat \ {0}
    /\ PollsAreShort \in BOOLEAN
    /\ StopMayTimeOut \in BOOLEAN
    /\ MaxLateChanges \in Nat
    /\ NoPoller \notin Pollers
    /\ NoConfig \notin Configs

VARIABLES
    devices,       \* PollingService.devices: the poller of each registered device
    config,        \* devicePoller.device
    stopClosed,    \* devicePoller.stopChan is closed
    running,       \* devicePoller.running
    subscribed,    \* devicePoller.subscribed
    idle,          \* history of configs: without tags to push, and no restart since
    subscriptions, \* the handler: devices with the subscription last made for them
    strays,        \* ... with an older one whose Unsubscribe had no effect
    muPc,          \* where the holder of s.mu is ("free": nobody holds it)
    muDev,         \* the device it handles
    subFailed,     \* its Subscribe has failed
    toStart,       \* devices Start has still to start
    started,       \* PollingService.started
    ctxDone,       \* s.ctx is cancelled
    stopPc,        \* where Stop is
    late,          \* how many changes were made after Stop began
    wg,            \* s.wg
    pc,            \* where each poller goroutine is
    dp,            \* the devicePoller it was started for
    sel            \* the stop channel it waits on: the poller's, or an old one

pollerVars  == <<config, idle, stopClosed, running, subscribed>>
handlerVars == <<subscriptions, strays>>
muVars      == <<muPc, muDev, subFailed, toStart>>
mainVars    == <<started, ctxDone, stopPc>>
serviceVars == <<mainVars, late>>
threadVars  == <<wg, pc, dp, sel>>
vars == <<devices, pollerVars, handlerVars, muVars, serviceVars, threadVars>>

MuPcs   == {"free", "stop", "wait", "reset", "start", "subscribe"}
StopPcs == {"no", "waiting", "drained", "timedOut", "stopped", "stopTimedOut"}
Pcs     == {"none", "jitter", "poll", "reading", "loop", "select", "exiting"}

Live(t) == pc[t] # "none"
ThreadsOf(p) == {t \in Threads : Live(t) /\ dp[t] = p}
Registered == {d \in Devices : devices[d] # NoPoller}

\* Goroutines and pollers that nothing refers to.
FreeThreads == {t \in Threads : ~Live(t)}
FreePollers == {p \in Pollers : ThreadsOf(p) = {} /\ \A d \in Devices : devices[d] # p}

\* Bound: a change is only made while it can get a goroutine.
Spare == FreeThreads # {}

Sels == {"none", "current", "oldClosed", "oldOpen"}

Init ==
    /\ devices = [d \in Devices |-> NoPoller]
    /\ config = [p \in Pollers |-> NoConfig]
    /\ stopClosed = [p \in Pollers |-> FALSE]
    /\ running = [p \in Pollers |-> FALSE]
    /\ subscribed = [p \in Pollers |-> FALSE]
    /\ idle = [p \in Pollers |-> FALSE]
    /\ subscriptions = {}
    /\ strays = {}
    /\ muPc = "free"
    /\ muDev = NoDevice
    /\ subFailed = FALSE
    /\ toStart = {}
    /\ started = FALSE
    /\ ctxDone = FALSE
    /\ stopPc = "no"
    /\ late = 0
    /\ wg = 0
    /\ pc = [t \in Threads |-> "none"]
    /\ dp = [t \in Threads |-> NoPoller]
    /\ sel = [t \in Threads |-> "none"]

-----------------------------------------------------------------------------
(* RegisterDevice, UnregisterDevice, ReplaceDevice.  Each runs under s.mu  *)
(* from its call to the end of what it starts.                             *)

\* s.mu is free: Start has done its loop, and (the bounds) a goroutine is
\* spare and few changes were late.  main ends the config subscription before
\* Stop, but the callback of a message it is handling goes on.
MuFree == /\ muPc = "free"
          /\ toStart = {}
          /\ Spare
          /\ ctxDone => late < MaxLateChanges

CountLate == late' = IF ctxDone THEN late + 1 ELSE late

\* The rest of the operation works on device d, from step.
Hold(d, step) == /\ muPc' = step
                 /\ muDev' = d
                 /\ subFailed' = FALSE
                 /\ UNCHANGED toStart

\* RegisterDevice of an enabled device that is not registered.  (A registered
\* one is an error, a disabled one a no-op.)  Before Start it only registers.
RegisterDevice(d, c, p) ==
    /\ MuFree
    /\ devices[d] = NoPoller
    /\ c.enabled
    /\ p \in FreePollers
    /\ devices' = [devices EXCEPT ![d] = p]
    /\ config' = [config EXCEPT ![p] = c]
    /\ idle' = [idle EXCEPT ![p] = c.push /\ ~c.tags]
    /\ stopClosed' = [stopClosed EXCEPT ![p] = FALSE]
    /\ running' = [running EXCEPT ![p] = FALSE]
    /\ subscribed' = [subscribed EXCEPT ![p] = FALSE]
    /\ IF started THEN Hold(d, "start") ELSE UNCHANGED muVars
    /\ CountLate
    /\ UNCHANGED <<handlerVars, mainVars, threadVars>>

\* subscriptionHandler.Unsubscribe(d), if p is subscribed.  The pool looks at the
\* session that d is bound to now, or answers an error that nobody heeds: then the
\* subscription goes on.
Unsubscribe(d, p) ==
    IF subscribed[p]
    THEN /\ subscriptions' = subscriptions \ {d}
         /\ strays' \in {strays, strays \union (subscriptions \intersect {d})}
    ELSE UNCHANGED handlerVars

\* Mutant: the subscription of a removed device stays.
MutantKeepsSubscription(d, p) ==
    /\ devices' = [devices EXCEPT ![d] = NoPoller]
    /\ stopClosed' = [stopClosed EXCEPT ![p] = @ \/ running[p]]
    /\ subscribed' = [subscribed EXCEPT ![p] = FALSE]
    /\ CountLate
    /\ UNCHANGED <<config, idle, running, handlerVars, muVars, mainVars, threadVars>>

\* Mutant: the stop channel of a removed device is not closed.
MutantForgetsClose(d, p) ==
    /\ devices' = [devices EXCEPT ![d] = NoPoller]
    /\ Unsubscribe(d, p)
    /\ subscribed' = [subscribed EXCEPT ![p] = FALSE]
    /\ CountLate
    /\ UNCHANGED <<config, idle, stopClosed, running, muVars, mainVars, threadVars>>

\* Unsubscribe, whatever comes of it; close the stop channel if the poller runs, and forget the
\* device, without waiting for the goroutine.
Remove(d, p) ==
    /\ devices' = [devices EXCEPT ![d] = NoPoller]
    /\ stopClosed' = [stopClosed EXCEPT ![p] = @ \/ running[p]]
    /\ Unsubscribe(d, p)
    /\ subscribed' = [subscribed EXCEPT ![p] = FALSE]
    /\ CountLate
    /\ UNCHANGED <<config, idle, running, muVars, mainVars, threadVars>>

UnregisterDevice(d) ==
    /\ MuFree
    /\ started \/ ctxDone
    /\ devices[d] # NoPoller
    /\ Remove(d, devices[d])

\* ReplaceDevice of a device that is now disabled.
DisableDevice(d, c) ==
    /\ MuFree
    /\ started \/ ctxDone
    /\ devices[d] # NoPoller
    /\ ~c.enabled
    /\ Remove(d, devices[d])

\* ReplaceDevice: swap the configuration; a change of mode, a subscription or
\* another interval (while started) stops the poller and starts it again.
ReplaceDevice(d, c) ==
    LET p == devices[d]
        restart == \/ subscribed[p]
                   \/ c.push
                   \/ config[p].interval # c.interval /\ started
    IN  /\ MuFree
        /\ started \/ ctxDone
        /\ p # NoPoller
        /\ c.enabled
        /\ config' = [config EXCEPT ![p] = c]
        /\ idle' = [idle EXCEPT ![p] = IF c.push THEN ~c.tags
                                       ELSE @ /\ config[p].interval = c.interval]
        /\ Unsubscribe(d, p)
        /\ subscribed' = [subscribed EXCEPT ![p] = FALSE]
        /\ IF restart THEN Hold(d, "stop") ELSE UNCHANGED muVars
        /\ CountLate
        /\ UNCHANGED <<devices, stopClosed, running, mainVars, threadVars>>

-----------------------------------------------------------------------------
(* stopAndResetPoller, by the holder of s.mu.                              *)

At(step, p) == muPc = step /\ p = devices[muDev]

\* The holder of s.mu goes from one step with p to another.
HolderStep(p, from, to) ==
    /\ At(from, p)
    /\ muPc' = to
    /\ UNCHANGED <<devices, config, idle, muDev, toStart, serviceVars>>

\* running.Load(): close the channel and wait, or go on at once.
StopPoller(p) ==
    /\ HolderStep(p, "stop", IF running[p] THEN "wait" ELSE "reset")
    /\ stopClosed' = [stopClosed EXCEPT ![p] = @ \/ running[p]]
    /\ UNCHANGED <<running, subscribed, handlerVars, subFailed, threadVars>>

\* Mutant: it does not wait.
MutantDoesNotWait(p) == p \in Pollers

\* The 5 s have passed.  If goroutines answer in time that only happens to a
\* subscribed device, whose running flag no goroutine will ever clear.
DeadlinePasses(p) == ~PollsAreShort \/ ThreadsOf(p) = {}

\* The wait ends; after the deadline the flag is forced.
WaitEnds(p) ==
    /\ HolderStep(p, "wait", "reset")
    /\ ~running[p] \/ DeadlinePasses(p)
    /\ running' = [running EXCEPT ![p] = FALSE]
    /\ UNCHANGED <<stopClosed, subscribed, handlerVars, subFailed, threadVars>>

\* A goroutine that waits on p's channel keeps waiting on it when p gets a new one.
SelAfterReset(p) ==
    [t \in Threads |->
        IF dp[t] = p /\ sel[t] = "current"
        THEN IF stopClosed[p] THEN "oldClosed" ELSE "oldOpen"
        ELSE sel[t]]

\* Mutant: the poller keeps its closed channel.
MutantKeepsChannel(p) ==
    /\ HolderStep(p, "reset", "start")
    /\ UNCHANGED <<stopClosed, running, subscribed, handlerVars, subFailed, threadVars>>

\* A new stopChan and a new stopOnce.
ResetPoller(p) ==
    /\ HolderStep(p, "reset", "start")
    /\ sel' = SelAfterReset(p)
    /\ stopClosed' = [stopClosed EXCEPT ![p] = FALSE]
    /\ UNCHANGED <<running, subscribed, handlerVars, subFailed, wg, pc, dp>>

-----------------------------------------------------------------------------
(* startDevicePoller and startDeviceSubscription, by the holder of s.mu.   *)

\* It was already running, or there is no tag to subscribe to.
NothingToStart(p) ==
    /\ \/ HolderStep(p, "start", "free") /\ running[p]
       \/ HolderStep(p, "subscribe", "free") /\ ~config[p].tags
    /\ UNCHANGED <<pollerVars, handlerVars, subFailed, threadVars>>

\* go func(): a poller goroutine.
StartPoller(p, t) ==
    /\ HolderStep(p, "start", "free")
    /\ ~running[p]
    /\ ~config[p].push
    /\ t \in FreeThreads
    /\ running' = [running EXCEPT ![p] = TRUE]
    /\ wg' = wg + 1
    /\ pc' = [pc EXCEPT ![t] = "jitter"]
    /\ dp' = [dp EXCEPT ![t] = p]
    /\ UNCHANGED <<stopClosed, subscribed, handlerVars, subFailed, sel>>

\* The device wants a subscription.
DelegateToSubscription(p) ==
    /\ HolderStep(p, "start", "subscribe")
    /\ ~running[p]
    /\ config[p].push
    /\ UNCHANGED <<pollerVars, handlerVars, subFailed, threadVars>>

SubscribeSucceeds(p) ==
    /\ HolderStep(p, "subscribe", "free")
    /\ config[p].tags
    /\ subscriptions' = subscriptions \union {muDev}
    /\ strays' \in {strays, strays \ {muDev}}
    /\ subscribed' = [subscribed EXCEPT ![p] = TRUE]
    /\ running' = [running EXCEPT ![p] = TRUE]
    /\ UNCHANGED <<stopClosed, subFailed, threadVars>>

\* The handler stops serving device d: the reaper closed the session of one of its
\* subscriptions.  Nobody tells the service.
HandlerDrops(d) ==
    /\ \/ d \in subscriptions /\ subscriptions' = subscriptions \ {d} /\ UNCHANGED strays
       \/ d \in strays /\ strays' = strays \ {d} /\ UNCHANGED subscriptions
    /\ UNCHANGED <<devices, pollerVars, muVars, serviceVars, threadVars>>

\* "Falling back to polling": startDevicePoller again, for the same device.
SubscribeFails(p) ==
    /\ HolderStep(p, "subscribe", "start")
    /\ config[p].tags
    /\ subscribed' = [subscribed EXCEPT ![p] = FALSE]
    /\ running' = [running EXCEPT ![p] = FALSE]
    /\ subFailed' = TRUE
    /\ UNCHANGED <<stopClosed, handlerVars, threadVars>>

-----------------------------------------------------------------------------
(* The poller goroutine.                                                   *)

\* Goroutine t goes from one place to another and changes nothing but sel.
ThreadStep(t, from, to) ==
    /\ pc[t] = from
    /\ pc' = [pc EXCEPT ![t] = to]
    /\ UNCHANGED <<devices, pollerVars, handlerVars, muVars, serviceVars, wg, dp>>

\* The jitter has passed: the initial poll.
JitterEnds(t) == ThreadStep(t, "jitter", "poll") /\ UNCHANGED sel

Working == {t \in Threads : pc[t] = "reading"}

\* pollDevice returns early: every worker is busy, the context is cancelled, or
\* no tag is enabled.
PollSkipped(t) ==
    /\ ThreadStep(t, "poll", "loop")
    /\ \/ Cardinality(Working) >= WorkerCount
       \/ ctxDone
       \/ ~config[dp[t]].tags
    /\ UNCHANGED sel

\* A worker is free: ReadTags, and PublishBatch of what it returns.
PollStarts(t) ==
    /\ ThreadStep(t, "poll", "reading")
    /\ Cardinality(Working) < WorkerCount
    /\ config[dp[t]].tags
    /\ UNCHANGED sel

\* It has failed, found the breaker open, or published.
PollEnds(t) == ThreadStep(t, "reading", "loop") /\ UNCHANGED sel

\* for { select: the cases' channels are evaluated, dp.stopChan among them.
EnterSelect(t) ==
    /\ ThreadStep(t, "loop", "select")
    /\ sel' = [sel EXCEPT ![t] = "current"]

\* case <-ticker.C.
Tick(t) ==
    /\ ThreadStep(t, "select", "poll")
    /\ sel' = [sel EXCEPT ![t] = "none"]

\* Mutant: the goroutine does not look at the context.
MutantIgnoresContext(t) == \/ sel[t] = "oldClosed"
                           \/ sel[t] = "current" /\ stopClosed[dp[t]]

\* s.ctx or the stop channel it waits on is closed.
Stopped(t) == \/ ctxDone
              \/ sel[t] = "oldClosed"
              \/ sel[t] = "current" /\ stopClosed[dp[t]]

\* case <-s.ctx.Done(), case <-dp.stopChan: return.
LeaveLoop(t) ==
    /\ ThreadStep(t, "select", "exiting")
    /\ Stopped(t)
    /\ sel' = [sel EXCEPT ![t] = "none"]

\* The deferred running.Store(false) and wg.Done().
Exit(t) ==
    /\ pc[t] = "exiting"
    /\ running' = [running EXCEPT ![dp[t]] = FALSE]
    /\ wg' = wg - 1
    /\ pc' = [pc EXCEPT ![t] = "none"]
    /\ dp' = [dp EXCEPT ![t] = NoPoller]
    /\ UNCHANGED <<devices, config, idle, stopClosed, subscribed, handlerVars, muVars,
                   serviceVars, sel>>

-----------------------------------------------------------------------------
(* Start and Stop, by main.                                                *)

Start ==
    /\ MuFree
    /\ ~started /\ ~ctxDone
    /\ started' = TRUE
    /\ toStart' = Registered
    /\ UNCHANGED <<devices, pollerVars, handlerVars, muPc, muDev, subFailed,
                   ctxDone, stopPc, late, threadVars>>

\* Start's loop over the registered devices, in any order.
StartNext(d) ==
    /\ muPc = "free"
    /\ d \in toStart
    /\ toStart' = toStart \ {d}
    /\ muPc' = "start"
    /\ muDev' = d
    /\ subFailed' = FALSE
    /\ UNCHANGED <<devices, pollerVars, handlerVars, serviceVars, threadVars>>

\* Stop cancels the context.  It does not take s.mu.  Start has returned (the
\* last device of its loop may still be in hand, as that of a change may be).
StopBegins ==
    /\ started /\ toStart = {}
    /\ stopPc = "no"
    /\ ctxDone' = TRUE
    /\ stopPc' = "waiting"
    /\ UNCHANGED <<devices, pollerVars, handlerVars, muVars, started, late, threadVars>>

\* s.wg.Wait() returned: "All pollers stopped".
StopDrained ==
    /\ stopPc = "waiting"
    /\ wg = 0
    /\ stopPc' = "drained"
    /\ UNCHANGED <<devices, pollerVars, handlerVars, muVars, started, ctxDone,
                   late, threadVars>>

\* case <-ctx.Done().
StopTimesOut ==
    /\ StopMayTimeOut
    /\ stopPc = "waiting"
    /\ stopPc' = "timedOut"
    /\ UNCHANGED <<devices, pollerVars, handlerVars, muVars, started, ctxDone,
                   late, threadVars>>

\* started.Store(false), and Stop returns.
StopReturns ==
    /\ stopPc \in {"drained", "timedOut"}
    /\ started' = FALSE
    /\ stopPc' = IF stopPc = "drained" THEN "stopped" ELSE "stopTimedOut"
    /\ UNCHANGED <<devices, pollerVars, handlerVars, muVars, ctxDone, late, threadVars>>

\* main goes on to close the pools and exits.
MainExits == stopPc \in {"stopped", "stopTimedOut"} /\ UNCHANGED vars

-----------------------------------------------------------------------------

Change(d) == \/ UnregisterDevice(d)
             \/ \E c \in Configs : \/ ReplaceDevice(d, c)
                                   \/ DisableDevice(d, c)
                                   \/ \E p \in Pollers : RegisterDevice(d, c, p)

\* What the holder of s.mu still has to do.
Continue == \/ \E p \in Pollers :
                  \/ StopPoller(p) \/ WaitEnds(p) \/ ResetPoller(p)
                  \/ NothingToStart(p) \/ DelegateToSubscription(p)
                  \/ SubscribeSucceeds(p) \/ SubscribeFails(p)
                  \/ \E t \in Threads : StartPoller(p, t)
            \/ \E d \in Devices : StartNext(d)

Poller(t) == \/ JitterEnds(t) \/ PollSkipped(t) \/ PollStarts(t) \/ PollEnds(t)
             \/ EnterSelect(t) \/ Tick(t) \/ LeaveLoop(t) \/ Exit(t)

Stop == StopBegins \/ StopDrained \/ StopTimesOut \/ StopReturns

Next == \/ \E d \in Devices : Change(d)
        \/ Continue
        \/ \E t \in Threads : Poller(t)
        \/ \E d \in Devices : HandlerDrops(d)
        \/ Start
        \/ Stop
        \/ MainExits

Spec == Init /\ [][Next]_vars

(***************************************************************************)
(* Fairness.  Goroutines run when they can; a read and a publish end       *)
(* (their contexts have deadlines) and tickers tick.  Go's select chooses  *)
(* at random among the ready cases, so a goroutine that is told to stop    *)
(* does not take the ticker for ever: strong fairness of LeaveLoop.  The   *)
(* holder of s.mu goes on with its operation.  Nothing makes a             *)
(* configuration arrive or main stop.                                      *)
(***************************************************************************)
Fairness ==
    /\ \A t \in Threads : WF_vars(Poller(t)) /\ SF_vars(LeaveLoop(t))
    /\ WF_vars(Continue)
    /\ WF_vars(StopDrained \/ StopReturns)

FairSpec == Spec /\ Fairness

-----------------------------------------------------------------------------
(* Properties.                                                             *)

\* Every variable has its type; the WaitGroup counter is never negative.
TypeOK ==
    /\ devices \in [Devices -> Pollers \union {NoPoller}]
    /\ config \in [Pollers -> Configs \union {NoConfig}]
    /\ stopClosed \in [Pollers -> BOOLEAN]
    /\ running \in [Pollers -> BOOLEAN]
    /\ subscribed \in [Pollers -> BOOLEAN]
    /\ idle \in [Pollers -> BOOLEAN]
    /\ subscriptions \subseteq Devices
    /\ strays \subseteq Devices
    /\ muPc \in MuPcs
    /\ muDev \in Devices \union {NoDevice}
    /\ subFailed \in BOOLEAN
    /\ toStart \subseteq Devices
    /\ started \in BOOLEAN
    /\ ctxDone \in BOOLEAN
    /\ stopPc \in StopPcs
    /\ late \in 0 .. MaxLateChanges
    /\ wg \in Nat
    /\ pc \in [Threads -> Pcs]
    /\ dp \in [Threads -> Pollers \union {NoPoller}]
    /\ sel \in [Threads -> Sels]

\* No device has p.
Forgotten(p) == \A d \in Devices : devices[d] # p

\* A device never has two goroutines that nobody has told to stop.  A poller has
\* one at a time: the old one has exited before the next starts (polling.go:373-375,
\* 409-410), so no deferred running.Store(false) hits a successor.  And the
\* goroutine of a poller that its device has given up, which nobody waits for
\* (280-309, 329-343) and which a new registration of the device may meet, has had
\* its channel closed.
OneActivePollerPerDevice ==
    /\ \A t, u \in Threads : Live(t) /\ Live(u) /\ dp[t] = dp[u] => t = u
    /\ \A t \in Threads : Live(t) /\ Forgotten(dp[t]) => stopClosed[dp[t]]

\* The inductive invariant behind TypeOK and the two properties above and below:
\* wg counts the goroutines; a poller belongs to one device; the holder of s.mu
\* works on a registered device that is not subscribed; and, if goroutines answer in time, a goroutine
\* of a poller that is not marked running does not exist.
PollerInv ==
    /\ wg = Cardinality({t \in Threads : Live(t)})
    /\ \A t \in Threads : dp[t] # NoPoller <=> Live(t)
    /\ \A t \in Threads : Live(t) => config[dp[t]] # NoConfig
    /\ \A d \in Registered : config[devices[d]] # NoConfig
    /\ \A d, e \in Registered : devices[d] = devices[e] => d = e
    /\ muPc # "free" => muDev \in Registered /\ ~subscribed[devices[muDev]]
    /\ muPc # "free" => muDev \notin toStart
    /\ \A d \in toStart : d \in Registered /\ ~subscribed[devices[d]]
    /\ stopPc # "no" => ctxDone
    /\ ~started /\ ~ctxDone => /\ muPc = "free" /\ toStart = {}
                              /\ \A p \in Pollers : ~subscribed[p]
    /\ muPc = "subscribe" => ~running[devices[muDev]]
    /\ PollsAreShort => OneActivePollerPerDevice
    /\ PollsAreShort => \A t \in Threads : Live(t) => running[dp[t]]

\* Between two changes, while the service runs.
Settled == muPc = "free" /\ toStart = {} /\ started /\ ~ctxDone

Polled(p) == /\ running[p] /\ ~subscribed[p]
             /\ \E t \in ThreadsOf(p) : pc[t] # "exiting" /\ ~stopClosed[p]

Pushed(p) == running[p] /\ subscribed[p] /\ ThreadsOf(p) = {}

Unserved(p) == ~running[p] /\ ~subscribed[p] /\ ThreadsOf(p) = {}

\* Between two changes each device is served as its configuration asks, as far as
\* the service can know: by one goroutine that nobody has told to stop, or by a
\* subscription, never by both, and by nothing if it has no tag to push; and
\* GetDeviceStatus reports it as running exactly if something serves it.  The one
\* exception is what 361-395 leave out: a device without tags to push that is
\* switched to polling at the same interval stays unserved (idle).
ServedAsAsked ==
    Settled => \A d \in Registered :
        LET p == devices[d]
        IN  IF config[p].push /\ config[p].tags THEN Pushed(p)
            ELSE IF config[p].push \/ idle[p] THEN Unserved(p)
            ELSE Polled(p)

\* The service forgets no subscription: one that the handler serves is marked
\* subscribed, or its Unsubscribe was called (and had no effect: strays).
NoForgottenSubscription ==
    subscriptions \subseteq {d \in Registered : subscribed[devices[d]]}

\* The goroutine of a device that was unregistered ends, whatever it was doing.
RemovedDeviceIsLeftAlone ==
    \A t \in Threads :
        Live(t) /\ (\A d \in Devices : devices[d] # dp[t]) ~> ~Live(t)

\* Stop needs no timeout: every goroutine sees the cancelled context, also one
\* that a change still under way starts after it.
StopNeedsNoTimeout ==
    [](stopPc # "timedOut") => (stopPc = "waiting" ~> stopPc = "stopped")
=============================================================================
