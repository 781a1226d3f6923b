--------------------------- MODULE Polling_proofs ---------------------------
(***************************************************************************)
(* Proofs about Polling, for every set of devices, pollers, goroutines and *)
(* configurations, and whatever becomes of an Unsubscribe: type            *)
(* correctness, that no change forgets a subscription, and, if goroutines  *)
(* answer their stop channel within the 5 s, that a device has at most one *)
(* goroutine that nobody told to stop and is served as its configuration   *)
(* asks.                                                                   *)
(***************************************************************************)
EXTENDS Polling, FiniteSetTheorems, TLAPS

LiveThreads == {t \in Threads : Live(t)}

IInv == TypeOK /\ PollerInv /\ NoForgottenSubscription

\* The live goroutines are finitely many, and one more or one fewer is counted
\* by wg as one more or one fewer.
LEMMA LiveThreadsCount ==
  ASSUME TypeOK
  PROVE  /\ IsFiniteSet(LiveThreads)
         /\ Cardinality(LiveThreads) \in Nat
         /\ \A t \in Threads \ LiveThreads :
                Cardinality(LiveThreads \union {t}) = Cardinality(LiveThreads) + 1
         /\ \A t \in LiveThreads :
                Cardinality(LiveThreads \ {t}) = Cardinality(LiveThreads) - 1
  <1>1. IsFiniteSet(LiveThreads)
    BY FS_Subset, PollingAssumption DEF LiveThreads
  <1>2. Cardinality(LiveThreads) \in Nat
    BY <1>1, FS_CardinalityType
  <1>3. \A t \in Threads \ LiveThreads :
            Cardinality(LiveThreads \union {t}) = Cardinality(LiveThreads) + 1
    BY <1>1, FS_AddElement
  <1>4. \A t \in LiveThreads :
            Cardinality(LiveThreads \ {t}) = Cardinality(LiveThreads) - 1
    BY <1>1, FS_RemoveElement
  <1> QED
    BY <1>1, <1>2, <1>3, <1>4

\* The initial states have the invariant.
LEMMA InitInv == Init => IInv
  <1> SUFFICES ASSUME Init PROVE IInv
    OBVIOUS
  <1> USE DEF Init
  <1>1. TypeOK
    <2>1. /\ devices \in [Devices -> Pollers \union {NoPoller}]
          /\ config \in [Pollers -> Configs \union {NoConfig}]
          /\ idle \in [Pollers -> BOOLEAN]
          /\ stopClosed \in [Pollers -> BOOLEAN]
          /\ running \in [Pollers -> BOOLEAN]
          /\ subscribed \in [Pollers -> BOOLEAN]
      OBVIOUS
    <2>2. late \in 0 .. MaxLateChanges /\ wg \in Nat
      BY PollingAssumption
    <2>3. pc \in [Threads -> Pcs] /\ sel \in [Threads -> Sels]
      BY DEF Pcs, Sels
    <2>4. /\ dp \in [Threads -> Pollers \union {NoPoller}]
      OBVIOUS
    <2> QED
      BY <2>1, <2>2, <2>3, <2>4 DEF TypeOK, MuPcs, StopPcs
  <1>2. {t \in Threads : Live(t)} = {}
    BY DEF Live
  <1>3. PollerInv
    BY <1>2, FS_EmptySet DEF PollerInv, Live, Registered, Forgotten, OneActivePollerPerDevice
  <1>4. NoForgottenSubscription
    BY DEF NoForgottenSubscription, Registered
  <1> QED
    BY <1>1, <1>3, <1>4 DEF IInv

-----------------------------------------------------------------------------

\* What is recorded of a configuration is a truth value.
LEMMA IdleType ==
  ASSUME TypeOK, NEW p \in Pollers, NEW c \in Configs
  PROVE  /\ [idle EXCEPT ![p] = c.push /\ ~c.tags] \in [Pollers -> BOOLEAN]
         /\ [idle EXCEPT ![p] = IF c.push THEN ~c.tags
                                ELSE @ /\ config[p].interval = c.interval] \in [Pollers -> BOOLEAN]
  BY PollingAssumption DEF TypeOK, ConfigFields

\* Every step keeps the types.
LEMMA NextType == IInv /\ [Next]_vars => TypeOK'
  <1> SUFFICES ASSUME IInv, [Next]_vars PROVE TypeOK'
    OBVIOUS
  <1>0. TypeOK /\ PollerInv
    BY DEF IInv
  <1> USE <1>0, PollingAssumption
      DEF TypeOK, MuPcs, StopPcs, Pcs, Sels, pollerVars, muVars, mainVars,
          serviceVars, threadVars, handlerVars
  <1>1. ASSUME NEW d \in Devices, NEW c \in Configs, NEW p \in Pollers,
               RegisterDevice(d, c, p)
        PROVE  TypeOK'
    <2>1. /\ devices' \in [Devices -> Pollers \union {NoPoller}]
          /\ config' \in [Pollers -> Configs \union {NoConfig}]
      BY <1>1 DEF RegisterDevice
    <2>1a. idle' \in [Pollers -> BOOLEAN]
      BY <1>1, IdleType DEF RegisterDevice
    <2>2. /\ stopClosed' \in [Pollers -> BOOLEAN]
          /\ running' \in [Pollers -> BOOLEAN]
          /\ subscribed' \in [Pollers -> BOOLEAN]
      BY <1>1 DEF RegisterDevice
    <2>3. late' \in 0 .. MaxLateChanges
      BY <1>1 DEF RegisterDevice, CountLate, MuFree
    <2>4. /\ muPc' \in MuPcs /\ muDev' \in Devices \union {NoDevice}
          /\ subFailed' \in BOOLEAN /\ toStart' = toStart
      BY <1>1 DEF RegisterDevice, Hold
    <2>5. UNCHANGED <<handlerVars, started, ctxDone, stopPc, threadVars>>
      BY <1>1 DEF RegisterDevice
    <2> QED
      BY <2>1, <2>1a, <2>2, <2>3, <2>4, <2>5
  <1>2. ASSUME NEW d \in Devices, MuFree, devices[d] # NoPoller, Remove(d, devices[d])
        PROVE  TypeOK'
    <2>1. devices' \in [Devices -> Pollers \union {NoPoller}]
      BY <1>2 DEF Remove
    <2>2. /\ stopClosed' \in [Pollers -> BOOLEAN]
          /\ subscribed' \in [Pollers -> BOOLEAN]
          /\ subscriptions' \subseteq Devices /\ strays' \subseteq Devices
      BY <1>2 DEF Remove, Unsubscribe
    <2>3. late' \in 0 .. MaxLateChanges
      BY <1>2 DEF Remove, CountLate, MuFree
    <2>4. UNCHANGED <<config, idle, running, muVars, mainVars, threadVars>>
      BY <1>2 DEF Remove
    <2> QED
      BY <2>1, <2>2, <2>3, <2>4
  <1>3. ASSUME NEW d \in Devices, NEW c \in Configs, ReplaceDevice(d, c)
        PROVE  TypeOK'
    <2>1. config' \in [Pollers -> Configs \union {NoConfig}]
      BY <1>3 DEF ReplaceDevice
    <2>1a. idle' \in [Pollers -> BOOLEAN]
      BY <1>3, IdleType DEF ReplaceDevice
    <2>2. /\ subscribed' \in [Pollers -> BOOLEAN]
          /\ subscriptions' \subseteq Devices /\ strays' \subseteq Devices
      BY <1>3 DEF ReplaceDevice, Unsubscribe
    <2>3. late' \in 0 .. MaxLateChanges
      BY <1>3 DEF ReplaceDevice, CountLate, MuFree
    <2>4. /\ muPc' \in MuPcs /\ muDev' \in Devices \union {NoDevice}
          /\ subFailed' \in BOOLEAN /\ toStart' = toStart
      BY <1>3 DEF ReplaceDevice, Hold
    <2>5. UNCHANGED <<devices, stopClosed, running, mainVars, threadVars>>
      BY <1>3 DEF ReplaceDevice
    <2> QED
      BY <2>1, <2>1a, <2>2, <2>3, <2>4, <2>5
  <1>4. ASSUME NEW p \in Pollers,
               \/ StopPoller(p) \/ WaitEnds(p) \/ ResetPoller(p)
               \/ NothingToStart(p) \/ DelegateToSubscription(p)
        PROVE  TypeOK'
    <2>1. CASE StopPoller(p)
      <3>1. stopClosed' \in [Pollers -> BOOLEAN] /\ muPc' \in MuPcs
        BY <2>1 DEF StopPoller, HolderStep, At
      <3> QED
        BY <2>1, <3>1 DEF StopPoller, HolderStep, At
    <2>2. CASE WaitEnds(p)
      BY <2>2 DEF WaitEnds, HolderStep, At
    <2>3. CASE ResetPoller(p)
      <3>1. /\ sel' \in [Threads -> Sels]
            /\ stopClosed' \in [Pollers -> BOOLEAN]
        BY <2>3 DEF ResetPoller, SelAfterReset, HolderStep, At
      <3> QED
        BY <2>3, <3>1 DEF ResetPoller, HolderStep, At
    <2>4. CASE NothingToStart(p) \/ DelegateToSubscription(p)
      BY <2>4 DEF NothingToStart, DelegateToSubscription, HolderStep, At
    <2> QED
      BY <1>4, <2>1, <2>2, <2>3, <2>4
  <1>5. ASSUME NEW p \in Pollers, NEW t \in Threads, StartPoller(p, t)
        PROVE  TypeOK'
    BY <1>5 DEF StartPoller, HolderStep, At
  <1>6. ASSUME NEW p \in Pollers, SubscribeSucceeds(p) \/ SubscribeFails(p)
        PROVE  TypeOK'
    <2>1. /\ subscribed' \in [Pollers -> BOOLEAN]
          /\ running' \in [Pollers -> BOOLEAN]
      BY <1>6 DEF SubscribeSucceeds, SubscribeFails
    <2>2. muDev \in Devices
      BY <1>6 DEF SubscribeSucceeds, SubscribeFails, At, PollerInv,
                    Registered, HolderStep
    <2>3. subscriptions' \subseteq Devices /\ strays' \subseteq Devices
      BY <1>6, <2>2 DEF SubscribeSucceeds, SubscribeFails, HolderStep, At
    <2>4. CASE SubscribeSucceeds(p)
      BY <2>1, <2>3, <2>4 DEF SubscribeSucceeds, HolderStep, At
    <2>5. CASE SubscribeFails(p)
      BY <2>1, <2>3, <2>5 DEF SubscribeFails, HolderStep, At
    <2> QED
      BY <1>6, <2>4, <2>5
  <1>7. ASSUME NEW d \in Devices, StartNext(d)
        PROVE  TypeOK'
    BY <1>7 DEF StartNext
  <1>8. ASSUME NEW t \in Threads,
               JitterEnds(t) \/ PollSkipped(t) \/ PollStarts(t) \/ PollEnds(t)
                 \/ EnterSelect(t) \/ Tick(t) \/ LeaveLoop(t)
        PROVE  TypeOK'
    BY <1>8 DEF JitterEnds, PollSkipped, PollStarts, PollEnds, EnterSelect, Tick,
                LeaveLoop, ThreadStep
  <1>9. ASSUME NEW t \in Threads, Exit(t)
         PROVE  TypeOK'
    <2>1. t \in LiveThreads
      BY <1>9 DEF Exit, Live, LiveThreads
    <2>2. wg = Cardinality(LiveThreads)
      BY DEF PollerInv, LiveThreads
    <2>3. Cardinality(LiveThreads \ {t}) = wg - 1
      BY <2>1, <2>2, LiveThreadsCount
    <2>4. IsFiniteSet(LiveThreads \ {t})
      BY LiveThreadsCount, FS_Subset, LiveThreads \ {t} \subseteq LiveThreads
    <2>5. wg - 1 \in Nat
      BY <2>3, <2>4, FS_CardinalityType
    <2> QED
      BY <1>9, <2>5 DEF Exit
  <1>10. CASE Start
    BY <1>10 DEF Start, Registered
  <1>11. CASE Stop
    BY <1>11 DEF Stop, StopBegins, StopDrained, StopTimesOut, StopReturns
  <1>12. CASE MainExits \/ UNCHANGED vars
    BY <1>12 DEF MainExits, vars
  <1>13. ASSUME NEW d \in Devices, HandlerDrops(d)
         PROVE  TypeOK'
    BY <1>13 DEF HandlerDrops
  <1> QED
    BY <1>1, <1>2, <1>3, <1>4, <1>5, <1>6, <1>7, <1>8, <1>9, <1>10, <1>11,
       <1>12, <1>13
    DEF Next, Change, Continue, Poller, UnregisterDevice, DisableDevice

\* Every step keeps NoForgottenSubscription.
LEMMA NextSubscriptions == IInv /\ [Next]_vars => NoForgottenSubscription'
  <1> SUFFICES ASSUME IInv, [Next]_vars PROVE NoForgottenSubscription'
    OBVIOUS
  <1>0. TypeOK /\ PollerInv /\ NoForgottenSubscription
    BY DEF IInv
  <1> USE <1>0, PollingAssumption DEF TypeOK, NoForgottenSubscription, Registered, handlerVars
  <1>1. ASSUME NEW d \in Devices, NEW c \in Configs, NEW p \in Pollers,
               RegisterDevice(d, c, p)
        PROVE  NoForgottenSubscription'
    BY <1>1 DEF RegisterDevice, FreePollers
  <1>2. ASSUME NEW d \in Devices, devices[d] # NoPoller, Remove(d, devices[d])
        PROVE  NoForgottenSubscription'
    BY <1>2 DEF Remove, Unsubscribe, PollerInv
  <1>3. ASSUME NEW d \in Devices, NEW c \in Configs, ReplaceDevice(d, c)
        PROVE  NoForgottenSubscription'
    BY <1>3 DEF ReplaceDevice, Unsubscribe, PollerInv
  <1>4. ASSUME NEW p \in Pollers, SubscribeSucceeds(p)
        PROVE  NoForgottenSubscription'
    BY <1>4 DEF SubscribeSucceeds, At, PollerInv, HolderStep
  <1>5. ASSUME NEW p \in Pollers, SubscribeFails(p)
        PROVE  NoForgottenSubscription'
    <2>1. ~subscribed[p]
      BY <1>5 DEF SubscribeFails, At, PollerInv, HolderStep
    <2>2. UNCHANGED <<devices, subscriptions, subscribed>>
      BY <1>5, <2>1 DEF SubscribeFails, HolderStep, At
    <2> QED
      BY <2>2
  <1>6. ASSUME UNCHANGED <<devices, subscriptions, subscribed>>
        PROVE  NoForgottenSubscription'
    BY <1>6
  <1>7. ASSUME NEW p \in Pollers,
               \/ StopPoller(p) \/ WaitEnds(p) \/ ResetPoller(p) \/ NothingToStart(p)
               \/ DelegateToSubscription(p) \/ \E t \in Threads : StartPoller(p, t)
        PROVE  UNCHANGED <<devices, subscriptions, subscribed>>
    BY <1>7 DEF StopPoller, WaitEnds, ResetPoller, NothingToStart,
                    DelegateToSubscription, StartPoller, pollerVars,
                    HolderStep, At
  <1>8. ASSUME NEW t \in Threads, Poller(t)
        PROVE  UNCHANGED <<devices, subscriptions, subscribed>>
    BY <1>8 DEF Poller, JitterEnds, PollSkipped, PollStarts, PollEnds,
                    EnterSelect, Tick, LeaveLoop, Exit, pollerVars,
                    ThreadStep
  <1>9. ASSUME Start \/ Stop \/ MainExits \/ UNCHANGED vars \/ \E d \in Devices : StartNext(d)
        PROVE  UNCHANGED <<devices, subscriptions, subscribed>>
    BY <1>9 DEF Start, Stop, MainExits, StopBegins, StopDrained, StopTimesOut,
                StopReturns, StartNext, pollerVars, vars
  <1>10. ASSUME NEW d \in Devices, HandlerDrops(d)
         PROVE  NoForgottenSubscription'
    BY <1>10 DEF HandlerDrops, pollerVars
  <1> QED
    BY <1>1, <1>2, <1>3, <1>4, <1>5, <1>6, <1>7, <1>8, <1>9, <1>10
    DEF Next, Change, Continue, UnregisterDevice, DisableDevice

-----------------------------------------------------------------------------

\* The parts of PollerInv that are about the goroutines, the pollers and the
\* holder of s.mu.
ThreadsInv ==
    /\ \A t \in Threads : dp[t] # NoPoller <=> Live(t)
    /\ \A t \in Threads : Live(t) => config[dp[t]] # NoConfig
    /\ PollsAreShort => OneActivePollerPerDevice
    /\ PollsAreShort => \A t \in Threads : Live(t) => running[dp[t]]

HolderInv ==
    /\ \A d \in Registered : config[devices[d]] # NoConfig
    /\ \A d, e \in Registered : devices[d] = devices[e] => d = e
    /\ muPc # "free" => muDev \in Registered /\ ~subscribed[devices[muDev]]
    /\ muPc # "free" => muDev \notin toStart
    /\ \A d \in toStart : d \in Registered /\ ~subscribed[devices[d]]
    /\ stopPc # "no" => ctxDone
    /\ ~started /\ ~ctxDone => /\ muPc = "free" /\ toStart = {}
                              /\ \A p \in Pollers : ~subscribed[p]
    /\ muPc = "subscribe" => ~running[devices[muDev]]

\* wg counts the goroutines: it moves only with StartPoller and Exit.
LEMMA NextWg == IInv /\ [Next]_vars => wg' = Cardinality(LiveThreads)'
  <1> SUFFICES ASSUME IInv, [Next]_vars PROVE wg' = Cardinality(LiveThreads')
    OBVIOUS
  <1>0. TypeOK /\ PollerInv /\ wg = Cardinality(LiveThreads)
    BY DEF IInv, PollerInv, LiveThreads
  <1> USE <1>0 DEF LiveThreads, Live
  <1>1. ASSUME NEW p \in Pollers, NEW t \in Threads, StartPoller(p, t)
        PROVE  wg' = Cardinality(LiveThreads')
    <2>1. LiveThreads' = LiveThreads \union {t} /\ t \notin LiveThreads
      BY <1>1 DEF StartPoller, FreeThreads, TypeOK, HolderStep, At
    <2> QED
      BY <1>1, <2>1, LiveThreadsCount DEF StartPoller, HolderStep, At
  <1>2. ASSUME NEW t \in Threads, Exit(t)
        PROVE  wg' = Cardinality(LiveThreads')
    <2>1. LiveThreads' = LiveThreads \ {t} /\ t \in LiveThreads
      BY <1>2 DEF Exit, TypeOK
    <2> QED
      BY <1>2, <2>1, LiveThreadsCount DEF Exit
  <1>3. ASSUME LiveThreads' = LiveThreads, wg' = wg
        PROVE  wg' = Cardinality(LiveThreads')
    BY <1>3
  <1>4. ASSUME NEW t \in Threads,
               JitterEnds(t) \/ PollSkipped(t) \/ PollStarts(t) \/ PollEnds(t) \/ EnterSelect(t) \/ Tick(t)
                 \/ LeaveLoop(t)
        PROVE  LiveThreads' = LiveThreads /\ wg' = wg
    BY <1>4 DEF JitterEnds, PollSkipped, PollStarts, PollEnds, EnterSelect,
                    Tick, LeaveLoop, TypeOK, ThreadStep
  <1>5. ASSUME NEW p \in Pollers,
               \/ StopPoller(p) \/ WaitEnds(p) \/ ResetPoller(p) \/ NothingToStart(p)
               \/ DelegateToSubscription(p) \/ SubscribeSucceeds(p) \/ SubscribeFails(p)
        PROVE  LiveThreads' = LiveThreads /\ wg' = wg
    BY <1>5 DEF StopPoller, WaitEnds, ResetPoller, NothingToStart,
                    DelegateToSubscription, SubscribeSucceeds,
                    SubscribeFails, threadVars, HolderStep, At
  <1>6. ASSUME NEW d \in Devices, Change(d) \/ StartNext(d) \/ HandlerDrops(d)
        PROVE  LiveThreads' = LiveThreads /\ wg' = wg
    BY <1>6 DEF HandlerDrops, Change, RegisterDevice, UnregisterDevice, DisableDevice, ReplaceDevice,
                Remove, StartNext, threadVars
  <1>7. ASSUME Start \/ Stop \/ MainExits \/ UNCHANGED vars
        PROVE  LiveThreads' = LiveThreads /\ wg' = wg
    BY <1>7 DEF Start, Stop, MainExits, StopBegins, StopDrained, StopTimesOut,
                StopReturns, threadVars, vars
  <1> QED
    BY <1>1, <1>2, <1>3, <1>4, <1>5, <1>6, <1>7 DEF Next, Continue, Poller

\* What every step keeps of the goroutines.
LEMMA NextThreads == IInv /\ [Next]_vars => ThreadsInv'
  <1> SUFFICES ASSUME IInv, [Next]_vars PROVE ThreadsInv'
    OBVIOUS
  <1>0. TypeOK /\ PollerInv
    BY DEF IInv
  <1> USE <1>0, PollingAssumption DEF TypeOK, PollerInv, ThreadsInv, Live, Forgotten, OneActivePollerPerDevice
  <1>1. ASSUME NEW d \in Devices, NEW c \in Configs, NEW p \in Pollers,
               RegisterDevice(d, c, p)
        PROVE  ThreadsInv'
    BY <1>1 DEF RegisterDevice, FreePollers, ThreadsOf, threadVars
  <1>2. ASSUME NEW d \in Devices, Remove(d, devices[d])
        PROVE  ThreadsInv'
    BY <1>2 DEF Remove, threadVars
  <1>3. ASSUME NEW d \in Devices, NEW c \in Configs, ReplaceDevice(d, c)
        PROVE  ThreadsInv'
    BY <1>3 DEF ReplaceDevice, threadVars
  <1>4. ASSUME NEW p \in Pollers, WaitEnds(p)
        PROVE  ThreadsInv'
    BY <1>4 DEF WaitEnds, DeadlinePasses, ThreadsOf, threadVars,
                    HolderStep, At
  <1>5. ASSUME NEW p \in Pollers,
               StopPoller(p) \/ NothingToStart(p) \/ DelegateToSubscription(p)
        PROVE  ThreadsInv'
    BY <1>5 DEF StopPoller, NothingToStart, DelegateToSubscription,
                    threadVars, pollerVars, HolderStep, At
  <1>6. ASSUME NEW p \in Pollers, ResetPoller(p)
        PROVE  ThreadsInv'
    <2>1. p = devices[muDev] /\ muDev \in Devices
      BY <1>6 DEF ResetPoller, HolderStep, At, Registered
    <2>2. /\ UNCHANGED <<devices, config, running, pc, dp>>
          /\ \A q \in Pollers : q # p => stopClosed'[q] = stopClosed[q]
      BY <1>6 DEF ResetPoller, HolderStep
    <2>3. \A t \in Threads : Live(t) /\ Forgotten(dp[t]) => dp[t] \in Pollers /\ dp[t] # p
      BY <2>1
    <2>4. QED
      BY <2>2, <2>3
  <1>7. ASSUME NEW p \in Pollers, NEW t \in Threads, StartPoller(p, t)
        PROVE  ThreadsInv'
    BY <1>7 DEF StartPoller, FreeThreads, At, Registered, HolderStep
  <1>8. ASSUME NEW p \in Pollers, SubscribeSucceeds(p)
        PROVE  ThreadsInv'
    BY <1>8 DEF SubscribeSucceeds, threadVars, HolderStep, At
  <1>9. ASSUME NEW p \in Pollers, SubscribeFails(p)
        PROVE  ThreadsInv'
    BY <1>9 DEF SubscribeFails, At, threadVars, HolderStep
  <1>10. ASSUME NEW t \in Threads,
                JitterEnds(t) \/ PollSkipped(t) \/ PollStarts(t) \/ PollEnds(t) \/ EnterSelect(t) \/ Tick(t)
                  \/ LeaveLoop(t)
         PROVE  ThreadsInv'
    BY <1>10 DEF JitterEnds, PollSkipped, PollStarts, PollEnds, EnterSelect,
                    Tick, LeaveLoop, pollerVars, ThreadStep
  <1>11. ASSUME NEW t \in Threads, Exit(t)
         PROVE  ThreadsInv'
    BY <1>11 DEF Exit
  <1>12. ASSUME \/ Start \/ Stop \/ MainExits \/ UNCHANGED vars
                \/ \E d \in Devices : StartNext(d) \/ HandlerDrops(d)
         PROVE  ThreadsInv'
    BY <1>12 DEF HandlerDrops, Start, Stop, MainExits, StopBegins, StopDrained, StopTimesOut,
                 StopReturns, StartNext, threadVars, pollerVars, vars
  <1> QED
    BY <1>1, <1>2, <1>3, <1>4, <1>5, <1>6, <1>7, <1>8, <1>9, <1>10, <1>11, <1>12
    DEF Next, Change, Continue, Poller, UnregisterDevice, DisableDevice

\* What every step keeps of the holder of s.mu and of the registered devices.
LEMMA NextHolder == IInv /\ [Next]_vars => HolderInv'
  <1> SUFFICES ASSUME IInv, [Next]_vars PROVE HolderInv'
    OBVIOUS
  <1>0. TypeOK /\ PollerInv
    BY DEF IInv
  <1> USE <1>0, PollingAssumption DEF TypeOK, PollerInv, HolderInv, Registered
  <1>1. ASSUME NEW d \in Devices, NEW c \in Configs, NEW p \in Pollers,
               RegisterDevice(d, c, p)
        PROVE  HolderInv'
    BY <1>1 DEF RegisterDevice, FreePollers, MuFree, Hold, mainVars, muVars
  <1>2. ASSUME NEW d \in Devices, MuFree, Remove(d, devices[d])
        PROVE  HolderInv'
    BY <1>2 DEF Remove, MuFree, mainVars, muVars
  <1>3. ASSUME NEW d \in Devices, NEW c \in Configs, ReplaceDevice(d, c)
        PROVE  HolderInv'
    BY <1>3 DEF ReplaceDevice, MuFree, Hold, mainVars, muVars
  <1>4. ASSUME NEW p \in Pollers, StopPoller(p) \/ WaitEnds(p) \/ ResetPoller(p)
        PROVE  HolderInv'
    BY <1>4 DEF StopPoller, WaitEnds, ResetPoller, At, mainVars,
                    serviceVars, HolderStep
  <1>5. ASSUME NEW p \in Pollers, NothingToStart(p) \/ DelegateToSubscription(p)
        PROVE  HolderInv'
    BY <1>5 DEF NothingToStart, DelegateToSubscription, At, mainVars,
                    serviceVars, pollerVars, HolderStep
  <1>6. ASSUME NEW p \in Pollers, NEW t \in Threads, StartPoller(p, t)
        PROVE  HolderInv'
    BY <1>6 DEF StartPoller, At, mainVars, serviceVars, HolderStep
  <1>7. ASSUME NEW p \in Pollers, SubscribeSucceeds(p) \/ SubscribeFails(p)
        PROVE  HolderInv'
    BY <1>7 DEF SubscribeSucceeds, SubscribeFails, At, mainVars,
                    serviceVars, HolderStep
  <1>8. ASSUME NEW t \in Threads, Poller(t)
        PROVE  HolderInv'
    BY <1>8 DEF Poller, JitterEnds, PollSkipped, PollStarts, PollEnds,
                    EnterSelect, Tick, LeaveLoop, Exit, pollerVars, muVars,
                    serviceVars, mainVars, ThreadStep
  <1>9. ASSUME NEW d \in Devices, StartNext(d) \/ HandlerDrops(d)
        PROVE  HolderInv'
    BY <1>9 DEF HandlerDrops, muVars, StartNext, pollerVars, serviceVars, mainVars
  <1>10. ASSUME Start \/ Stop \/ MainExits \/ UNCHANGED vars
         PROVE  HolderInv'
    BY <1>10 DEF Start, Stop, MainExits, StopBegins, StopDrained, StopTimesOut,
                 StopReturns, pollerVars, muVars, serviceVars, mainVars, vars
  <1> QED
    BY <1>1, <1>2, <1>3, <1>4, <1>5, <1>6, <1>7, <1>8, <1>9, <1>10
    DEF Next, Change, Continue, UnregisterDevice, DisableDevice

\* The invariant is inductive.
LEMMA NextInv == IInv /\ [Next]_vars => IInv'
  BY NextType, NextSubscriptions, NextWg, NextThreads, NextHolder
  DEF IInv, PollerInv, ThreadsInv, HolderInv, LiveThreads

\* Every variable keeps its type, and PollerInv holds.
THEOREM PollingCorrect == Spec => [](TypeOK /\ PollerInv)
  <1>1. Spec => []IInv
    BY InitInv, NextInv, PTL DEF Spec
  <1>2. IInv => TypeOK /\ PollerInv
    BY DEF IInv
  <1> QED
    BY <1>1, <1>2, PTL

\* If goroutines answer their stop channel within 5 s, a poller never has two
\* goroutines, and one that its device has given up was told to stop, so a device
\* has at most one goroutine that nobody told to stop, whatever changes arrive in
\* whatever order and however often it is registered again.
THEOREM OneActivePoller ==
  ASSUME PollsAreShort
  PROVE  Spec => []OneActivePollerPerDevice
  <1>1. Spec => []IInv
    BY InitInv, NextInv, PTL DEF Spec
  <1>2. IInv => OneActivePollerPerDevice
    BY PollsAreShort DEF IInv, PollerInv
  <1> QED
    BY <1>1, <1>2, PTL

\* Whatever becomes of an Unsubscribe and whatever the handler drops by itself, a
\* subscription that the handler serves is marked, or was asked to end.
THEOREM NoneForgotten == Spec => []NoForgottenSubscription
  <1>1. Spec => []IInv
    BY InitInv, NextInv, PTL DEF Spec
  <1>2. IInv => NoForgottenSubscription
    BY DEF IInv
  <1> QED
    BY <1>1, <1>2, PTL

-----------------------------------------------------------------------------
(* Devices are served as asked, if goroutines answer in time.              *)

\* A poller that nothing serves and that a goroutine can be started for.
Fresh(p) == Unserved(p) /\ ~stopClosed[p]

ServedRight(p) ==
    /\ ~stopClosed[p]
    /\ IF config[p].push
       THEN IF config[p].tags THEN Pushed(p) ELSE Unserved(p)
       ELSE IF idle[p] THEN Unserved(p)
       ELSE running[p] /\ ~subscribed[p] /\ ThreadsOf(p) # {}

\* Device d is neither in hand nor waiting for Start.
AtRest(d) == started /\ d \notin toStart /\ (muPc = "free" \/ muDev # d)

\* What the holder of s.mu has in hand, what awaits Start, and what is at rest; no
\* goroutine waits on an old channel, and one that leaves was told to.
ServiceInv ==
    /\ \A t \in Threads : sel[t] \in {"none", "current"}
    /\ \A t \in Threads : pc[t] = "exiting" => stopClosed[dp[t]]
    /\ \A d \in Devices, p \in Pollers :
          devices[d] = p =>
              /\ ~started \/ d \in toStart => Fresh(p)
              /\ muPc \in {"start", "subscribe"} /\ muDev = d => Fresh(p)
              /\ muPc = "reset" /\ muDev = d => Unserved(p)
              /\ muPc = "subscribe" /\ muDev = d => config[p].push
              /\ AtRest(d) => ServedRight(p)

\* What idle records of the configurations: it is clear for a device that waits to be
\* started for polling.
IdleInv ==
    /\ \A p \in Pollers :
          config[p] # NoConfig /\ config[p].push => (idle[p] <=> ~config[p].tags)
    /\ \A d \in Devices, p \in Pollers :
          devices[d] = p /\ ~AtRest(d) => config[p].push \/ ~idle[p]

\* Whether p is served depends on its own fields and on whether it has goroutines.
Same(p) ==
    /\ config'[p] = config[p]
    /\ idle'[p] = idle[p]
    /\ stopClosed'[p] = stopClosed[p]
    /\ running'[p] = running[p]
    /\ subscribed'[p] = subscribed[p]
    /\ (ThreadsOf(p) = {})' <=> ThreadsOf(p) = {}

LEMMA SameServed ==
  ASSUME NEW p, Same(p)
  PROVE  /\ Fresh(p)' <=> Fresh(p)
         /\ Unserved(p)' <=> Unserved(p)
         /\ ServedRight(p)' <=> ServedRight(p)
  BY DEF Same, Fresh, Unserved, ServedRight, Pushed

\* Nothing is registered and no goroutine exists.
LEMMA InitService == Init => ServiceInv /\ IdleInv
  <1> SUFFICES ASSUME Init PROVE ServiceInv /\ IdleInv
    OBVIOUS
  <1>1. \A d \in Devices : devices[d] \notin Pollers
    BY PollingAssumption DEF Init
  <1>2. \A t \in Threads : sel[t] = "none" /\ pc[t] = "none"
    BY DEF Init
  <1>3. \A p \in Pollers : config[p] = NoConfig
    BY DEF Init
  <1>4. QED
    BY <1>1, <1>2, <1>3 DEF ServiceInv, IdleInv

\* A poller without its running flag has no goroutine.
LEMMA NotRunning ==
  ASSUME IInv, PollsAreShort, NEW p \in Pollers, ~running[p]
  PROVE  ThreadsOf(p) = {}
  BY DEF IInv, PollerInv, ThreadsOf

\* A change by the configuration.
LEMMA ChangeService ==
  ASSUME IInv, PollsAreShort, ServiceInv, IdleInv, ~ctxDone, NEW d \in Devices, Change(d)
  PROVE  ServiceInv'
  <1>0. TypeOK /\ PollerInv /\ (\A q \in Pollers : ThreadsOf(q)' = ThreadsOf(q))
        /\ UNCHANGED <<threadVars, started, ctxDone, toStart>>
        /\ muPc = "free" /\ toStart = {} /\ NoPoller \notin Pollers
    BY PollingAssumption
    DEF Change, RegisterDevice, UnregisterDevice, DisableDevice, ReplaceDevice, Remove, Hold,
        MuFree, muVars, mainVars, threadVars, ThreadsOf, Live, IInv
  <1>1. \A t \in Threads : sel'[t] \in {"none", "current"}
    BY <1>0 DEF ServiceInv, threadVars
  <1>2. ASSUME NEW c \in Configs, NEW p \in Pollers, RegisterDevice(d, c, p) PROVE ServiceInv'
    <2>1. /\ devices' = [devices EXCEPT ![d] = p] /\ ThreadsOf(p) = {}
          /\ \A e \in Devices : devices[e] # p
          /\ Fresh(p)'
          /\ \A q \in Pollers : q # p => Same(q)
      BY <1>0, <1>2 DEF RegisterDevice, FreePollers, Fresh, Unserved, Same, TypeOK
    <2>2. \A t \in Threads : pc'[t] = "exiting" => stopClosed'[dp'[t]]
      BY <1>0, <1>2, <2>1 DEF ServiceInv, RegisterDevice, threadVars, ThreadsOf, Live, TypeOK
    <2>3. IF started THEN muPc' = "start" /\ muDev' = d ELSE muPc' = muPc /\ muDev' = muDev
      BY <1>2 DEF RegisterDevice, Hold, muVars
    <2>4. ASSUME NEW e \in Devices, NEW q \in Pollers, devices'[e] = q
          PROVE  /\ ~started' \/ e \in toStart' => Fresh(q)'
                 /\ muPc' \in {"start", "subscribe"} /\ muDev' = e => Fresh(q)'
                 /\ muPc' = "reset" /\ muDev' = e => Unserved(q)'
                 /\ muPc' = "subscribe" /\ muDev' = e => config'[q].push
                 /\ AtRest(e)' => ServedRight(q)'
      <3>1. CASE e = d
        BY <1>0, <2>1, <2>3, <2>4, <3>1 DEF AtRest, TypeOK
      <3>2. CASE e # d
        <4>1. devices[e] = q /\ q # p /\ Same(q)
          BY <2>1, <2>4, <3>2 DEF TypeOK, IInv
        <4>2. QED
          BY <1>0, <2>3, <3>2, <4>1, SameServed DEF ServiceInv, AtRest
      <3>3. QED
        BY <3>1, <3>2
    <2>5. QED
      BY <1>1, <2>2, <2>4 DEF ServiceInv
  <1>3. ASSUME devices[d] # NoPoller, Remove(d, devices[d]) PROVE ServiceInv'
    <2> DEFINE p == devices[d]
    <2>1. /\ p \in Pollers /\ devices' = [devices EXCEPT ![d] = NoPoller]
          /\ UNCHANGED <<config, running, muVars, started>>
          /\ stopClosed' = [stopClosed EXCEPT ![p] = @ \/ running[p]]
          /\ \A q \in Pollers : q # p => Same(q)
      BY <1>0, <1>3 DEF Remove, Same, TypeOK, mainVars
    <2>2. \A t \in Threads : pc'[t] = "exiting" => stopClosed'[dp'[t]]
      BY <1>0, <2>1 DEF ServiceInv, threadVars, TypeOK, PollerInv, Live
    <2>3. ASSUME NEW e \in Devices, NEW q \in Pollers, devices'[e] = q
          PROVE  devices[e] = q /\ Same(q)
      BY <1>0, <2>1, <2>3 DEF TypeOK, PollerInv, Registered
    <2>4. QED
      BY <1>0, <1>1, <2>1, <2>2, <2>3, SameServed DEF ServiceInv, AtRest, muVars
  <1>4. ASSUME NEW c \in Configs, ReplaceDevice(d, c) PROVE ServiceInv'
    <2>0. PICK p \in Pollers : p = devices[d]
      BY <1>0, <1>4 DEF ReplaceDevice, TypeOK
    <2>1. /\ p = devices[d] /\ UNCHANGED <<devices, stopClosed, running, started>>
          /\ config' = [config EXCEPT ![p] = c]
          /\ subscribed' = [subscribed EXCEPT ![p] = FALSE]
          /\ started
          /\ idle' = [idle EXCEPT ![p] = IF c.push THEN ~c.tags
                                         ELSE @ /\ config[p].interval = c.interval]
          /\ \/ muPc' = "stop" /\ muDev' = d
             \/ /\ ~subscribed[p] /\ ~c.push /\ config[p].interval = c.interval
                /\ muPc' = muPc /\ muDev' = muDev
          /\ \A q \in Pollers : q # p => Same(q)
      BY <1>0, <1>4, <2>0 DEF ReplaceDevice, Hold, Same, TypeOK, mainVars, muVars
    <2>2. \A t \in Threads : pc'[t] = "exiting" => stopClosed'[dp'[t]]
      BY <1>0, <2>1 DEF ServiceInv, threadVars
    <2>3. ASSUME NEW e \in Devices, NEW q \in Pollers, devices'[e] = q, e # d
          PROVE  devices[e] = q /\ Same(q)
      BY <1>0, <2>1, <2>3 DEF TypeOK, PollerInv, Registered
    <2>4. ASSUME ~subscribed[p], ~c.push, config[p].interval = c.interval PROVE ServedRight(p)'
      <3>1. ServedRight(p)
        BY <1>0, <2>1 DEF ServiceInv, AtRest
      <3>2. ThreadsOf(p)' = ThreadsOf(p) /\ config'[p] = c /\ ~subscribed'[p]
            /\ stopClosed'[p] = stopClosed[p] /\ running'[p] = running[p]
        BY <1>0, <2>1 DEF TypeOK
      <3>3. idle'[p] = (idle[p] /\ TRUE) /\ idle[p] \in BOOLEAN
        BY <1>0, <2>1, <2>4 DEF TypeOK
      <3>4. IF idle[p] THEN Unserved(p)
            ELSE running[p] /\ ~subscribed[p] /\ ThreadsOf(p) # {}
        <4>1. CASE ~config[p].push
          BY <3>1, <4>1 DEF ServedRight
        <4>2. CASE config[p].push
          <5>1. ~config[p].tags /\ Unserved(p)
            BY <2>4, <3>1, <4>2 DEF ServedRight, Pushed
          <5>2. config[p] # NoConfig
            BY <1>0, <2>1, PollingAssumption DEF PollerInv, Registered
          <5>3. idle[p]
            BY <4>2, <5>1, <5>2 DEF IdleInv
          <5>4. QED
            BY <5>1, <5>3
        <4>3. QED
          BY <4>1, <4>2
      <3>5. ~stopClosed'[p] /\ (Unserved(p) => Unserved(p)')
        BY <3>1, <3>2 DEF Unserved, ServedRight
      <3>6. ~config'[p].push /\ (idle'[p] <=> idle[p])
        BY <2>4, <3>2, <3>3
      <3>7. QED
        BY <3>2, <3>4, <3>5, <3>6 DEF ServedRight
    <2>5. ASSUME NEW e \in Devices, NEW q \in Pollers, devices'[e] = q
          PROVE  /\ ~started' \/ e \in toStart' => Fresh(q)'
                 /\ muPc' \in {"start", "subscribe"} /\ muDev' = e => Fresh(q)'
                 /\ muPc' = "reset" /\ muDev' = e => Unserved(q)'
                 /\ muPc' = "subscribe" /\ muDev' = e => config'[q].push
                 /\ AtRest(e)' => ServedRight(q)'
      <3>1. CASE e = d
        BY <1>0, <2>1, <2>4, <2>5, <3>1 DEF AtRest
      <3>2. CASE e # d
        BY <1>0, <2>1, <2>3, <2>5, <3>2, SameServed DEF ServiceInv, AtRest
      <3>3. QED
        BY <3>1, <3>2
    <2>6. QED
      BY <1>1, <2>2, <2>5 DEF ServiceInv
  <1>5. QED
    BY <1>2, <1>3, <1>4 DEF Change, UnregisterDevice, DisableDevice

\* The holder of s.mu, who works on p, goes a step further.
LEMMA HolderService ==
  ASSUME IInv, PollsAreShort, ServiceInv, IdleInv, ~ctxDone, NEW p \in Pollers,
         \/ StopPoller(p) \/ WaitEnds(p) \/ ResetPoller(p) \/ NothingToStart(p)
         \/ DelegateToSubscription(p) \/ SubscribeSucceeds(p) \/ SubscribeFails(p)
         \/ \E t \in Threads : StartPoller(p, t)
  PROVE  ServiceInv'
  <1>0. /\ TypeOK /\ PollerInv
        /\ muDev \in Devices /\ devices[muDev] = p /\ muPc # "free"
        /\ UNCHANGED <<devices, config, idle, muDev, toStart, started>>
        /\ ~subscribed[p] /\ started /\ muDev \notin toStart
    BY PollingAssumption
    DEF StopPoller, WaitEnds, ResetPoller, NothingToStart, DelegateToSubscription, SubscribeSucceeds,
        SubscribeFails, StartPoller, HolderStep, At, serviceVars, mainVars, IInv, PollerInv, Registered
  \* It is enough to know p after the step; the other pollers are as they were.
  <1>1. ASSUME \A t \in Threads : sel'[t] \in {"none", "current"},
               \A t \in Threads : pc'[t] = "exiting" => stopClosed'[dp'[t]],
               \A q \in Pollers : q # p => Same(q),
               muPc' \in {"start", "subscribe"} => Fresh(p)',
               muPc' = "reset" => Unserved(p)',
               muPc' = "subscribe" => config[p].push,
               muPc' = "free" => ServedRight(p)'
        PROVE  ServiceInv'
    <2> SUFFICES ASSUME NEW e \in Devices, NEW q \in Pollers, devices'[e] = q
                 PROVE  /\ ~started' \/ e \in toStart' => Fresh(q)'
                        /\ muPc' \in {"start", "subscribe"} /\ muDev' = e => Fresh(q)'
                        /\ muPc' = "reset" /\ muDev' = e => Unserved(q)'
                        /\ muPc' = "subscribe" /\ muDev' = e => config'[q].push
                        /\ AtRest(e)' => ServedRight(q)'
      BY <1>1 DEF ServiceInv
    <2>1. CASE e = muDev
      BY <1>0, <1>1, <2>1 DEF AtRest
    <2>2. CASE e # muDev
      <3>1. devices[e] = q /\ q # p
        BY <1>0, <2>2 DEF PollerInv, Registered, TypeOK
      <3>2. Same(q)
        BY <1>1, <3>1
      <3>3. QED
        BY <1>0, <2>2, <3>1, <3>2, SameServed DEF ServiceInv, AtRest
    <2>3. QED
      BY <2>1, <2>2
  <1>2. ASSUME UNCHANGED threadVars
        PROVE  \A q \in Pollers : ThreadsOf(q)' = ThreadsOf(q)
    BY <1>2 DEF threadVars, ThreadsOf, Live
  <1>3. CASE StopPoller(p)
    <2>1. /\ UNCHANGED <<running, subscribed, threadVars>>
          /\ stopClosed' = [stopClosed EXCEPT ![p] = @ \/ running[p]]
          /\ muPc' = IF running[p] THEN "wait" ELSE "reset"
      BY <1>3 DEF StopPoller, HolderStep, At
    <2>2. \A q \in Pollers : q # p => Same(q)
      BY <1>0, <1>2, <2>1 DEF Same, TypeOK
    <2>3. \A t \in Threads : pc'[t] = "exiting" => stopClosed'[dp'[t]]
      BY <1>0, <2>1 DEF ServiceInv, threadVars, TypeOK, PollerInv, Live
    <2>4. muPc' = "reset" => Unserved(p)'
      BY <1>0, <1>2, <2>1, NotRunning DEF Unserved
    <2>5. QED
      BY <1>1, <2>1, <2>2, <2>3, <2>4 DEF ServiceInv, threadVars
  <1>4. CASE WaitEnds(p)
    <2>1. /\ UNCHANGED <<stopClosed, subscribed, threadVars>>
          /\ running' = [running EXCEPT ![p] = FALSE]
          /\ muPc' = "reset"
          /\ ~running[p] \/ DeadlinePasses(p)
      BY <1>4 DEF WaitEnds, HolderStep, At
    <2>2. ThreadsOf(p) = {}
      BY <2>1, NotRunning DEF DeadlinePasses
    <2>3. \A q \in Pollers : q # p => Same(q)
      BY <1>0, <1>2, <2>1 DEF Same, TypeOK
    <2>4. Unserved(p)'
      BY <1>0, <1>2, <2>1, <2>2 DEF Unserved, TypeOK
    <2>5. QED
      BY <1>1, <2>1, <2>3, <2>4 DEF ServiceInv, threadVars
  <1>5. CASE ResetPoller(p)
    <2>1. /\ UNCHANGED <<running, subscribed, pc, dp>>
          /\ stopClosed' = [stopClosed EXCEPT ![p] = FALSE]
          /\ sel' = SelAfterReset(p)
          /\ muPc = "reset" /\ muPc' = "start"
      BY <1>5 DEF ResetPoller, HolderStep, At
    <2>2. Unserved(p)
      BY <1>0, <2>1 DEF ServiceInv
    <2>3. \A t \in Threads : dp[t] # p
      BY <1>0, <2>2, PollingAssumption DEF Unserved, ThreadsOf, PollerInv, TypeOK
    <2>4. \A q \in Pollers : ThreadsOf(q)' = ThreadsOf(q)
      BY <2>1 DEF ThreadsOf, Live
    <2>5. \A q \in Pollers : q # p => Same(q)
      BY <1>0, <2>1, <2>4 DEF Same, TypeOK
    <2>6. \A t \in Threads : sel'[t] = sel[t]
      BY <2>1, <2>3 DEF SelAfterReset
    <2>7. \A t \in Threads : pc'[t] = "exiting" => stopClosed'[dp'[t]]
      BY <1>0, <2>1, <2>3 DEF ServiceInv, TypeOK
    <2>8. Fresh(p)'
      BY <1>0, <2>1, <2>2, <2>4 DEF Fresh, Unserved, TypeOK
    <2>9. QED
      BY <1>1, <2>1, <2>5, <2>6, <2>7, <2>8 DEF ServiceInv
  <1>6. CASE NothingToStart(p) \/ DelegateToSubscription(p)
    <2>1. /\ UNCHANGED <<stopClosed, running, subscribed, threadVars>>
          /\ muPc \in {"start", "subscribe"}
          /\ \/ muPc = "start" /\ running[p]
             \/ muPc = "subscribe" /\ ~config[p].tags /\ muPc' = "free"
             \/ muPc = "start" /\ config[p].push /\ muPc' = "subscribe"
      BY <1>6 DEF NothingToStart, DelegateToSubscription, HolderStep, At, pollerVars
    <2>2. Fresh(p)
      BY <1>0, <2>1 DEF ServiceInv
    <2>3. \A q \in Pollers : Same(q)
      BY <1>0, <1>2, <2>1 DEF Same
    <2>4. Fresh(p)'
      BY <2>2, <2>3, SameServed
    <2>5. ~running[p]
      BY <2>2 DEF Fresh, Unserved
    <2>6. muPc' = "free" => ServedRight(p)
      <3>1. muPc' = "free" => config[p].push /\ ~config[p].tags
        BY <1>0, <2>1, <2>5 DEF ServiceInv
      <3>2. QED
        BY <2>2, <3>1 DEF ServedRight, Fresh
    <2>7. muPc' = "free" => ServedRight(p)'
      BY <2>3, <2>6, SameServed
    <2>8. QED
      BY <1>1, <2>1, <2>3, <2>4, <2>5, <2>7 DEF ServiceInv, threadVars
  <1>7. CASE SubscribeSucceeds(p)
    <2>1. /\ UNCHANGED <<stopClosed, threadVars>> /\ config[p].tags
          /\ subscribed' = [subscribed EXCEPT ![p] = TRUE]
          /\ running' = [running EXCEPT ![p] = TRUE]
          /\ muPc = "subscribe" /\ muPc' = "free"
      BY <1>7 DEF SubscribeSucceeds, HolderStep, At
    <2>2. Fresh(p) /\ config[p].push
      BY <1>0, <2>1 DEF ServiceInv
    <2>3. \A q \in Pollers : q # p => Same(q)
      BY <1>0, <1>2, <2>1 DEF Same, TypeOK
    <2>4. ServedRight(p)'
      BY <1>0, <1>2, <2>1, <2>2 DEF ServedRight, Pushed, Fresh, Unserved, TypeOK
    <2>5. QED
      BY <1>1, <2>1, <2>3, <2>4 DEF ServiceInv, threadVars
  <1>8. CASE SubscribeFails(p)
    <2>1. /\ UNCHANGED <<stopClosed, threadVars>>
          /\ subscribed' = [subscribed EXCEPT ![p] = FALSE]
          /\ running' = [running EXCEPT ![p] = FALSE]
          /\ muPc = "subscribe" /\ muPc' = "start"
      BY <1>8 DEF SubscribeFails, HolderStep, At
    <2>2. Fresh(p)
      BY <1>0, <2>1 DEF ServiceInv
    <2>3. \A q \in Pollers : q # p => Same(q)
      BY <1>0, <1>2, <2>1 DEF Same, TypeOK
    <2>4. Fresh(p)'
      BY <1>0, <1>2, <2>1, <2>2 DEF Fresh, Unserved, TypeOK
    <2>5. QED
      BY <1>1, <2>1, <2>3, <2>4 DEF ServiceInv, threadVars
  <1>9. ASSUME NEW t \in Threads, StartPoller(p, t) PROVE ServiceInv'
    <2>1. /\ UNCHANGED <<stopClosed, subscribed, sel>> /\ ~config[p].push
          /\ running' = [running EXCEPT ![p] = TRUE]
          /\ pc' = [pc EXCEPT ![t] = "jitter"]
          /\ dp' = [dp EXCEPT ![t] = p]
          /\ ~Live(t) /\ dp[t] = NoPoller
          /\ muPc = "start" /\ muPc' = "free"
      BY <1>0, <1>9 DEF StartPoller, HolderStep, At, FreeThreads, PollerInv
    <2>2. Fresh(p)
      BY <1>0, <2>1 DEF ServiceInv
    <2>3. \A q \in Pollers : q # p => ThreadsOf(q)' = ThreadsOf(q)
      BY <1>0, <2>1 DEF ThreadsOf, Live, TypeOK
    <2>4. t \in ThreadsOf(p)'
      BY <1>0, <2>1 DEF ThreadsOf, Live, TypeOK
    <2>5. \A q \in Pollers : q # p => Same(q)
      BY <1>0, <2>1, <2>3 DEF Same, TypeOK
    <2>6. \A x \in Threads : pc'[x] = "exiting" => stopClosed'[dp'[x]]
      BY <1>0, <2>1 DEF ServiceInv, TypeOK
    <2>6a. ~idle[p]
      BY <1>0, <2>1 DEF IdleInv, AtRest
    <2>7. ServedRight(p)'
      <3>1. config'[p] = config[p] /\ idle'[p] = idle[p] /\ ~stopClosed'[p]
        BY <1>0, <2>1, <2>2 DEF Fresh
      <3>2. running'[p] /\ ~subscribed'[p] /\ ThreadsOf(p)' # {}
        BY <1>0, <2>1, <2>4 DEF TypeOK
      <3>3. QED
        BY <2>1, <2>6a, <3>1, <3>2 DEF ServedRight
    <2>8. QED
      BY <1>1, <2>1, <2>5, <2>6, <2>7 DEF ServiceInv
  <1>10. QED
    BY <1>3, <1>4, <1>5, <1>6, <1>7, <1>8, <1>9

\* A poller goroutine: one that leaves had its channel closed, and so its poller is
\* neither at rest nor about to be started.
LEMMA PollerService ==
  ASSUME IInv, PollsAreShort, ServiceInv, ~ctxDone, NEW t \in Threads, Poller(t)
  PROVE  ServiceInv'
  <1>0. /\ TypeOK /\ PollerInv
        /\ UNCHANGED <<devices, config, idle, stopClosed, subscribed, muVars, started>>
    BY DEF Poller, JitterEnds, PollSkipped, PollStarts, PollEnds, EnterSelect, Tick, LeaveLoop, Exit,
           ThreadStep, pollerVars, muVars, serviceVars, mainVars, IInv
  <1>1. CASE ~Exit(t)
    <2>1. /\ UNCHANGED <<running, dp>>
          /\ \E to \in {"poll", "loop", "reading", "select", "exiting"} : pc' = [pc EXCEPT ![t] = to]
          /\ Live(t)
          /\ sel' = sel \/ \E s \in {"current", "none"} : sel' = [sel EXCEPT ![t] = s]
      BY <1>1 DEF Poller, JitterEnds, PollSkipped, PollStarts, PollEnds, EnterSelect, Tick, LeaveLoop,
                  ThreadStep, pollerVars, Live
    <2>2. \A q \in Pollers : ThreadsOf(q)' = ThreadsOf(q)
      BY <1>0, <2>1 DEF ThreadsOf, Live, TypeOK
    <2>3. \A q \in Pollers : Same(q)
      BY <1>0, <2>1, <2>2 DEF Same
    <2>4. \A x \in Threads : sel'[x] \in {"none", "current"}
      BY <1>0, <2>1 DEF ServiceInv, TypeOK
    <2>5. pc'[t] = "exiting" => stopClosed[dp[t]]
      BY <1>0, <1>1 DEF Poller, JitterEnds, PollSkipped, PollStarts, PollEnds, EnterSelect, Tick,
                        LeaveLoop, ThreadStep, Stopped, ServiceInv, TypeOK
    <2>6. \A x \in Threads : pc'[x] = "exiting" => stopClosed'[dp'[x]]
      BY <1>0, <2>1, <2>5 DEF ServiceInv, TypeOK
    <2>7. QED
      BY <1>0, <2>3, <2>4, <2>6, SameServed DEF ServiceInv, AtRest, muVars
  <1>2. CASE Exit(t)
    <2> DEFINE p == dp[t]
    <2>1. /\ pc[t] = "exiting" /\ p \in Pollers /\ stopClosed[p] /\ t \in ThreadsOf(p)
          /\ running' = [running EXCEPT ![p] = FALSE]
          /\ pc' = [pc EXCEPT ![t] = "none"]
          /\ dp' = [dp EXCEPT ![t] = NoPoller]
          /\ sel' = sel
      BY <1>0, <1>2 DEF Exit, ServiceInv, ThreadsOf, PollerInv, Live, TypeOK
    <2>2. \A q \in Pollers : q # p => ThreadsOf(q)' = ThreadsOf(q)
      BY <1>0, <2>1, PollingAssumption DEF ThreadsOf, Live, TypeOK
    <2>3. \A q \in Pollers : q # p => Same(q)
      BY <1>0, <2>1, <2>2 DEF Same, TypeOK
    <2>4. ~Fresh(p) /\ ~Unserved(p) /\ ~ServedRight(p)
      BY <2>1 DEF Fresh, Unserved, ServedRight
    <2>5. \A x \in Threads : pc'[x] = "exiting" => stopClosed'[dp'[x]]
      BY <1>0, <2>1 DEF ServiceInv, TypeOK
    <2> HIDE DEF p
    <2>6. ASSUME NEW e \in Devices, NEW q \in Pollers, devices'[e] = q
          PROVE  /\ ~started' \/ e \in toStart' => Fresh(q)'
                 /\ muPc' \in {"start", "subscribe"} /\ muDev' = e => Fresh(q)'
                 /\ muPc' = "reset" /\ muDev' = e => Unserved(q)'
                 /\ muPc' = "subscribe" /\ muDev' = e => config'[q].push
                 /\ AtRest(e)' => ServedRight(q)'
      <3>1. CASE q = p
        BY <1>0, <2>4, <2>6, <3>1 DEF ServiceInv, AtRest, muVars
      <3>2. CASE q # p
        BY <1>0, <2>3, <2>6, <3>2, SameServed DEF ServiceInv, AtRest, muVars
      <3>3. QED
        BY <3>1, <3>2
    <2>7. QED
      BY <2>1, <2>5, <2>6 DEF ServiceInv
  <1>3. QED
    BY <1>1, <1>2

\* A change of configuration keeps what idle records.
LEMMA ChangeIdle ==
  ASSUME IInv, ServiceInv, IdleInv, ~ctxDone, NEW d \in Devices, Change(d)
  PROVE  IdleInv'
  <1>0. /\ TypeOK /\ PollerInv /\ muPc = "free" /\ toStart = {} /\ NoPoller \notin Pollers
        /\ UNCHANGED <<started, toStart>>
    BY PollingAssumption
    DEF IInv, Change, RegisterDevice, UnregisterDevice, DisableDevice, ReplaceDevice, Remove, Hold,
        MuFree, muVars, mainVars
  <1>1. \A e \in Devices : AtRest(e) <=> started
    BY <1>0 DEF AtRest
  <1>2. ASSUME NEW c \in Configs, NEW p \in Pollers, RegisterDevice(d, c, p) PROVE IdleInv'
    <2>1. /\ devices' = [devices EXCEPT ![d] = p] /\ config' = [config EXCEPT ![p] = c]
          /\ idle' = [idle EXCEPT ![p] = c.push /\ ~c.tags]
          /\ \A e \in Devices : devices[e] # p
      BY <1>2 DEF RegisterDevice, FreePollers
    <2>2. \A e \in Devices : e # d /\ AtRest(e) => AtRest(e)'
      BY <1>0, <1>2 DEF RegisterDevice, Hold, AtRest, muVars, mainVars
    <2>3. \A q \in Pollers : q # p => config'[q] = config[q] /\ idle'[q] = idle[q]
      BY <1>0, <2>1 DEF TypeOK
    <2>4. config'[p] = c /\ idle'[p] = (c.push /\ ~c.tags)
      BY <1>0, <2>1 DEF TypeOK
    <2>5. \A e \in Devices : e # d => devices'[e] = devices[e] /\ devices[e] # p
      BY <1>0, <2>1 DEF TypeOK
    <2>6. devices'[d] = p
      BY <1>0, <2>1 DEF TypeOK
    <2>7. QED
      BY <2>2, <2>3, <2>4, <2>5, <2>6 DEF IdleInv
  <1>3. ASSUME devices[d] # NoPoller, Remove(d, devices[d]) PROVE IdleInv'
    <2>1. devices' = [devices EXCEPT ![d] = NoPoller] /\ UNCHANGED <<config, idle, muPc, muDev>>
      BY <1>3 DEF Remove, muVars
    <2>2. \A e \in Devices : devices'[e] \in Pollers => devices'[e] = devices[e]
      BY <1>0, <2>1 DEF TypeOK
    <2>3. \A e \in Devices : AtRest(e)' <=> AtRest(e)
      BY <1>0, <2>1 DEF AtRest
    <2>4. QED
      BY <2>1, <2>2, <2>3 DEF IdleInv
  <1>4. ASSUME NEW c \in Configs, ReplaceDevice(d, c) PROVE IdleInv'
    <2>0. PICK p \in Pollers : p = devices[d]
      BY <1>0, <1>4 DEF ReplaceDevice, TypeOK
    <2>1. /\ started /\ devices' = devices /\ config' = [config EXCEPT ![p] = c]
          /\ idle' = [idle EXCEPT ![p] = IF c.push THEN ~c.tags
                                         ELSE @ /\ config[p].interval = c.interval]
          /\ \/ muPc' = "free"
             \/ muPc' = "stop" /\ muDev' = d
                  /\ (subscribed[p] \/ c.push \/ config[p].interval # c.interval)
      BY <1>0, <1>4, <2>0 DEF ReplaceDevice, Hold, muVars
    <2>2. \A e \in Devices : e # d => devices[e] # p
      BY <1>0, <2>0 DEF PollerInv, Registered
    <2>3. \A e \in Devices : e # d => AtRest(e)'
      BY <1>0, <2>1 DEF AtRest
    <2>4. \A q \in Pollers : q # p => config'[q] = config[q] /\ idle'[q] = idle[q]
      BY <1>0, <2>1 DEF TypeOK
    <2>5. /\ config'[p] = c
          /\ idle'[p] = IF c.push THEN ~c.tags ELSE idle[p] /\ config[p].interval = c.interval
      BY <1>0, <2>1 DEF TypeOK
    <2>6. subscribed[p] => ~idle[p]
      <3>1. ServedRight(p) /\ config[p] # NoConfig
        BY <1>0, <1>1, <2>0, <2>1, PollingAssumption DEF ServiceInv, PollerInv, Registered
      <3>2. QED
        BY <3>1 DEF ServedRight, Unserved, IdleInv
    <2>7. ~AtRest(d)' => c.push \/ ~idle'[p]
      <3>1. ~AtRest(d)' => subscribed[p] \/ c.push \/ config[p].interval # c.interval
        BY <1>0, <2>1 DEF AtRest
      <3>2. QED
        BY <2>5, <2>6, <3>1
    <2>8. UNCHANGED devices
      BY <2>1
    <2>9. ASSUME NEW e \in Devices, devices[e] \in Pollers, ~AtRest(e)'
          PROVE  config'[devices[e]].push \/ ~idle'[devices[e]]
      BY <2>0, <2>3, <2>5, <2>7, <2>9
    <2>10. ASSUME NEW q \in Pollers, config'[q] # NoConfig, config'[q].push
           PROVE  idle'[q] <=> ~config'[q].tags
      <3>1. CASE q = p
        BY <2>5, <2>10, <3>1
      <3>2. CASE q # p
        BY <2>4, <2>10, <3>2 DEF IdleInv
      <3>3. QED
        BY <3>1, <3>2
    <2>11. ASSUME NEW e \in Devices, NEW q \in Pollers, devices'[e] = q, ~AtRest(e)'
           PROVE  config'[q].push \/ ~idle'[q]
      BY <2>8, <2>9, <2>11
    <2>12. QED
      BY <2>10, <2>11 DEF IdleInv
  <1>5. QED
    BY <1>2, <1>3, <1>4 DEF Change, UnregisterDevice, DisableDevice

\* ... and so does every other step: none changes a configuration, and a device that
\* waits to be started was waiting or in hand before.
LEMMA NextIdle ==
  ASSUME IInv, ServiceInv, IdleInv, [Next]_vars, ~ctxDone'
  PROVE  IdleInv'
  <1>1. CASE \E d \in Devices : Change(d)
    <2>1. ~ctxDone
      BY <1>1 DEF Change, RegisterDevice, UnregisterDevice, DisableDevice, ReplaceDevice, Remove,
                  mainVars
    <2>2. QED
      BY <1>1, <2>1, ChangeIdle
  <1>2. ASSUME UNCHANGED <<devices, config, idle>>,
               \A e \in Devices : AtRest(e) => AtRest(e)'
        PROVE  IdleInv'
    BY <1>2 DEF IdleInv
  <1>3. ASSUME NEW p \in Pollers,
               \/ StopPoller(p) \/ WaitEnds(p) \/ ResetPoller(p) \/ NothingToStart(p)
               \/ DelegateToSubscription(p) \/ SubscribeSucceeds(p) \/ SubscribeFails(p)
               \/ \E t \in Threads : StartPoller(p, t)
        PROVE  IdleInv'
    <2>1. /\ UNCHANGED <<devices, config, idle, muDev, toStart, started>>
          /\ muPc # "free"
      BY <1>3 DEF StopPoller, WaitEnds, ResetPoller, NothingToStart, DelegateToSubscription,
                  SubscribeSucceeds, SubscribeFails, StartPoller, HolderStep, At, serviceVars, mainVars
    <2>2. QED
      BY <1>2, <2>1 DEF AtRest
  <1>4. ASSUME NEW d \in Devices, StartNext(d) PROVE IdleInv'
    BY <1>2, <1>4 DEF StartNext, AtRest, pollerVars, serviceVars, mainVars
  <1>5. ASSUME \/ \E t \in Threads : Poller(t)
               \/ \E d \in Devices : HandlerDrops(d)
               \/ MainExits \/ UNCHANGED vars
        PROVE  IdleInv'
    <2>1. UNCHANGED <<devices, config, idle, muPc, muDev, toStart, started>>
      BY <1>5 DEF Poller, JitterEnds, PollSkipped, PollStarts, PollEnds, EnterSelect, Tick, LeaveLoop,
                  Exit, ThreadStep, HandlerDrops, MainExits, vars, pollerVars, muVars, serviceVars,
                  mainVars
    <2>2. QED
      BY <1>2, <2>1 DEF AtRest
  <1>6. CASE Start
    BY <1>2, <1>6 DEF Start, AtRest, pollerVars
  <1>7. CASE Stop
    <2>1. stopPc # "no" => ctxDone
      BY DEF IInv, PollerInv
    <2>2. ctxDone'
      BY <1>7, <2>1 DEF Stop, StopBegins, StopDrained, StopTimesOut, StopReturns
    <2>3. QED
      BY <2>2
  <1>8. QED
    BY <1>1, <1>3, <1>4, <1>5, <1>6, <1>7 DEF Next, Continue

\* Every step until main stops.
LEMMA NextService ==
  ASSUME IInv, PollsAreShort, ~ctxDone => ServiceInv /\ IdleInv, [Next]_vars
  PROVE  ~ctxDone' => ServiceInv' /\ IdleInv'
  <1> SUFFICES ASSUME ~ctxDone' PROVE ServiceInv' /\ IdleInv'
    OBVIOUS
  <1>1. ctxDone => ctxDone'
    BY DEF Next, Change, RegisterDevice, UnregisterDevice, DisableDevice, ReplaceDevice, Remove,
           Continue, StopPoller, WaitEnds, ResetPoller, NothingToStart, DelegateToSubscription,
           SubscribeSucceeds, SubscribeFails, StartPoller, HolderStep, StartNext, Poller, JitterEnds,
           PollSkipped, PollStarts, PollEnds, EnterSelect, Tick, LeaveLoop, Exit, ThreadStep, Start,
           Stop, StopBegins, StopDrained, StopTimesOut, StopReturns, MainExits, HandlerDrops, vars,
           serviceVars, mainVars
  <1>2. ~ctxDone /\ ServiceInv /\ IdleInv
    BY <1>1
  <1>2a. IdleInv'
    BY <1>2, NextIdle
  <1>3. ASSUME \E d \in Devices : Change(d) PROVE ServiceInv'
    BY <1>2, <1>3, ChangeService
  <1>4. ASSUME NEW d \in Devices, StartNext(d) PROVE ServiceInv'
    <2>1. \A q \in Pollers : Same(q)
      BY <1>4 DEF StartNext, Same, ThreadsOf, Live, pollerVars, threadVars
    <2>2. /\ d \in toStart /\ toStart' = toStart \ {d} /\ muPc = "free"
          /\ muPc' = "start" /\ muDev' = d
          /\ UNCHANGED <<devices, config, stopClosed, started, threadVars>>
      BY <1>4 DEF StartNext, pollerVars, serviceVars, mainVars
    <2>3. QED
      BY <1>2, <2>1, <2>2, SameServed DEF ServiceInv, AtRest, threadVars
  <1>5. ASSUME Continue PROVE ServiceInv'
    BY <1>2, <1>4, <1>5, HolderService DEF Continue
  <1>6. ASSUME \E t \in Threads : Poller(t) PROVE ServiceInv'
    BY <1>2, <1>6, PollerService
  <1>7. ASSUME Start PROVE ServiceInv'
    <2>1. \A q \in Pollers : Same(q)
      BY <1>7 DEF Start, Same, ThreadsOf, Live, pollerVars, threadVars
    <2>2. /\ ~started /\ started' /\ toStart' = Registered /\ muPc = "free"
          /\ UNCHANGED <<devices, config, stopClosed, muPc, muDev, threadVars>>
      BY <1>7 DEF Start, MuFree, pollerVars
    <2>3. \A e \in Devices : devices[e] \in Pollers => e \in Registered
      BY PollingAssumption DEF Registered
    <2>4. QED
      BY <1>2, <2>1, <2>2, <2>3, SameServed DEF ServiceInv, AtRest, threadVars
  <1>8. ASSUME Stop PROVE ServiceInv'
    <2>1. stopPc = "no"
      BY <1>2 DEF IInv, PollerInv
    <2>2. StopBegins
      BY <1>8, <2>1 DEF Stop, StopDrained, StopTimesOut, StopReturns
    <2>3. QED
      BY <2>2 DEF StopBegins
  <1>9. ASSUME MainExits \/ UNCHANGED vars PROVE ServiceInv'
    <2>1. UNCHANGED vars
      BY <1>9 DEF MainExits
    <2>2. \A q \in Pollers : Same(q)
      BY <2>1 DEF vars, Same, ThreadsOf, Live, pollerVars, threadVars
    <2>3. UNCHANGED <<devices, config, stopClosed, muPc, muDev, toStart, started, pc, dp, sel>>
      BY <2>1 DEF vars, pollerVars, muVars, serviceVars, mainVars, threadVars
    <2>4. QED
      BY <1>2, <2>2, <2>3, SameServed DEF ServiceInv, AtRest
  <1>10. ASSUME NEW d \in Devices, HandlerDrops(d) PROVE ServiceInv'
    <2>1. \A q \in Pollers : Same(q)
      BY <1>10 DEF HandlerDrops, Same, ThreadsOf, Live, pollerVars, threadVars
    <2>2. UNCHANGED <<devices, config, stopClosed, muPc, muDev, toStart, started, pc, dp, sel>>
      BY <1>10 DEF HandlerDrops, pollerVars, muVars, serviceVars, mainVars, threadVars
    <2>3. QED
      BY <1>2, <2>1, <2>2, SameServed DEF ServiceInv, AtRest
  <1>11. ServiceInv'
    BY <1>3, <1>5, <1>6, <1>7, <1>8, <1>9, <1>10 DEF Next
  <1>12. QED
    BY <1>2a, <1>11

\* If goroutines answer in time, between two changes every device is polled by a
\* goroutine that nobody told to stop, or subscribed, as its configuration asks, and
\* GetDeviceStatus says so (polling.go: ReplaceDevice, stopAndResetPoller); the only
\* one that is not polled although it asks for it had no tags to push and then only
\* configurations for polling at its old interval.
THEOREM DevicesServedAsAsked ==
  ASSUME PollsAreShort
  PROVE  Spec => []ServedAsAsked
  <1>1. Spec => []IInv
    BY InitInv, NextInv, PTL DEF Spec
  <1>2. Init => (~ctxDone => ServiceInv /\ IdleInv)
    BY InitService
  <1>3. IInv /\ (~ctxDone => ServiceInv /\ IdleInv) /\ [Next]_vars => (~ctxDone => ServiceInv /\ IdleInv)'
    BY PollsAreShort, NextService
  <1>4. IInv /\ (~ctxDone => ServiceInv /\ IdleInv) => ServedAsAsked
    <2> SUFFICES ASSUME IInv, ~ctxDone => ServiceInv /\ IdleInv, Settled, NEW d \in Registered
                 PROVE  LET p == devices[d]
                        IN  IF config[p].push /\ config[p].tags THEN Pushed(p)
                            ELSE IF config[p].push \/ idle[p] THEN Unserved(p)
                            ELSE Polled(p)
      BY DEF ServedAsAsked
    <2>1. PICK p \in Pollers : p = devices[d]
      BY DEF IInv, TypeOK, Registered
    <2>2. ServiceInv /\ ServedRight(p)
      BY <2>1 DEF Settled, ServiceInv, AtRest, Registered
    <2>3. ASSUME running[p], ~subscribed[p], ThreadsOf(p) # {} PROVE Polled(p)
      <3>1. PICK t \in ThreadsOf(p) : TRUE
        BY <2>3
      <3>2. pc[t] # "exiting" /\ ~stopClosed[p]
        BY <2>2 DEF ServiceInv, ServedRight, ThreadsOf
      <3>3. QED
        BY <2>3, <3>2 DEF Polled
    <2>4. QED
      BY <2>1, <2>2, <2>3 DEF ServedRight
  <1>5. QED
    BY <1>1, <1>2, <1>3, <1>4, PTL DEF Spec
=============================================================================
