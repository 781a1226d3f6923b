---------------------------- MODULE Opcua_proofs ----------------------------
(***************************************************************************)
(* Proofs about the OPC UA side of the gateway.  About OpcuaSessions, for  *)
(* all sets of devices, endpoints, callers and work: type correctness,     *)
(* that bindings and sessions agree, that requests go where they were      *)
(* asked to go, that a closed pool stays empty, that subscribed sessions   *)
(* are connected, and that a shared connection stays as long as its        *)
(* session is in the pool.                                                 *)
(*                                                                         *)
(* About LoadShaping, for every number of operations, servers and workers, *)
(* and every limit: the counters are true, and the answers are honest.     *)
(***************************************************************************)
EXTENDS OpcuaSessions, LoadShaping, FiniteSetTheorems, TLAPS

\* Endpoint keys, strays and "none" are different things.
LEMMA SessionKinds ==
    /\ NoEndpoint \notin Sessions
    /\ \A e \in Endpoints : e \notin Strays
    /\ \A e \in Endpoints : <<e, "reaper">> \in Strays /\ <<e, "close">> \in Strays
  BY OpcuaAssumption DEF Sessions, Strays

LEMMA NoCallTyped ==
    /\ NoCall \in Calls
    /\ NoCall.pc = "idle" /\ NoCall.pc \notin Working
    /\ NoCall.ref = NoEndpoint
  BY DEF NoCall, Calls, CallPcs, Kinds, Working

\* A call goes on to another step.
LEMMA StepTyped ==
  ASSUME CallsTyped, NEW c \in Callers, NEW where \in CallPcs \ {"client", "lookup"}, Step(c, where),
         call[c].pc # "idle",
         where \in Working => call[c].ref \in Sessions
  PROVE  CallsTyped'
  BY DEF CallsTyped, Step, Calls

\* A call goes on with a session.
LEMMA UseTyped ==
  ASSUME CallsTyped, NEW c \in Callers, NEW where \in CallPcs \ {"client"}, NEW s \in Sessions,
         call[c].pc # "idle", UseSession(c, s, where)
  PROVE  CallsTyped'
  <1> DEFINE new == [call[c] EXCEPT !.pc = where, !.ref = s]
  <1>1. call \in [Callers -> Calls] /\ call[c] \in Calls
    BY DEF CallsTyped
  <1>2. /\ new \in Calls
        /\ new.pc = where /\ new.ref = s /\ new.dev = call[c].dev
    BY <1>1 DEF Calls
  <1>3. call[c].dev \in Devices
    BY DEF CallsTyped
  <1>4. call' = [call EXCEPT ![c] = new]
    BY <1>1 DEF UseSession
  <1> HIDE DEF new
  <1>5. call' \in [Callers -> Calls]
    BY <1>1, <1>2, <1>4
  <1>6. call'[c] = new /\ \A x \in Callers \ {c} : call'[x] = call[x]
    BY <1>1, <1>4
  <1>7. ASSUME NEW x \in Callers
        PROVE  /\ call'[x].pc # "idle" => call'[x].dev \in Devices
               /\ call'[x].pc = "client" => call'[x].key \in Endpoints
               /\ call'[x].pc \in Working => call'[x].ref \in Sessions
               /\ call'[x].pc = "lookup" /\ call'[x].kind \in {"read", "write"}
                     => call'[x].ref \in Sessions
    <2>1. CASE x = c
      BY <1>2, <1>3, <1>6, <2>1
    <2>2. CASE x # c
      BY <1>6, <2>2 DEF CallsTyped
    <2> QED
      BY <2>1, <2>2
  <1> QED
    BY <1>5, <1>7 DEF CallsTyped

\* A call returns.
LEMMA ReturnTyped ==
  ASSUME CallsTyped, NEW c \in Callers, NEW conn \in [Sessions -> BOOLEAN],
         ReturnWith(c, conn)
  PROVE  CallsTyped' /\ connected' \in [Sessions -> BOOLEAN]
  <1>1. CallsTyped'
    BY NoCallTyped DEF CallsTyped, ReturnWith
  <1>2. connected' \in [Sessions -> BOOLEAN]
    BY DEF ReturnWith, Forget
  <1> QED
    BY <1>1, <1>2

\* A call makes its next attempt, or returns.
LEMMA AttemptTyped ==
  ASSUME CallsTyped, NEW c \in Callers, NEW conn \in [Sessions -> BOOLEAN],
         call[c].pc # "idle", call[c].ref \in Sessions, NextAttempt(c, conn)
  PROVE  CallsTyped' /\ connected' \in [Sessions -> BOOLEAN]
  <1>1. CASE ReturnWith(c, conn)
    BY <1>1, ReturnTyped
  <1>2. CASE /\ call' = [call EXCEPT ![c].pc = "io", ![c].tries = @ + 1]
             /\ connected' = conn
    BY <1>2 DEF CallsTyped, Calls, CallPcs, Working
  <1> QED
    BY <1>1, <1>2 DEF NextAttempt

\* Those who held dropped sessions hold strays.
LEMMA StraysTyped ==
  ASSUME CallsTyped, NEW dropped \in SUBSET Endpoints, NEW by \in {"reaper", "close"},
         checking \in Sessions \cup {NoEndpoint}, BecomeStrays(dropped, by)
  PROVE  /\ CallsTyped'
         /\ checking' \in Sessions \cup {NoEndpoint}
         /\ connected' \in [Sessions -> BOOLEAN]
  <1> DEFINE Dropped(s) == IF s \in dropped THEN <<s, by>> ELSE s
  <1>1. \A s \in Sessions \cup {NoEndpoint} : Dropped(s) \in Sessions \cup {NoEndpoint}
    BY DEF Sessions, Strays
  <1>2. \A s \in Sessions : Dropped(s) \in Sessions
    BY DEF Sessions, Strays
  <1>3. call' = [c \in Callers |-> [call[c] EXCEPT !.ref = Dropped(@)]]
    BY DEF BecomeStrays
  <1>4. CallsTyped'
    <2> HIDE DEF Dropped
    <2>1. \A c \in Callers : call[c] \in Calls /\ Dropped(call[c].ref) \in Sessions \cup {NoEndpoint}
      BY <1>1 DEF CallsTyped, Calls, Sessions
    <2>2. call' \in [Callers -> Calls]
      BY <1>3, <2>1 DEF Calls
    <2>3. \A c \in Callers : call'[c] = [call[c] EXCEPT !.ref = Dropped(@)]
      BY <1>3, <2>1 DEF Calls
    <2>4. \A c \in Callers : /\ call'[c].pc = call[c].pc /\ call'[c].dev = call[c].dev
                              /\ call'[c].key = call[c].key /\ call'[c].kind = call[c].kind
                              /\ call'[c].ref = Dropped(call[c].ref)
      BY <2>1, <2>3 DEF Calls
    <2> QED
      BY <2>2, <2>4, <1>2 DEF CallsTyped
  <1>5. connected' = [s \in Sessions |-> s \notin dropped /\ connected[s]]
    BY DEF BecomeStrays
  <1> QED
    BY <1>1, <1>4, <1>5 DEF BecomeStrays

-----------------------------------------------------------------------------
\* TypeOK without the calls.
PoolTyped ==
    /\ sessions \subseteq Endpoints
    /\ devices \in [Devices -> Endpoints \cup {NoEndpoint}]
    /\ mu \in {"free", "reaper"}
    /\ closePc \in {"open", "waiting", "closed"}
    /\ bound \in [Endpoints -> SUBSET Devices]
    /\ subs \in [Endpoints -> SUBSET Devices]
    /\ recent \in [Endpoints -> BOOLEAN]
    /\ addr \in [Devices -> Endpoints]

ReaperTyped ==
    /\ reapPc \in {"idle", "lock", "judge", "close"}
    /\ toReap \subseteq Endpoints
    /\ reaping \in Endpoints \cup {NoEndpoint}
    /\ reapPc = "close" => reaping \in Endpoints

LinksTyped ==
    /\ connected \in [Sessions -> BOOLEAN]
    /\ checking \in Sessions \cup {NoEndpoint}

LEMMA TypeParts == TypeOK <=> PoolTyped /\ ReaperTyped /\ LinksTyped /\ CallsTyped
  BY DEF TypeOK, PoolTyped, ReaperTyped, LinksTyped

LEMMA TypePartsNext == PoolTyped' /\ ReaperTyped' /\ LinksTyped' /\ CallsTyped' => TypeOK'
  BY DEF TypeOK, PoolTyped, ReaperTyped, LinksTyped

\* The initial states are typed.
LEMMA InitType == Init => TypeOK
  <1> SUFFICES ASSUME Init PROVE TypeOK
    OBVIOUS
  <1> USE DEF Init
  <1>1. PoolTyped
    BY OpcuaAssumption DEF PoolTyped
  <1>2. ReaperTyped /\ LinksTyped
    BY DEF ReaperTyped, LinksTyped
  <1>3. CallsTyped
    BY NoCallTyped DEF CallsTyped
  <1> QED
    BY <1>1, <1>2, <1>3, TypeParts

\* Every step of a caller keeps the types.
LEMMA CallerType ==
  ASSUME TypeOK, NEW c \in Callers,
         CallerStep(c) \/ \E kind \in Kinds, d \in Devices : Begin(c, kind, d)
  PROVE  TypeOK'
  <1>0. PoolTyped /\ ReaperTyped /\ LinksTyped /\ CallsTyped
    BY TypeParts
  <1>r. call[c] \in Calls
    BY <1>0 DEF CallsTyped
  <1> USE DEF poolVars, lockVars, sessionVars, reaperVars
  <1>1. ASSUME NEW kind \in Kinds, NEW d \in Devices, Begin(c, kind, d) PROVE TypeOK'
    <2> DEFINE new == [NoCall EXCEPT !.pc = IF kind \in {"browse", "unsubscribe"} THEN "lookup" ELSE "client",
                                     !.kind = kind, !.dev = d,
                                     !.key = IF kind \in {"browse", "unsubscribe"} THEN NoEndpoint ELSE addr[d]]
    <2>a. addr[d] \in Endpoints
      BY <1>0 DEF PoolTyped
    <2>b. /\ new \in Calls
          /\ new.pc = IF kind \in {"browse", "unsubscribe"} THEN "lookup" ELSE "client"
          /\ new.kind = kind /\ new.dev = d
          /\ new.pc = "client" => new.key \in Endpoints
      BY <2>a DEF NoCall, Calls, CallPcs, Kinds
    <2>c. call \in [Callers -> Calls] /\ call' = [call EXCEPT ![c] = new]
      BY <1>0, <1>1 DEF Begin, CallsTyped
    <2> HIDE DEF new
    <2>d. /\ call' \in [Callers -> Calls]
          /\ call'[c] = new /\ \A x \in Callers \ {c} : call'[x] = call[x]
      BY <2>b, <2>c
    <2>e. new.pc \notin Working /\ (new.pc = "lookup" => new.kind \notin {"read", "write"})
      BY <2>b DEF Working
    <2>1. CallsTyped'
      <3>1. ASSUME NEW x \in Callers
            PROVE  /\ call'[x].pc # "idle" => call'[x].dev \in Devices
                   /\ call'[x].pc = "client" => call'[x].key \in Endpoints
                   /\ call'[x].pc \in Working => call'[x].ref \in Sessions
                   /\ call'[x].pc = "lookup" /\ call'[x].kind \in {"read", "write"}
                         => call'[x].ref \in Sessions
        <4>1. CASE x = c
          BY <2>b, <2>d, <2>e, <4>1
        <4>2. CASE x # c
          BY <1>0, <2>d, <4>2 DEF CallsTyped
        <4> QED
          BY <4>1, <4>2
      <3> QED
        BY <2>d, <3>1 DEF CallsTyped
    <2>2. (PoolTyped /\ ReaperTyped /\ LinksTyped)'
      BY <1>0, <1>1 DEF Begin, PoolTyped, ReaperTyped, LinksTyped
    <2> QED
      BY <2>1, <2>2, TypePartsNext
  <1>d. \A x \in Callers : call[x].pc = "client" => call[x].dev \in Devices /\ call[x].key \in Endpoints
    BY <1>0 DEF CallsTyped
  <1>2. ASSUME GetClientRefused(c) PROVE TypeOK'
    <2>1. CallsTyped' /\ LinksTyped'
      BY <1>0, <1>2, ReturnTyped DEF GetClientRefused, Return, LinksTyped
    <2>2. PoolTyped' /\ ReaperTyped'
      BY <1>0, <1>2 DEF GetClientRefused, PoolTyped, ReaperTyped
    <2> QED
      BY <2>1, <2>2, TypePartsNext
  <1>3. ASSUME GetClientShared(c) PROVE TypeOK'
    <2> DEFINE d == call[c].dev
               e == call[c].key
    <2>1. call[c].pc = "client" /\ d \in Devices /\ e \in Endpoints /\ e \in Sessions
      BY <1>3, <1>d DEF GetClientShared, GetClientAdmitted, GetClientOf, Sessions
    <2>2. CallsTyped' /\ LinksTyped'
      <3>1. CASE ConnectOk(e) /\ UseSession(c, e, "lookup")
        BY <1>0, <1>3, <2>1, <3>1, UseTyped
           DEF GetClientShared, ConnectOk, LinksTyped, CallPcs, Working
      <3>2. CASE ConnectFails(e) /\ Return(c)
        BY <1>0, <1>3, <3>2, ReturnTyped DEF GetClientShared, Return, LinksTyped
      <3> QED
        BY <1>3, <3>1, <3>2 DEF GetClientShared
    <2>3. recent' \in [Endpoints -> BOOLEAN]
      BY <1>0, <1>3, <2>1 DEF GetClientShared, ConnectOk, ConnectFails, Touch, PoolTyped
    <2>4. bound' \in [Endpoints -> SUBSET Devices]
      BY <1>0, <1>3, <2>1 DEF GetClientShared, LeftBound, Moved, PoolTyped
    <2>5. devices' \in [Devices -> Endpoints \cup {NoEndpoint}]
      BY <1>0, <1>3, <2>1 DEF GetClientShared, LeftDevices, PoolTyped
    <2>6. PoolTyped' /\ ReaperTyped'
      BY <1>0, <1>3, <2>3, <2>4, <2>5 DEF GetClientShared, PoolTyped, ReaperTyped
    <2> QED
      BY <2>2, <2>6, TypePartsNext
  <1>w. call[c].pc \in Working => /\ call[c].ref \in Sessions /\ call[c].pc # "idle"
                                  /\ call[c].dev \in Devices
    BY <1>0 DEF CallsTyped, Working
  <1>4. ASSUME GetClientExhausted(c) PROVE TypeOK'
    <2>1. CallsTyped' /\ LinksTyped'
      BY <1>0, <1>4, ReturnTyped DEF GetClientExhausted, Return, LinksTyped
    <2>2. PoolTyped' /\ ReaperTyped'
      BY <1>0, <1>4
         DEF GetClientExhausted, LeftBound, LeftDevices, Moved, PoolTyped, ReaperTyped
    <2> QED
      BY <2>1, <2>2, TypePartsNext
  <1>5. ASSUME GetClientNew(c) PROVE TypeOK'
    <2> DEFINE d == call[c].dev
               e == call[c].key
    <2>1. call[c].pc = "client" /\ d \in Devices /\ e \in Endpoints /\ e \in Sessions
      BY <1>5, <1>d DEF GetClientNew, GetClientAdmitted, GetClientOf, Sessions
    <2>2. CallsTyped' /\ LinksTyped'
      <3>1. CASE connected' = [connected EXCEPT ![e] = TRUE] /\ UseSession(c, e, "lookup")
        BY <1>0, <1>5, <2>1, <3>1, UseTyped DEF GetClientNew, LinksTyped, CallPcs
      <3>2. CASE Return(c)
        BY <1>0, <1>5, <3>2, ReturnTyped DEF GetClientNew, Return, LinksTyped
      <3> QED
        BY <1>5, <3>1, <3>2 DEF GetClientNew
    <2>3. bound' \in [Endpoints -> SUBSET Devices]
      BY <1>0, <1>5, <2>1 DEF GetClientNew, LeftBound, Moved, PoolTyped
    <2>4. PoolTyped' /\ ReaperTyped'
      BY <1>0, <1>5, <2>1, <2>3 DEF GetClientNew, PoolTyped, ReaperTyped
    <2> QED
      BY <2>2, <2>4, TypePartsNext
  <1>6. ASSUME Lookup(c) PROVE TypeOK'
    <2> DEFINE s == devices[call[c].dev]
    <2>1. CallsTyped' /\ LinksTyped'
      <3>1. CASE Return(c)
        BY <1>0, <1>6, <3>1, ReturnTyped DEF Lookup, Return, LinksTyped
      <3>2. CASE Registered(s) /\ Proceed(c, s) /\ UNCHANGED connected
        <4>1. s \in Sessions /\ call[c].pc = "lookup"
          BY <1>0, <1>6, <3>2 DEF Lookup, Registered, PoolTyped, Sessions
        <4>2. CASE call[c].kind \in {"read", "write"} /\ Step(c, "call")
          <5>1. call[c].ref \in Sessions
            BY <1>0, <4>1, <4>2 DEF CallsTyped
          <5> QED
            BY <1>0, <1>6, <3>2, <4>1, <4>2, <5>1, StepTyped DEF Lookup, LinksTyped, CallPcs
        <4>3. CASE UseSession(c, s, "call")
          BY <1>0, <1>6, <3>2, <4>1, <4>3, UseTyped DEF Lookup, LinksTyped, CallPcs
        <4>4. CASE UseSession(c, s, "manage")
          BY <1>0, <1>6, <3>2, <4>1, <4>4, UseTyped DEF Lookup, LinksTyped, CallPcs
        <4> QED
          BY <3>2, <4>2, <4>3, <4>4 DEF Proceed
      <3> QED
        BY <1>6, <3>1, <3>2 DEF Lookup
    <2>2. PoolTyped' /\ ReaperTyped'
      BY <1>0, <1>6 DEF Lookup, PoolTyped, ReaperTyped
    <2> QED
      BY <2>1, <2>2, TypePartsNext
  <1>7. ASSUME CallRefused(c) PROVE TypeOK'
    <2>1. CallsTyped' /\ LinksTyped'
      BY <1>0, <1>7, ReturnTyped DEF CallRefused, Return, LinksTyped
    <2>2. PoolTyped' /\ ReaperTyped'
      BY <1>0, <1>7 DEF CallRefused, PoolTyped, ReaperTyped
    <2> QED
      BY <2>1, <2>2, TypePartsNext
  <1>8. ASSUME CallEnters(c) PROVE TypeOK'
    <2>1. CallsTyped' /\ LinksTyped'
      BY <1>0, <1>8, <1>w, StepTyped, ReturnTyped
         DEF CallEnters, Return, LinksTyped, CallPcs, Working
    <2>2. PoolTyped' /\ ReaperTyped'
      BY <1>0, <1>8, <1>w DEF CallEnters, PoolTyped, ReaperTyped, Touch, Working
    <2> QED
      BY <2>1, <2>2, TypePartsNext
  <1>9. ASSUME RequestReturns(c) PROVE TypeOK'
    <2>1. CallsTyped' /\ LinksTyped'
      BY <1>0, <1>9, ReturnTyped DEF RequestReturns, Return, LinksTyped
    <2>2. PoolTyped' /\ ReaperTyped'
      BY <1>0, <1>9 DEF RequestReturns, PoolTyped, ReaperTyped
    <2> QED
      BY <2>1, <2>2, TypePartsNext
  <1>10. ASSUME RequestFails(c) PROVE TypeOK'
    <2>1. CallsTyped' /\ LinksTyped'
      BY <1>0, <1>10, <1>w, StepTyped, AttemptTyped
         DEF RequestFails, LinksTyped, CallPcs, Working
    <2>2. PoolTyped' /\ ReaperTyped'
      BY <1>0, <1>10 DEF RequestFails, PoolTyped, ReaperTyped
    <2> QED
      BY <2>1, <2>2, TypePartsNext
  <1>11. ASSUME ReconnectDrops(c) PROVE TypeOK'
    <2>1. CallsTyped' /\ LinksTyped'
      BY <1>0, <1>11, <1>w, StepTyped
         DEF ReconnectDrops, LinksTyped, CallPcs, Working
    <2>2. PoolTyped' /\ ReaperTyped'
      BY <1>0, <1>11 DEF ReconnectDrops, PoolTyped, ReaperTyped
    <2> QED
      BY <2>1, <2>2, TypePartsNext
  <1>12. ASSUME ReconnectDials(c) PROVE TypeOK'
    <2>1. CallsTyped' /\ LinksTyped'
      <3>1. [connected EXCEPT ![call[c].ref] = TRUE] \in [Sessions -> BOOLEAN]
        BY <1>0 DEF LinksTyped
      <3> QED
        BY <1>0, <1>12, <1>w, <3>1, AttemptTyped
           DEF ReconnectDials, LinksTyped, CallPcs, Working
    <2>2. PoolTyped' /\ ReaperTyped'
      BY <1>0, <1>12, <1>w DEF ReconnectDials, PoolTyped, ReaperTyped, Touch, Working
    <2> QED
      BY <2>1, <2>2, TypePartsNext
  <1>13. ASSUME SubscribeOk(c) PROVE TypeOK'
    <2>1. CallsTyped' /\ LinksTyped'
      BY <1>0, <1>13, ReturnTyped DEF SubscribeOk, Return, LinksTyped
    <2>2. PoolTyped' /\ ReaperTyped'
      BY <1>0, <1>13, <1>w DEF SubscribeOk, PoolTyped, ReaperTyped, Touch, SetSubs, SubsOf, ManageOf, Working
    <2> QED
      BY <2>1, <2>2, TypePartsNext
  <1>14. ASSUME SubscribeFails(c) PROVE TypeOK'
    <2>1. CallsTyped' /\ LinksTyped'
      BY <1>0, <1>14, ReturnTyped DEF SubscribeFails, Return, LinksTyped
    <2>2. PoolTyped' /\ ReaperTyped'
      BY <1>0, <1>14, <1>w DEF SubscribeFails, PoolTyped, ReaperTyped, SetSubs, SubsOf, ManageOf, Working
    <2> QED
      BY <2>1, <2>2, TypePartsNext
  <1>15. ASSUME Unsubscribe(c) PROVE TypeOK'
    <2>1. CallsTyped' /\ LinksTyped'
      BY <1>0, <1>15, ReturnTyped DEF Unsubscribe, Return, LinksTyped
    <2>2. PoolTyped' /\ ReaperTyped'
      BY <1>0, <1>15, <1>w DEF Unsubscribe, PoolTyped, ReaperTyped, SetSubs, SubsOf, ManageOf, Working
    <2> QED
      BY <2>1, <2>2, TypePartsNext
  <1> QED
    BY <1>1, <1>2, <1>3, <1>4, <1>5, <1>6, <1>7, <1>8, <1>9, <1>10, <1>11, <1>12,
       <1>13, <1>14, <1>15
       DEF CallerStep, GetClient, Request, Reconnect, Manage

\* Every step of the reaper, the health checker, Close and the environment does.
LEMMA PoolType ==
  ASSUME TypeOK,
         \/ ReapScan \/ ReapLock \/ ReapClose \/ ReapUnlock \/ HealthCheck
         \/ CloseBegins \/ CloseEnds \/ UNCHANGED vars
         \/ \E e \in Endpoints : ReapJudge(e) \/ HealthPick(e) \/ IdleTimePasses(e)
         \/ \E d \in Devices, e \in Endpoints : Move(d, e)
  PROVE  TypeOK'
  <1>0. PoolTyped /\ ReaperTyped /\ LinksTyped /\ CallsTyped
    BY TypeParts
  <1> USE <1>0 DEF poolVars, lockVars, sessionVars, reaperVars
  <1>1. CASE ReapClose
    <2>1. reaping \in Endpoints
      BY <1>1 DEF ReapClose, ReaperTyped
    <2>2. CallsTyped' /\ LinksTyped'
      BY <1>1, <2>1, StraysTyped DEF ReapClose, LinksTyped
    <2>3. PoolTyped' /\ ReaperTyped'
      BY <1>1, <2>1 DEF ReapClose, PoolTyped, ReaperTyped
    <2> QED
      BY <2>2, <2>3, TypePartsNext
  <1>2. CASE CloseEnds
    <2>1. CallsTyped' /\ LinksTyped'
      BY <1>2, StraysTyped DEF CloseEnds, LinksTyped, PoolTyped
    <2>2. PoolTyped' /\ ReaperTyped'
      BY <1>2 DEF CloseEnds, PoolTyped, ReaperTyped
    <2> QED
      BY <2>1, <2>2, TypePartsNext
  <1>3. CASE ReapScan \/ ReapLock \/ ReapUnlock \/ \E e \in Endpoints : ReapJudge(e)
    BY <1>3, TypePartsNext
       DEF ReapScan, ReapLock, ReapJudge, ReapUnlock, PoolTyped, ReaperTyped, LinksTyped,
           CallsTyped
  <1>4. ASSUME NEW e \in Endpoints, HealthPick(e) PROVE TypeOK'
    BY <1>4, TypePartsNext
       DEF HealthPick, PoolTyped, ReaperTyped, LinksTyped, CallsTyped, Sessions
  <1>5. CASE HealthCheck
    <2>1. LinksTyped'
      BY <1>5 DEF HealthCheck, LinksTyped, Forget
    <2>2. PoolTyped'
      BY <1>5 DEF HealthCheck, PoolTyped, Touch
    <2> QED
      BY <1>5, <2>1, <2>2, TypePartsNext DEF HealthCheck, ReaperTyped, CallsTyped
  <1>6. CASE CloseBegins \/ UNCHANGED vars
    BY <1>6, TypePartsNext
       DEF CloseBegins, vars, PoolTyped, ReaperTyped, LinksTyped, CallsTyped
  <1>7. ASSUME NEW e \in Endpoints, IdleTimePasses(e) PROVE TypeOK'
    BY <1>7, TypePartsNext
       DEF IdleTimePasses, PoolTyped, ReaperTyped, LinksTyped, CallsTyped
  <1>8. ASSUME NEW d \in Devices, NEW e \in Endpoints, Move(d, e) PROVE TypeOK'
    <2>1. PoolTyped'
      BY <1>8 DEF Move, PoolTyped
    <2> QED
      BY <1>8, <2>1, TypePartsNext DEF Move, ReaperTyped, LinksTyped, CallsTyped
  <1> QED
    BY <1>1, <1>2, <1>3, <1>4, <1>5, <1>6, <1>7, <1>8

-----------------------------------------------------------------------------
\* A session that is held is registered, or a stray; a session that is not
\* registered has no subscriptions, and one that has some is connected, as is one
\* with a request under way; only strays are reconnected.
HeldInv ==
    /\ \A c \in Callers : call[c].ref \in Endpoints => call[c].ref \in sessions
    /\ checking \in Endpoints => checking \in sessions
    /\ \A e \in Endpoints \ sessions : subs[e] = {}
    /\ \A c \in Callers : call[c].pc = "io" /\ call[c].ref \in sessions => connected[call[c].ref]
    /\ \A c \in Callers : call[c].pc \in {"drop", "dial"} => call[c].ref \notin sessions

\* A read or write has the client of the endpoint it was asked for.
AskedInv ==
    \A c \in Callers :
        /\ call[c].kind \in {"read", "write"}
        /\ call[c].pc \in {"lookup", "call", "io", "drop", "dial"}
        => KeyOf(call[c].ref) = call[c].key

IInv == /\ TypeOK /\ BindingsAgree /\ ClosedPoolIsEmpty /\ SubscribedIsConnected
        /\ HeldInv /\ AskedInv

LEMMA InitInv == Init => IInv
  <1> SUFFICES ASSUME Init PROVE IInv
    OBVIOUS
  <1>1. TypeOK
    BY InitType
  <1>2. BindingsAgree /\ ClosedPoolIsEmpty /\ SubscribedIsConnected
    BY DEF Init, BindingsAgree, ClosedPoolIsEmpty, SubscribedIsConnected
  <1>3. HeldInv /\ AskedInv
    BY NoCallTyped, SessionKinds DEF Init, HeldInv, AskedInv, Sessions
  <1> QED
    BY <1>1, <1>2, <1>3 DEF IInv

\* The steps that change what is registered or bound.
Registers(c) == GetClientShared(c) \/ GetClientExhausted(c) \/ GetClientNew(c)

LEMMA PoolSteps ==
  ASSUME [Next]_vars
  PROVE  \/ \E c \in Callers : Registers(c)
         \/ ReapClose
         \/ CloseEnds
         \/ UNCHANGED <<sessions, devices, bound>> /\ (closePc = closePc' \/ CloseBegins)
  <1> USE DEF poolVars, lockVars, sessionVars, reaperVars, Registers
  <1>1. ASSUME NEW c \in Callers, CallerStep(c)
        PROVE  Registers(c) \/ UNCHANGED <<sessions, devices, bound, closePc>>
    BY <1>1 DEF CallerStep, GetClient, GetClientRefused, Lookup, Request, CallRefused, CallEnters,
        RequestReturns, RequestFails, Reconnect, ReconnectDrops, ReconnectDials, Manage,
        SubscribeOk, SubscribeFails, Unsubscribe
  <1> QED
    BY <1>1 DEF Next, Begin, ReapScan, Reap, ReapLock, ReapJudge, ReapUnlock, HealthPick,
        HealthCheck, CloseBegins, IdleTimePasses, Move, vars

\* The call that registers a device has one, and the endpoint to register it at.
LEMMA RegistersTyped ==
  ASSUME TypeOK, NEW c \in Callers, Registers(c)
  PROVE  /\ call[c].pc = "client" /\ ~Closed
         /\ call[c].dev \in Devices /\ call[c].key \in Endpoints
  BY DEF TypeOK, CallsTyped, Registers, GetClientShared, GetClientExhausted, GetClientNew,
         GetClientAdmitted, GetClientOf

\* Bindings and sessions go on to agree.
LEMMA NextBindings == IInv /\ [Next]_vars => BindingsAgree'
  <1> SUFFICES ASSUME IInv, [Next]_vars PROVE BindingsAgree'
    OBVIOUS
  <1>0. /\ TypeOK /\ BindingsAgree
        /\ sessions \subseteq Endpoints
        /\ devices \in [Devices -> Endpoints \cup {NoEndpoint}]
        /\ bound \in [Endpoints -> SUBSET Devices]
        /\ NoEndpoint \notin Endpoints
    BY OpcuaAssumption DEF IInv, TypeOK
  <1> USE DEF BindingsAgree
  <1>1. ASSUME NEW c \in Callers, Registers(c) PROVE BindingsAgree'
    <2> DEFINE d == call[c].dev
               e == call[c].key
    <2>0. d \in Devices /\ e \in Endpoints
      BY <1>0, <1>1, RegistersTyped
    <2>1. CASE GetClientShared(c)
      <3> SUFFICES ASSUME NEW x \in Devices
                   PROVE  /\ devices'[x] \in sessions' \cup {NoEndpoint}
                          /\ \A f \in sessions' : x \in bound'[f] <=> devices'[x] = f
        OBVIOUS
      <3>1. e \in sessions /\ sessions' = sessions
        BY <2>1 DEF GetClientShared
      <3>2. CASE x = d
        <4>1. CASE Moved(d, e)
          BY <1>0, <2>0, <2>1, <3>1, <3>2, <4>1
             DEF GetClientShared, LeftBound, LeftDevices, Moved
        <4>2. CASE ~Moved(d, e)
          BY <1>0, <2>0, <2>1, <3>1, <3>2, <4>2
             DEF GetClientShared, LeftBound, LeftDevices, Moved
        <4> QED
          BY <4>1, <4>2
      <3>3. CASE x # d
        BY <1>0, <2>0, <2>1, <3>1, <3>3
           DEF GetClientShared, LeftBound, LeftDevices, Moved
      <3> QED
        BY <3>2, <3>3
    <2>2. CASE GetClientExhausted(c)
      BY <1>0, <2>0, <2>2 DEF GetClientExhausted, LeftBound, LeftDevices, Moved
    <2>3. CASE GetClientNew(c)
      BY <1>0, <2>0, <2>3 DEF GetClientNew, LeftBound, Moved
    <2> QED
      BY <1>1, <2>1, <2>2, <2>3 DEF Registers
  <1>2. CASE ReapClose
    <2>1. reaping \in Endpoints
      BY <1>0, <1>2 DEF TypeOK, ReapClose
    <2> QED
      BY <1>0, <1>2, <2>1 DEF ReapClose
  <1>3. CASE CloseEnds
    BY <1>0, <1>3 DEF CloseEnds
  <1>4. CASE UNCHANGED <<sessions, devices, bound>>
    BY <1>0, <1>4
  <1> QED
    BY <1>1, <1>2, <1>3, <1>4, PoolSteps

\* A closed pool goes on to be empty.
LEMMA NextClosed == IInv /\ [Next]_vars => ClosedPoolIsEmpty'
  <1> SUFFICES ASSUME IInv, [Next]_vars PROVE ClosedPoolIsEmpty'
    OBVIOUS
  <1>0. TypeOK /\ ClosedPoolIsEmpty
    BY DEF IInv
  <1> USE DEF ClosedPoolIsEmpty
  <1>1. ASSUME NEW c \in Callers, Registers(c) PROVE ClosedPoolIsEmpty'
    BY <1>0, <1>1, RegistersTyped
       DEF Registers, GetClientShared, GetClientExhausted, GetClientNew, lockVars, Closed
  <1>2. CASE ReapClose
    BY <1>0, <1>2 DEF ReapClose, lockVars
  <1>3. CASE CloseEnds
    BY <1>3 DEF CloseEnds
  <1>4. CASE UNCHANGED <<sessions, devices, bound>> /\ (closePc = closePc' \/ CloseBegins)
    BY <1>0, <1>4 DEF CloseBegins
  <1> QED
    BY <1>1, <1>2, <1>3, <1>4, PoolSteps

-----------------------------------------------------------------------------
\* What a return, a step and a drop do to the calls and to the connections of
\* registered sessions.
LEMMA ReturnEffect ==
  ASSUME TypeOK, NEW c \in Callers, NEW conn, ReturnWith(c, conn),
         conn \in [Sessions -> BOOLEAN]
  PROVE  /\ call'[c] = NoCall
         /\ \A x \in Callers \ {c} : call'[x] = call[x]
         /\ \A e \in Endpoints : connected'[e] = conn[e]
  BY SessionKinds DEF TypeOK, CallsTyped, ReturnWith, Forget, Sessions

LEMMA AttemptEffect ==
  ASSUME TypeOK, NEW c \in Callers, NEW conn, NextAttempt(c, conn),
         conn \in [Sessions -> BOOLEAN]
  PROVE  /\ \/ call'[c] = NoCall
            \/ /\ call'[c].pc = "io" /\ call'[c].ref = call[c].ref
               /\ call'[c].kind = call[c].kind /\ call'[c].key = call[c].key
         /\ \A x \in Callers \ {c} : call'[x] = call[x]
         /\ \A e \in Endpoints : connected'[e] = conn[e]
  <1>1. CASE ReturnWith(c, conn)
    BY <1>1, ReturnEffect
  <1>2. CASE /\ call' = [call EXCEPT ![c].pc = "io", ![c].tries = @ + 1]
             /\ connected' = conn
    BY <1>2 DEF TypeOK, CallsTyped, Calls
  <1> QED
    BY <1>1, <1>2 DEF NextAttempt

LEMMA StepEffect ==
  ASSUME TypeOK, NEW c \in Callers, NEW where, Step(c, where)
  PROVE  /\ call'[c].pc = where /\ call'[c].ref = call[c].ref
         /\ call'[c].kind = call[c].kind /\ call'[c].key = call[c].key
         /\ \A x \in Callers \ {c} : call'[x] = call[x]
  BY DEF TypeOK, CallsTyped, Calls, Step

LEMMA UseEffect ==
  ASSUME TypeOK, NEW c \in Callers, NEW s, NEW where, UseSession(c, s, where)
  PROVE  /\ call'[c].pc = where /\ call'[c].ref = s
         /\ call'[c].kind = call[c].kind /\ call'[c].key = call[c].key
         /\ \A x \in Callers \ {c} : call'[x] = call[x]
  BY DEF TypeOK, CallsTyped, Calls, UseSession

LEMMA DropEffect ==
  ASSUME TypeOK, NEW dropped \in SUBSET Endpoints, NEW by \in {"reaper", "close"},
         BecomeStrays(dropped, by)
  PROVE  /\ \A c \in Callers :
              /\ call'[c].pc = call[c].pc
              /\ call'[c].kind = call[c].kind /\ call'[c].key = call[c].key
              /\ call'[c].ref = IF call[c].ref \in dropped THEN <<call[c].ref, by>>
                                                           ELSE call[c].ref
         /\ checking' = IF checking \in dropped THEN <<checking, by>> ELSE checking
         /\ \A e \in Endpoints \ dropped : connected'[e] = connected[e]
  <1> DEFINE Dropped(s) == IF s \in dropped THEN <<s, by>> ELSE s
  <1>1. \A c \in Callers : call'[c] = [call[c] EXCEPT !.ref = Dropped(@)]
    BY DEF BecomeStrays
  <1>2. \A c \in Callers : call[c] \in Calls
    BY DEF TypeOK, CallsTyped
  <1>3. \A c \in Callers :
           /\ call'[c].pc = call[c].pc
           /\ call'[c].kind = call[c].kind /\ call'[c].key = call[c].key
           /\ call'[c].ref = Dropped(call[c].ref)
    <2> HIDE DEF Dropped
    <2> QED
      BY <1>1, <1>2 DEF Calls
  <1>4. \A e \in Endpoints \ dropped : connected'[e] = connected[e]
    BY DEF BecomeStrays, Sessions, TypeOK
  <1> QED
    BY <1>3, <1>4 DEF BecomeStrays

\* A read or write goes on to have the client it asked for.
LEMMA NextAsked == IInv /\ [Next]_vars => AskedInv'
  <1> SUFFICES ASSUME IInv, [Next]_vars PROVE AskedInv'
    OBVIOUS
  <1>0. TypeOK /\ AskedInv /\ connected \in [Sessions -> BOOLEAN]
    BY DEF IInv, TypeOK
  <1> DEFINE Asked(k) == k.kind \in {"read", "write"}
                         /\ k.pc \in {"lookup", "call", "io", "drop", "dial"}
                         => KeyOf(k.ref) = k.key
  <1>n. Asked(NoCall)
    BY DEF NoCall
  <1>a. \A c \in Callers : Asked(call[c])
    BY <1>0 DEF AskedInv
  <1>b. ASSUME \A c \in Callers : Asked(call'[c]) PROVE AskedInv'
    BY <1>b DEF AskedInv, KeyOf
  <1>u. CASE call' = call
    BY <1>0, <1>u DEF AskedInv, KeyOf
  <1>1. ASSUME NEW c \in Callers, CallerStep(c) PROVE AskedInv'
    <2>r. ASSUME NEW conn \in [Sessions -> BOOLEAN], ReturnWith(c, conn) PROVE AskedInv'
      BY <1>0, <1>a, <1>b, <1>n, <2>r, ReturnEffect
    <2>t. ASSUME NEW conn \in [Sessions -> BOOLEAN], NextAttempt(c, conn),
                 call[c].pc \in {"io", "drop", "dial"}
          PROVE  AskedInv'
      BY <1>0, <1>a, <1>b, <1>n, <2>t, AttemptEffect
    <2>1. CASE GetClient(c)
      <3>1. CASE Return(c)
        BY <1>0, <2>r, <3>1 DEF Return
      <3>2. CASE UseSession(c, call[c].key, "lookup") /\ Registers(c)
        <4>1. KeyOf(call[c].key) = call[c].key
          BY <1>0, <3>2, RegistersTyped DEF KeyOf
        <4> QED
          BY <1>0, <1>a, <1>b, <3>2, <4>1, UseEffect
      <3> QED
        BY <2>1, <3>1, <3>2 DEF GetClient, GetClientRefused, GetClientShared,
           GetClientExhausted, GetClientNew, Registers
    <2>2. CASE Lookup(c)
      <3>1. CASE Return(c)
        BY <1>0, <2>r, <3>1 DEF Return
      <3>2. CASE Proceed(c, devices[call[c].dev]) /\ call[c].pc = "lookup"
        BY <1>0, <1>a, <1>b, <3>2, StepEffect, UseEffect DEF Proceed
      <3> QED
        BY <2>2, <3>1, <3>2 DEF Lookup
    <2>3. CASE CallRefused(c) \/ RequestReturns(c) \/ Manage(c)
      BY <1>0, <2>r, <2>3 DEF CallRefused, RequestReturns, Manage, SubscribeOk, SubscribeFails,
         Unsubscribe, Return
    <2>4. CASE CallEnters(c)
      BY <1>0, <1>a, <1>b, <2>r, <2>4, StepEffect DEF CallEnters, Return
    <2>5. CASE RequestFails(c)
      BY <1>0, <1>a, <1>b, <2>t, <2>5, StepEffect DEF RequestFails
    <2>6. CASE ReconnectDrops(c)
      BY <1>0, <1>a, <1>b, <2>6, StepEffect DEF ReconnectDrops
    <2>7. CASE ReconnectDials(c)
      BY <1>0, <2>t, <2>7 DEF ReconnectDials
    <2> QED
      BY <1>1, <2>1, <2>2, <2>3, <2>4, <2>5, <2>6, <2>7 DEF CallerStep, Request, Reconnect
  <1>2. ASSUME NEW c \in Callers, NEW kind \in Kinds, NEW d \in Devices, Begin(c, kind, d)
        PROVE  AskedInv'
    <2>1. /\ call'[c].pc = "lookup" => call'[c].kind \in {"browse", "unsubscribe"}
          /\ call'[c].pc \in {"lookup", "client"}
          /\ \A x \in Callers \ {c} : call'[x] = call[x]
      BY <1>0, <1>2 DEF Begin, NoCall, TypeOK, CallsTyped
    <2> QED
      BY <1>a, <1>b, <2>1
  <1>3. ASSUME NEW dropped \in SUBSET Endpoints, NEW by \in {"reaper", "close"},
               BecomeStrays(dropped, by)
        PROVE  AskedInv'
    <2>1. \A s \in dropped : KeyOf(<<s, by>>) = s /\ KeyOf(s) = s
      BY SessionKinds DEF KeyOf, Strays
    <2>2. \A c \in Callers : /\ KeyOf(call'[c].ref) = KeyOf(call[c].ref)
                            /\ call'[c].pc = call[c].pc
                            /\ call'[c].kind = call[c].kind /\ call'[c].key = call[c].key
      <3> TAKE c \in Callers
      <3>0. /\ call'[c].pc = call[c].pc
            /\ call'[c].kind = call[c].kind /\ call'[c].key = call[c].key
            /\ call'[c].ref = IF call[c].ref \in dropped THEN <<call[c].ref, by>>
                                                         ELSE call[c].ref
        BY <1>0, <1>3, DropEffect
      <3>1. CASE call[c].ref \in dropped
        BY <2>1, <3>0, <3>1
      <3>2. CASE call[c].ref \notin dropped
        BY <3>0, <3>2
      <3> QED
        BY <3>1, <3>2
    <2> QED
      BY <1>a, <1>b, <2>2
  <1>4. CASE ReapClose
    BY <1>0, <1>3, <1>4 DEF ReapClose, TypeOK
  <1>5. CASE CloseEnds
    BY <1>0, <1>3, <1>5 DEF CloseEnds, TypeOK
  <1> QED
    BY <1>1, <1>2, <1>4, <1>5, <1>u
       DEF Next, ReapScan, Reap, ReapLock, ReapJudge, ReapUnlock, HealthPick, HealthCheck,
           CloseBegins, IdleTimePasses, Move, vars

\* Held sessions go on to be registered or strays, and so on; subscribed ones to be
\* connected.
LEMMA NextHeld == IInv /\ [Next]_vars => HeldInv' /\ SubscribedIsConnected'
  <1> SUFFICES ASSUME IInv, [Next]_vars PROVE HeldInv' /\ SubscribedIsConnected'
    OBVIOUS
  <1>0. /\ TypeOK /\ HeldInv /\ SubscribedIsConnected
        /\ connected \in [Sessions -> BOOLEAN]
        /\ sessions \subseteq Endpoints /\ Endpoints \subseteq Sessions
        /\ subs \in [Endpoints -> SUBSET Devices]
        /\ NoEndpoint \notin Endpoints
    BY SessionKinds DEF IInv, TypeOK, Sessions
  <1> USE DEF HeldInv, SubscribedIsConnected, poolVars, lockVars, sessionVars, reaperVars
  <1>n. NoCall.pc = "idle" /\ NoCall.ref = NoEndpoint
    BY NoCallTyped
  <1>1. ASSUME NEW c \in Callers, GetClient(c) PROVE HeldInv' /\ SubscribedIsConnected'
    <2> DEFINE e == call[c].key
    <2>1. CASE GetClientRefused(c) \/ GetClientExhausted(c)
      BY <1>0, <1>n, <2>1, ReturnEffect DEF GetClientRefused, GetClientExhausted, Return
    <2>2. CASE GetClientShared(c)
      <3>1. CASE ConnectOk(e) /\ UseSession(c, e, "lookup")
        BY <1>0, <2>2, <3>1, UseEffect DEF GetClientShared, ConnectOk
      <3>2. CASE ConnectFails(e) /\ Return(c)
        BY <1>0, <1>n, <2>2, <3>2, ReturnEffect DEF GetClientShared, Return
      <3> QED
        BY <2>2, <3>1, <3>2 DEF GetClientShared
    <2>3. CASE GetClientNew(c)
      <3>0. /\ e \in Endpoints /\ sessions' = sessions \cup {e}
            /\ \A x \in Callers : call[x].ref # e
            /\ subs' = subs /\ subs[e] = {} /\ checking' = checking
        BY <1>0, <2>3, RegistersTyped DEF GetClientNew, Registers
      <3>1. CASE connected' = [connected EXCEPT ![e] = TRUE] /\ UseSession(c, e, "lookup")
        <4>1. \A s \in Endpoints : connected[s] => connected'[s]
          BY <1>0, <3>1
        <4>2. \A x \in Callers : \/ call'[x] = call[x]
                                 \/ call'[x].pc = "lookup" /\ call'[x].ref = e
          BY <1>0, <3>1, UseEffect
        <4> HIDE DEF e
        <4> QED
          BY <1>0, <3>0, <4>1, <4>2
      <3>2. CASE Return(c)
        <4>1. \A s \in Endpoints : connected'[s] = connected[s]
          BY <1>0, <3>2, ReturnEffect DEF Return
        <4>2. \A x \in Callers : call'[x] = call[x] \/ call'[x] = NoCall
          BY <1>0, <3>2, ReturnEffect DEF Return
        <4> HIDE DEF e
        <4> QED
          BY <1>0, <1>n, <3>0, <4>1, <4>2
      <3> QED
        BY <2>3, <3>1, <3>2 DEF GetClientNew
    <2> QED
      BY <1>1, <2>1, <2>2, <2>3 DEF GetClient
  <1>2. ASSUME NEW c \in Callers, Lookup(c) PROVE HeldInv' /\ SubscribedIsConnected'
    <2>1. CASE Return(c)
      BY <1>0, <1>n, <1>2, <2>1, ReturnEffect DEF Lookup, Return
    <2>2. CASE Registered(devices[call[c].dev]) /\ Proceed(c, devices[call[c].dev])
               /\ UNCHANGED connected
      BY <1>0, <1>2, <2>2, StepEffect, UseEffect DEF Lookup, Registered, Proceed
    <2> QED
      BY <1>2, <2>1, <2>2 DEF Lookup
  <1>3. ASSUME NEW c \in Callers, Request(c) PROVE HeldInv' /\ SubscribedIsConnected'
    <2>1. CASE CallRefused(c) \/ RequestReturns(c)
      BY <1>0, <1>n, <2>1, ReturnEffect DEF CallRefused, RequestReturns, Return
    <2>2. CASE CallEnters(c)
      BY <1>0, <1>n, <2>2, StepEffect, ReturnEffect DEF CallEnters, Return
    <2>3. CASE RequestFails(c)
      BY <1>0, <1>n, <2>3, StepEffect, AttemptEffect DEF RequestFails, NeedsReconnect
    <2> QED
      BY <1>3, <2>1, <2>2, <2>3 DEF Request
  <1>4. ASSUME NEW c \in Callers, Reconnect(c) PROVE HeldInv' /\ SubscribedIsConnected'
    <2>1. CASE ReconnectDrops(c)
      BY <1>0, <2>1, StepEffect DEF ReconnectDrops
    <2>2. CASE ReconnectDials(c)
      <3> DEFINE conn == [connected EXCEPT ![call[c].ref] = TRUE]
      <3>1. conn \in [Sessions -> BOOLEAN] /\ \A s \in Sessions : connected[s] => conn[s]
        BY <1>0
      <3>2. CASE NextAttempt(c, conn)
        <4> HIDE DEF conn
        <4>1. \A e \in Endpoints : connected'[e] = conn[e]
          BY <1>0, <3>1, <3>2, AttemptEffect
        <4>2. /\ \/ call'[c] = NoCall
                 \/ call'[c].pc = "io" /\ call'[c].ref = call[c].ref
              /\ \A x \in Callers \ {c} : call'[x] = call[x]
          BY <1>0, <3>1, <3>2, AttemptEffect
        <4>3. call[c].ref \notin sessions
          BY <1>0, <2>2 DEF ReconnectDials
        <4> QED
          BY <1>0, <1>n, <2>2, <3>1, <4>1, <4>2, <4>3 DEF ReconnectDials
      <3>3. CASE NextAttempt(c, connected)
        BY <1>0, <1>n, <2>2, <3>3, AttemptEffect DEF ReconnectDials
      <3> QED
        BY <2>2, <3>2, <3>3 DEF ReconnectDials
    <2> QED
      BY <1>4, <2>1, <2>2 DEF Reconnect
  <1>5. ASSUME NEW c \in Callers, Manage(c) PROVE HeldInv' /\ SubscribedIsConnected'
    <2>1. CASE SubscribeOk(c)
      BY <1>0, <1>n, <2>1, ReturnEffect
         DEF SubscribeOk, CanSubscribe, SetSubs, SubsOf, Return
    <2>2. CASE SubscribeFails(c)
      BY <1>0, <1>n, <2>2, ReturnEffect DEF SubscribeFails, SetSubs, SubsOf, Return
    <2>3. CASE Unsubscribe(c)
      BY <1>0, <1>n, <2>3, ReturnEffect DEF Unsubscribe, SetSubs, SubsOf, Return
    <2> QED
      BY <1>5, <2>1, <2>2, <2>3 DEF Manage
  <1>6. ASSUME NEW c \in Callers, NEW kind \in Kinds, NEW d \in Devices, Begin(c, kind, d)
        PROVE  HeldInv' /\ SubscribedIsConnected'
    <2>1. /\ call'[c].pc \in {"lookup", "client"} /\ call'[c].ref = NoEndpoint
          /\ \A x \in Callers \ {c} : call'[x] = call[x]
      BY <1>0, <1>6 DEF Begin, NoCall, TypeOK, CallsTyped
    <2> QED
      BY <1>0, <1>6, <2>1 DEF Begin
  <1>7. CASE ReapClose
    <2>1. reaping \in Endpoints
      BY <1>0, <1>7 DEF TypeOK, ReapClose
    <2>2. \A e \in Endpoints : <<e, "reaper">> \notin Endpoints
      BY SessionKinds
    <2>3. BecomeStrays({reaping}, "reaper")
      BY <1>7 DEF ReapClose
    <2>4. ASSUME NEW c \in Callers
          PROVE  /\ call'[c].pc = call[c].pc
                 /\ \/ call'[c].ref = call[c].ref /\ call[c].ref # reaping
                    \/ call'[c].ref \notin Endpoints
      <3>1. /\ call'[c].pc = call[c].pc
            /\ call'[c].ref = IF call[c].ref \in {reaping} THEN <<call[c].ref, "reaper">>
                                                           ELSE call[c].ref
        BY <1>0, <2>1, <2>3, DropEffect
      <3> QED
        BY <2>1, <2>2, <3>1
    <2>5. \/ checking' = checking /\ checking # reaping
          \/ checking' \notin Endpoints
      BY <1>0, <2>1, <2>2, <2>3, DropEffect
    <2>6. \A e \in Endpoints \ {reaping} : connected'[e] = connected[e]
      BY <1>0, <2>1, <2>3, DropEffect
    <2>7. sessions' = sessions \ {reaping} /\ subs' = [subs EXCEPT ![reaping] = {}]
      BY <1>7 DEF ReapClose
    <2>8. HeldInv'
      BY <1>0, <2>1, <2>4, <2>5, <2>6, <2>7
    <2>9. SubscribedIsConnected'
      BY <1>0, <2>1, <2>6, <2>7
    <2> QED
      BY <2>8, <2>9
  <1>8. CASE CloseEnds
    <2>1. \A e \in Endpoints : <<e, "close">> \notin Endpoints
      BY SessionKinds
    <2>2. BecomeStrays(sessions, "close") /\ sessions' = {} /\ subs' = [e \in Endpoints |-> {}]
      BY <1>8 DEF CloseEnds
    <2>3. ASSUME NEW c \in Callers PROVE call'[c].ref \notin Endpoints
      <3>1. call'[c].ref = IF call[c].ref \in sessions THEN <<call[c].ref, "close">>
                                                       ELSE call[c].ref
        BY <1>0, <2>2, DropEffect
      <3> QED
        BY <1>0, <2>1, <3>1
    <2>4. checking' \notin Endpoints
      BY <1>0, <2>1, <2>2, DropEffect
    <2> QED
      BY <1>0, <2>2, <2>3, <2>4
  <1>9. CASE HealthCheck
    BY <1>0, <1>9, SessionKinds DEF HealthCheck, Forget
  <1>10. ASSUME NEW e \in Endpoints, HealthPick(e) PROVE HeldInv' /\ SubscribedIsConnected'
    BY <1>0, <1>10 DEF HealthPick
  <1>11. CASE UNCHANGED <<sessions, subs, connected, call, checking>>
    BY <1>0, <1>11
  <1> QED
    BY <1>1, <1>2, <1>3, <1>4, <1>5, <1>6, <1>7, <1>8, <1>9, <1>10, <1>11
       DEF Next, CallerStep, ReapScan, Reap, ReapLock, ReapJudge, ReapUnlock, CloseBegins,
           IdleTimePasses, Move, vars

-----------------------------------------------------------------------------
\* Every step keeps the types.
LEMMA NextType == TypeOK /\ [Next]_vars => TypeOK'
  <1> SUFFICES ASSUME TypeOK, [Next]_vars PROVE TypeOK'
    OBVIOUS
  <1>1. ASSUME NEW c \in Callers,
               CallerStep(c) \/ \E kind \in Kinds, d \in Devices : Begin(c, kind, d)
        PROVE  TypeOK'
    BY <1>1, CallerType
  <1> QED
    BY <1>1, PoolType DEF Next, Reap

LEMMA NextInv == IInv /\ [Next]_vars => IInv'
  BY NextType, NextBindings, NextClosed, NextHeld, NextAsked DEF IInv

LEMMA Invariant == Spec => []IInv
  BY InitInv, NextInv, PTL DEF Spec

\* Every reachable state has its types, and what works on a session has one.
THEOREM TypeCorrect == Spec => []TypeOK
  <1>1. IInv => TypeOK
    BY DEF IInv
  <1> QED
    BY <1>1, Invariant, PTL

\* The bindings of devices and the device lists of sessions always agree, whatever
\* moves, reaping, full pools and Close do.
THEOREM BindingsStayInStep == Spec => []BindingsAgree
  <1>1. IInv => BindingsAgree
    BY DEF IInv
  <1> QED
    BY <1>1, Invariant, PTL

\* No read or write goes to another endpoint than its caller's configuration names.
THEOREM NoRequestGoesAstray == Spec => []RequestsGoWhereAsked
  <1>1. IInv => RequestsGoWhereAsked
    BY DEF IInv, AskedInv, RequestsGoWhereAsked
  <1> QED
    BY <1>1, Invariant, PTL

\* A closed pool stays empty: no step registers a session behind Close's back.
THEOREM ClosedPoolStaysEmpty == Spec => []ClosedPoolIsEmpty
  <1>1. IInv => ClosedPoolIsEmpty
    BY DEF IInv
  <1> QED
    BY <1>1, Invariant, PTL

\* Subscribed sessions are connected.
THEOREM SubscribedStayConnected == Spec => []SubscribedIsConnected
  <1>1. IInv => SubscribedIsConnected
    BY DEF IInv
  <1> QED
    BY <1>1, Invariant, PTL

\* No step closes the connection of a session that stays in the pool.
LEMMA StepKeepsConnections ==
  ASSUME IInv, [Next]_vars, NEW e \in sessions, connected[e], e \in sessions'
  PROVE  connected'[e]
  <1>0. /\ TypeOK /\ HeldInv
        /\ connected \in [Sessions -> BOOLEAN]
        /\ e \in Endpoints /\ e \in Sessions
    BY DEF IInv, TypeOK, Sessions
  <1> USE <1>0 DEF sessionVars
  <1>1. ASSUME NEW c \in Callers, ReturnWith(c, connected) PROVE connected'[e]
    BY <1>1, ReturnEffect
  <1>2. ASSUME NEW c \in Callers, NextAttempt(c, connected) PROVE connected'[e]
    BY <1>2, AttemptEffect
  <1>3. ASSUME NEW c \in Callers, GetClient(c) \/ Lookup(c) \/ Manage(c) PROVE connected'[e]
    BY <1>1, <1>3
       DEF GetClient, GetClientRefused, GetClientShared, GetClientExhausted, GetClientNew,
           ConnectOk, ConnectFails, Lookup, Manage, SubscribeOk, SubscribeFails,
           Unsubscribe, Return
  <1>4. ASSUME NEW c \in Callers, Request(c) PROVE connected'[e]
    BY <1>1, <1>2, <1>4
       DEF Request, CallRefused, CallEnters, RequestReturns, RequestFails, Return
  <1>5. ASSUME NEW c \in Callers, ReconnectDrops(c) PROVE connected'[e]
    BY <1>5 DEF ReconnectDrops, HeldInv
  <1>6. ASSUME NEW c \in Callers, ReconnectDials(c) PROVE connected'[e]
    <2> DEFINE conn == [connected EXCEPT ![call[c].ref] = TRUE]
    <2>1. conn \in [Sessions -> BOOLEAN] /\ conn[e]
      OBVIOUS
    <2>2. CASE NextAttempt(c, conn)
      <3> HIDE DEF conn
      <3> QED
        BY <2>1, <2>2, AttemptEffect
    <2> QED
      BY <1>2, <1>6, <2>2 DEF ReconnectDials
  <1>7. CASE ReapClose
    <2>1. e # reaping /\ BecomeStrays({reaping}, "reaper") /\ reaping \in Endpoints
      BY <1>7 DEF ReapClose, TypeOK
    <2> QED
      BY <2>1, DropEffect
  <1>8. CASE HealthCheck
    BY <1>8, SessionKinds DEF HealthCheck, Forget
  <1>9. CASE UNCHANGED connected
    BY <1>9
  <1> QED
    BY <1>3, <1>4, <1>5, <1>6, <1>7, <1>8, <1>9
       DEF Next, CallerStep, Reconnect, Begin, ReapScan, Reap, ReapLock, ReapJudge, ReapUnlock,
           HealthPick, CloseBegins, CloseEnds, IdleTimePasses, Move, vars

\* No step of a caller, the reaper, the health checker or Close takes the connection
\* from a session that stays in the pool (client.go: reconnect; pool.go).
THEOREM ConnectionsStay == Spec => SharedConnectionStays
  <1>1. IInv /\ [Next]_vars =>
            [\A e \in sessions : connected[e] /\ e \in sessions' => connected'[e]]_vars
    BY StepKeepsConnections
  <1> QED
    BY <1>1, Invariant, PTL DEF Spec, SharedConnectionStays

-----------------------------------------------------------------------------
(* The load shaping.                                                       *)

Elems(q) == {q[i] : i \in 1..Len(q)}
Distinct(q) == \A i, j \in 1..Len(q) : q[i] = q[j] => i = j

\* ShapingTypeOK in the parts that the steps change.
CountTypes == inFlight \in Nat /\ perEndpoint \in [Servers -> Nat]
CallTypes ==
    /\ pc \in [Ops -> Pcs]
    /\ seen \in [Ops -> Nat]
    /\ expired \subseteq Ops
    /\ result \in [Ops -> {"none", "refused", "done"}]
    /\ runs \in [Ops -> Nat]
QueueTypes ==
    /\ queues \in [Tiers -> Seq(Ops)]
    /\ queues[Telemetry] = <<>> /\ \A t \in Tiers : Len(queues[t]) <= QueueSize
WorkerTypes ==
    worker \in [Workers -> [pc : {"safety", "control", "all", "judge", "execute", "gone"},
                            op : Ops \cup {NoOp}]]
RestTypes ==
    /\ brownout \in BOOLEAN
    /\ open \subseteq Servers
    /\ closing \in {"no", "closed", "queuesClosed"}

\* A worker that has an operation has it alone.
WorkerInv ==
    /\ \A w \in Workers : worker[w].op # NoOp <=> worker[w].pc \in {"judge", "execute"}
    /\ \A v, w \in Workers : worker[v].op # NoOp /\ worker[v].op = worker[w].op => v = w
    /\ \A w \in Workers : worker[w].pc = "judge" => runs[worker[w].op] = 0
    /\ \A w \in Workers : worker[w].pc = "execute" => runs[worker[w].op] = 1

\* An operation waits in one place of one queue, the queue of its priority.
QueueInv == \A t \in Tiers : Distinct(queues[t]) /\ \A o \in Elems(queues[t]) : Priority[o] = t

\* Where a caller is once its operation is queued.
Parked == {"waiting", "cancelled"}
NotRun == {"new", "endpoint", "load", "decide", "enqueue", "refused", "panicked"}

\* An operation is queued, with a worker, or answered; what has run by then.
OpInv(o) ==
    /\ o \in Queued => o \notin WithWorker /\ runs[o] = 0
    /\ o \in Queued \cup WithWorker => pc[o] \in Parked /\ result[o] = "none"
    /\ result[o] = "refused" => runs[o] = 0 /\ pc[o] \in Parked \cup {"refused"}
    /\ result[o] = "done" => runs[o] = 1 /\ pc[o] \in Parked \cup {"done"}
    /\ pc[o] \in NotRun => runs[o] = 0
    /\ pc[o] \in {"running", "done"} => runs[o] = 1
    /\ runs[o] \in {0, 1}
    /\ pc[o] = "enqueue" => Priority[o] # Telemetry

Types == CountTypes /\ CallTypes /\ QueueTypes /\ WorkerTypes /\ RestTypes

\* The inductive invariant.
ShapingInv ==
    /\ Types /\ WorkerInv /\ QueueInv
    /\ \A o \in Ops : OpInv(o)
    /\ InFlightIsTrue

-----------------------------------------------------------------------------
(* Sequences.                                                              *)

LEMMA AppendFacts ==
  ASSUME NEW S, NEW q \in Seq(S), NEW x \in S
  PROVE  /\ Append(q, x) \in Seq(S) /\ Len(Append(q, x)) = Len(q) + 1
         /\ Elems(Append(q, x)) = Elems(q) \cup {x}
         /\ Distinct(q) /\ x \notin Elems(q) => Distinct(Append(q, x))
  <1> DEFINE r == Append(q, x)
  <1>1. /\ r \in Seq(S) /\ Len(q) \in Nat /\ Len(r) = Len(q) + 1
        /\ \A i \in 1..Len(q) : r[i] = q[i]
        /\ r[Len(q) + 1] = x
    OBVIOUS
  <1> HIDE DEF r
  <1>2. /\ \A i \in 1..Len(r) : i \in 1..Len(q) \/ i = Len(q) + 1
        /\ 1..Len(q) \subseteq 1..Len(r)
        /\ Len(q) + 1 \in 1..Len(r)
    BY <1>1
  <1>3. Elems(r) = Elems(q) \cup {x}
    BY <1>1, <1>2 DEF Elems
  <1>4. ASSUME Distinct(q), x \notin Elems(q) PROVE Distinct(r)
    <2> SUFFICES ASSUME NEW i \in 1..Len(r), NEW j \in 1..Len(r), r[i] = r[j] PROVE i = j
      BY DEF Distinct
    <2>1. CASE i \in 1..Len(q) /\ j \in 1..Len(q)
      BY <1>1, <1>4, <2>1 DEF Distinct
    <2>2. CASE i \in 1..Len(q) /\ j = Len(q) + 1
      BY <1>1, <1>4, <2>2 DEF Elems
    <2>3. CASE i = Len(q) + 1 /\ j \in 1..Len(q)
      BY <1>1, <1>4, <2>3 DEF Elems
    <2>4. QED
      BY <1>2, <2>1, <2>2, <2>3
  <1>5. QED
    BY <1>1, <1>3, <1>4 DEF r

LEMMA TailFacts ==
  ASSUME NEW S, NEW q \in Seq(S), q # <<>>
  PROVE  /\ Head(q) \in S /\ Tail(q) \in Seq(S) /\ Len(Tail(q)) = Len(q) - 1
         /\ Elems(q) = Elems(Tail(q)) \cup {Head(q)}
         /\ Distinct(q) => Distinct(Tail(q)) /\ Head(q) \notin Elems(Tail(q))
  <1> DEFINE r == Tail(q)
  <1>1. /\ Head(q) \in S /\ r \in Seq(S) /\ Len(q) \in Nat /\ Len(q) >= 1 /\ Len(r) = Len(q) - 1
        /\ \A i \in 1..Len(r) : r[i] = q[i + 1]
        /\ Head(q) = q[1]
    OBVIOUS
  <1> HIDE DEF r
  <1>2. /\ \A i \in 1..Len(q) : i = 1 \/ (i - 1 \in 1..Len(r) /\ r[i - 1] = q[i])
        /\ \A i \in 1..Len(r) : i + 1 \in 1..Len(q)
        /\ 1 \in 1..Len(q)
    BY <1>1
  <1>3. Elems(q) \subseteq Elems(r) \cup {Head(q)}
    BY <1>1, <1>2 DEF Elems
  <1>4. Elems(r) \cup {Head(q)} \subseteq Elems(q)
    BY <1>1, <1>2 DEF Elems
  <1>5. ASSUME Distinct(q) PROVE Distinct(r) /\ Head(q) \notin Elems(r)
    <2>1. Distinct(r)
      BY <1>1, <1>2, <1>5 DEF Distinct
    <2>2. \A i \in 1..Len(r) : r[i] # q[1]
      BY <1>1, <1>2, <1>5 DEF Distinct
    <2>3. QED
      BY <1>1, <2>1, <2>2 DEF Elems
  <1>6. QED
    BY <1>1, <1>3, <1>4, <1>5 DEF r

\* The operations in the queues.
LEMMA QueuedAre ==
  Queued = UNION {Elems(queues[t]) : t \in Tiers}
  BY DEF Queued, Elems

LEMMA QueuedFacts ==
  ASSUME QueueTypes, QueueInv
  PROVE  /\ \A o : o \in Queued <=> \E t \in Tiers : o \in Elems(queues[t])
         /\ Queued \subseteq Ops
  <1>1. \A o : o \in Queued <=> \E t \in Tiers : o \in Elems(queues[t])
    BY QueuedAre
  <1>2. \A t \in Tiers : Elems(queues[t]) \subseteq Ops
    BY DEF QueueTypes, Elems
  <1>3. QED
    BY <1>1, <1>2

-----------------------------------------------------------------------------
(* Counting.                                                               *)

LEMMA CountedFinite ==
  ASSUME QueueTypes, QueueInv, WorkerTypes
  PROVE  Counted \subseteq Ops /\ IsFiniteSet(Counted) /\ WithWorker \subseteq Ops
  <1>1. Queued \subseteq Ops
    BY QueuedFacts
  <1>2. WithWorker \subseteq Ops
    BY DEF WithWorker, WorkerTypes
  <1>3. Counted \subseteq Ops
    BY <1>1, <1>2 DEF Counted
  <1>4. QED
    BY <1>2, <1>3, LoadAssumption, FS_Subset

LEMMA CountAdded ==
  ASSUME CountTypes, InFlightIsTrue, IsFiniteSet(Counted),
         NEW o \in Ops, o \notin Counted, Counted' = Counted \cup {o}, CountUp(o)
  PROVE  InFlightIsTrue' /\ CountTypes'
  <1> DEFINE At(e) == {x \in Counted : EndpointOf[x] = e}
  <1>1. /\ Cardinality(Counted') = Cardinality(Counted) + 1
        /\ inFlight = Cardinality(Counted) /\ inFlight' = inFlight + 1
    BY FS_AddElement DEF InFlightIsTrue, CountUp
  <1>2. ASSUME NEW e \in Servers
        PROVE  perEndpoint'[e] = Cardinality({x \in Counted' : EndpointOf[x] = e})
    <2>1. IsFiniteSet(At(e)) /\ perEndpoint[e] = Cardinality(At(e))
      <3>1. At(e) \subseteq Counted
        OBVIOUS
      <3>2. QED
        BY <3>1, FS_Subset DEF InFlightIsTrue
    <2>2. CASE e = EndpointOf[o]
      <3>1. {x \in Counted' : EndpointOf[x] = e} = At(e) \cup {o} /\ o \notin At(e)
        BY <2>2
      <3>2. Cardinality(At(e) \cup {o}) = Cardinality(At(e)) + 1
        BY <2>1, <3>1, FS_AddElement
      <3>3. perEndpoint'[e] = perEndpoint[e] + 1
        BY <2>2 DEF CountUp, CountTypes
      <3>4. QED
        BY <2>1, <3>1, <3>2, <3>3
    <2>3. CASE e # EndpointOf[o]
      <3>1. {x \in Counted' : EndpointOf[x] = e} = At(e)
        BY <2>3
      <3>2. perEndpoint'[e] = perEndpoint[e]
        BY <2>3 DEF CountUp, CountTypes
      <3>3. QED
        BY <2>1, <3>1, <3>2
    <2>4. QED
      BY <2>2, <2>3
  <1>3. CountTypes'
    BY LoadAssumption DEF CountTypes, CountUp
  <1>4. QED
    BY <1>1, <1>2, <1>3 DEF InFlightIsTrue

LEMMA CountRemoved ==
  ASSUME CountTypes, InFlightIsTrue, IsFiniteSet(Counted),
         NEW o \in Ops, o \in Counted, Counted' = Counted \ {o}, CountDown(o)
  PROVE  InFlightIsTrue' /\ CountTypes'
  <1> DEFINE At(e) == {x \in Counted : EndpointOf[x] = e}
  <1>1. /\ IsFiniteSet(Counted') /\ Cardinality(Counted') = Cardinality(Counted) - 1
        /\ inFlight = Cardinality(Counted) /\ inFlight' = inFlight - 1
    BY FS_RemoveElement DEF InFlightIsTrue, CountDown
  <1>2. ASSUME NEW e \in Servers
        PROVE  /\ perEndpoint'[e] = Cardinality({x \in Counted' : EndpointOf[x] = e})
               /\ perEndpoint'[e] \in Nat
    <2>1. IsFiniteSet(At(e)) /\ perEndpoint[e] = Cardinality(At(e))
      <3>1. At(e) \subseteq Counted
        OBVIOUS
      <3>2. QED
        BY <3>1, FS_Subset DEF InFlightIsTrue
    <2>2. CASE e = EndpointOf[o]
      <3>1. {x \in Counted' : EndpointOf[x] = e} = At(e) \ {o} /\ o \in At(e)
        BY <2>2
      <3>2. Cardinality(At(e) \ {o}) = Cardinality(At(e)) - 1 /\ IsFiniteSet(At(e) \ {o})
        BY <2>1, <3>1, FS_RemoveElement
      <3>3. perEndpoint'[e] = perEndpoint[e] - 1
        BY <2>2 DEF CountDown, CountTypes
      <3>4. Cardinality(At(e) \ {o}) \in Nat
        BY <3>2, FS_CardinalityType
      <3> HIDE DEF At
      <3>5. QED
        BY <2>1, <3>1, <3>2, <3>3, <3>4
    <2>3. CASE e # EndpointOf[o]
      <3>1. {x \in Counted' : EndpointOf[x] = e} = At(e)
        BY <2>3
      <3>2. perEndpoint'[e] = perEndpoint[e] /\ perEndpoint[e] \in Nat
        BY <2>3 DEF CountDown, CountTypes
      <3>3. QED
        BY <2>1, <3>1, <3>2
    <2>4. QED
      BY <2>2, <2>3
  <1>3. inFlight' \in Nat
    <2>1. Cardinality(Counted') \in Nat
      BY <1>1, FS_CardinalityType
    <2>2. inFlight' = Cardinality(Counted')
      BY <1>1
    <2>3. QED
      BY <2>1, <2>2
  <1>4. perEndpoint' \in [Servers -> Nat]
    <2>1. perEndpoint' = [e \in Servers |-> perEndpoint'[e]]
      BY DEF CountDown, CountTypes
    <2>2. QED
      BY <1>2, <2>1
  <1>5. QED
    BY <1>1, <1>2, <1>3, <1>4 DEF InFlightIsTrue, CountTypes

LEMMA CountSame ==
  ASSUME CountTypes, InFlightIsTrue, Counted' = Counted, UNCHANGED counters
  PROVE  InFlightIsTrue' /\ CountTypes'
  BY DEF CountTypes, InFlightIsTrue, counters

-----------------------------------------------------------------------------
(* The queues and the workers.                                             *)

LEMMA EnqueueSets ==
  ASSUME QueueTypes, QueueInv, NEW o \in Ops, o \notin Queued, Priority[o] # Telemetry, Enqueue(o)
  PROVE  QueueTypes' /\ QueueInv' /\ Queued' = Queued \cup {o}
  <1> DEFINE p == Priority[o]
             q == Append(queues[p], o)
  <1>1. p \in Tiers /\ queues[p] \in Seq(Ops) /\ Len(queues[p]) < QueueSize
    BY LoadAssumption DEF Tiers, QueueTypes, Enqueue
  <1>2. queues' = [queues EXCEPT ![p] = q]
    BY DEF Enqueue
  <1>3. o \notin Elems(queues[p])
    BY <1>1, QueuedFacts
  <1>4. /\ q \in Seq(Ops) /\ Len(q) = Len(queues[p]) + 1
        /\ Elems(q) = Elems(queues[p]) \cup {o} /\ Distinct(q)
    BY <1>1, <1>3, AppendFacts DEF QueueInv
  <1> HIDE DEF q
  <1>5. /\ queues'[p] = q
        /\ \A t \in Tiers : t # p => queues'[t] = queues[t]
        /\ queues' \in [Tiers -> Seq(Ops)]
    BY <1>1, <1>2, <1>4 DEF QueueTypes
  <1>6. QueueTypes'
    <2>1. Len(q) <= QueueSize
      BY <1>1, <1>4, LoadAssumption
    <2>2. Telemetry \in Tiers
      BY DEF Telemetry, Tiers
    <2>3. QED
      BY <1>5, <2>1, <2>2 DEF QueueTypes
  <1>7. QueueInv'
    <2> SUFFICES ASSUME NEW t \in Tiers
                 PROVE  Distinct(queues'[t]) /\ \A x \in Elems(queues'[t]) : Priority[x] = t
      BY DEF QueueInv, Distinct, Elems
    <2>1. CASE t = p
      BY <1>1, <1>4, <1>5, <2>1 DEF QueueInv
    <2>2. CASE t # p
      BY <1>5, <2>2 DEF QueueInv
    <2>3. QED
      BY <2>1, <2>2
  <1>8. Queued' = Queued \cup {o}
    <2>1. Queued' = UNION {Elems(queues'[t]) : t \in Tiers}
      BY DEF Queued, Elems
    <2>2. \A t \in Tiers : Elems(queues'[t]) = IF t = p THEN Elems(queues[t]) \cup {o}
                                               ELSE Elems(queues[t])
      BY <1>4, <1>5
    <2> HIDE DEF p
    <2>3. ASSUME NEW x PROVE x \in Queued' <=> x \in Queued \cup {o}
      <3>1. x \in Queued' <=> \E t \in Tiers : x \in Elems(queues'[t])
        BY <2>1
      <3>2. \A t \in Tiers : x \in Elems(queues'[t]) <=> x \in Elems(queues[t]) \/ (t = p /\ x = o)
        BY <2>2
      <3>3. QED
        BY <1>1, <3>1, <3>2, QueuedFacts
    <2>4. QED
      BY <2>3
  <1>9. QED
    BY <1>6, <1>7, <1>8

LEMMA ReceiveSets ==
  ASSUME QueueTypes, QueueInv, NEW w \in Workers, NEW t \in Tiers, Receive(w, t)
  PROVE  /\ Head(queues[t]) \in Ops /\ Head(queues[t]) \in Queued
         /\ QueueTypes' /\ QueueInv' /\ Queued' = Queued \ {Head(queues[t])}
  <1> DEFINE q == Tail(queues[t])
             x == Head(queues[t])
  <1>1. queues[t] \in Seq(Ops) /\ queues[t] # <<>>
    BY DEF QueueTypes, Receive
  <1>2. /\ x \in Ops /\ q \in Seq(Ops) /\ Len(q) = Len(queues[t]) - 1
        /\ Elems(queues[t]) = Elems(q) \cup {x} /\ Distinct(q) /\ x \notin Elems(q)
    BY <1>1, TailFacts DEF QueueInv
  <1>3. queues' = [queues EXCEPT ![t] = q]
    BY DEF Receive
  <1> HIDE DEF q, x
  <1>4. /\ queues'[t] = q
        /\ \A s \in Tiers : s # t => queues'[s] = queues[s]
        /\ queues' \in [Tiers -> Seq(Ops)]
    BY <1>2, <1>3 DEF QueueTypes
  <1>5. x \in Queued /\ \A s \in Tiers : s # t => x \notin Elems(queues[s])
    BY <1>2, QueuedFacts DEF QueueInv
  <1>6. QueueTypes'
    <2>1. t # Telemetry
      BY <1>1 DEF QueueTypes
    <2>2. Len(q) <= QueueSize
      <3>1. Len(queues[t]) <= QueueSize /\ Len(queues[t]) \in Nat /\ QueueSize \in Nat
        BY <1>1, LoadAssumption DEF QueueTypes
      <3>2. QED
        BY <1>2, <3>1
    <2>3. Telemetry \in Tiers
      BY DEF Telemetry, Tiers
    <2>4. QED
      BY <1>4, <2>1, <2>2, <2>3 DEF QueueTypes
  <1>7. QueueInv'
    <2> SUFFICES ASSUME NEW s \in Tiers
                 PROVE  Distinct(queues'[s]) /\ \A y \in Elems(queues'[s]) : Priority[y] = s
      BY DEF QueueInv, Distinct, Elems
    <2>1. CASE s = t
      BY <1>2, <1>4, <2>1 DEF QueueInv
    <2>2. CASE s # t
      BY <1>4, <2>2 DEF QueueInv
    <2>3. QED
      BY <2>1, <2>2
  <1>8. Queued' = Queued \ {x}
    <2>1. Queued' = UNION {Elems(queues'[s]) : s \in Tiers}
      BY DEF Queued, Elems
    <2>2. \A s \in Tiers : Elems(queues'[s]) = Elems(queues[s]) \ {x}
      BY <1>2, <1>4, <1>5
    <2>3. QED
      BY <2>1, <2>2, QueuedAre
  <1>9. QED
    BY <1>2, <1>5, <1>6, <1>7, <1>8 DEF x

\* A worker takes operation o, keeps it, or has none any more.
WorkerPcs == {"safety", "control", "all", "judge", "execute", "gone"}
Alone == \A v, w \in Workers : worker[v].op # NoOp /\ worker[v].op = worker[w].op => v = w

LEMMA WorkerSets ==
  ASSUME WorkerTypes, Alone,
         NEW w \in Workers, NEW p \in WorkerPcs, NEW o \in Ops \cup {NoOp}, SetWorker(w, p, o),
         o = worker[w].op \/ o \notin WithWorker
  PROVE  /\ WorkerTypes' /\ Alone'
         /\ worker'[w] = [pc |-> p, op |-> o]
         /\ \A v \in Workers : v # w => worker'[v] = worker[v]
         /\ WithWorker' = (WithWorker \ {worker[w].op}) \cup ({o} \ {NoOp})
  <1>1. /\ worker'[w] = [pc |-> p, op |-> o]
        /\ \A v \in Workers : v # w => worker'[v] = worker[v]
    BY DEF SetWorker, WorkerTypes
  <1>2. WorkerTypes'
    BY DEF SetWorker, WorkerTypes, WorkerPcs
  <1>3. Alone'
    <2> SUFFICES ASSUME NEW u \in Workers, NEW v \in Workers,
                        worker'[u].op # NoOp, worker'[u].op = worker'[v].op
                 PROVE  u = v
      BY DEF Alone
    <2>1. ASSUME NEW x \in Workers, x # w, o # NoOp PROVE worker[x].op # o
      <3>1. CASE o = worker[w].op
        BY <2>1, <3>1 DEF Alone
      <3>2. CASE o \notin WithWorker
        BY <2>1, <3>2 DEF WithWorker
      <3>3. QED
        BY <3>1, <3>2
    <2>2. CASE u = w /\ v # w
      BY <1>1, <2>1, <2>2
    <2>3. CASE u # w /\ v = w
      BY <1>1, <2>1, <2>3
    <2>4. CASE u # w /\ v # w
      BY <1>1, <2>4 DEF Alone
    <2>5. QED
      BY <2>2, <2>3, <2>4
  <1>4. WithWorker' \subseteq (WithWorker \ {worker[w].op}) \cup ({o} \ {NoOp})
    <2> SUFFICES ASSUME NEW v \in Workers, worker'[v].op # NoOp
                 PROVE  worker'[v].op \in (WithWorker \ {worker[w].op}) \cup ({o} \ {NoOp})
      BY DEF WithWorker
    <2>1. CASE v = w
      BY <1>1, <2>1
    <2>2. CASE v # w
      <3>1. worker'[v].op = worker[v].op /\ worker[v].op # worker[w].op
        BY <1>1, <2>2 DEF Alone
      <3>2. QED
        BY <3>1 DEF WithWorker
    <2>3. QED
      BY <2>1, <2>2
  <1>5. (WithWorker \ {worker[w].op}) \cup ({o} \ {NoOp}) \subseteq WithWorker'
    <2>1. o # NoOp => o \in WithWorker'
      BY <1>1 DEF WithWorker
    <2>2. ASSUME NEW v \in Workers, worker[v].op # NoOp, worker[v].op # worker[w].op
          PROVE  worker[v].op \in WithWorker'
      <3>1. worker'[v] = worker[v]
        BY <1>1, <2>2
      <3>2. QED
        BY <2>2, <3>1 DEF WithWorker
    <2>3. QED
      BY <2>1, <2>2 DEF WithWorker
  <1>6. QED
    BY <1>1, <1>2, <1>3, <1>4, <1>5

-----------------------------------------------------------------------------
(* The steps.                                                              *)

\* What the steps have to keep, besides the types of the callers.
Core ==
    /\ CountTypes /\ QueueTypes /\ WorkerTypes
    /\ WorkerInv /\ QueueInv
    /\ \A o \in Ops : OpInv(o)
    /\ InFlightIsTrue

Own == {o \in Ops : pc[o] \in {"enqueue", "running", "panicked"}}

LEMMA CountedParts == Counted = Own \cup Queued \cup WithWorker
  BY DEF Counted, Own

LEMMA OpStays ==
  ASSUME NEW x \in Ops, OpInv(x),
         x \in Queued' <=> x \in Queued, x \in WithWorker' <=> x \in WithWorker,
         pc'[x] = pc[x], result'[x] = result[x], runs'[x] = runs[x]
  PROVE  OpInv(x)'
  BY DEF OpInv

LEMMA NothingMoves ==
  ASSUME Core, UNCHANGED <<pc, result, counters, queues, worker, runs>>
  PROVE  Core'
  <1>1. Queued' = Queued /\ WithWorker' = WithWorker /\ Counted' = Counted
    BY DEF Queued, WithWorker, Counted
  <1>2. \A o \in Ops : OpInv(o)'
    BY <1>1, OpStays DEF Core
  <1>3. InFlightIsTrue' /\ CountTypes'
    BY <1>1, CountSame DEF Core
  <1>4. QueueTypes' /\ WorkerTypes'
    BY DEF Core, QueueTypes, WorkerTypes
  <1>5. WorkerInv' /\ QueueInv'
    BY DEF Core, WorkerInv, QueueInv, Distinct, Elems
  <1>6. QED
    BY <1>2, <1>3, <1>4, <1>5 DEF Core

\* A caller goes on, and nothing else changes but what it has read.
Early == {"new", "endpoint", "load", "decide"}
Onwards(o, p) ==
    \/ pc[o] \in Early /\ p \in Early \cup {"refused"}
    \/ pc[o] = "enqueue" /\ p = "panicked"
    \/ pc[o] = "waiting" /\ p = "cancelled"
    \/ pc[o] = "waiting" /\ result[o] # "none" /\ p = result[o]

LEMMA CallerMoves ==
  ASSUME Core, CallTypes, NEW o \in Ops, NEW p, Goto(o, p), Onwards(o, p),
         UNCHANGED <<result, counters, queues, worker, runs>>
  PROVE  Core'
  <1>1. Queued' = Queued /\ WithWorker' = WithWorker
    BY DEF Queued, WithWorker
  <1>2. pc'[o] = p /\ \A x \in Ops : x # o => pc'[x] = pc[x]
    BY DEF Goto, CallTypes
  <1>3. \A x \in Ops : pc'[x] \in {"enqueue", "running", "panicked"}
                         <=> pc[x] \in {"enqueue", "running", "panicked"}
    BY <1>2 DEF Onwards, Early, CallTypes
  <1>4. Own' = Own
    BY <1>3 DEF Own
  <1>5. Counted' = Counted
    <2>1. Counted' = Own' \cup Queued' \cup WithWorker'
      BY DEF Counted, Own
    <2>2. QED
      BY <1>1, <1>4, <2>1, CountedParts
  <1>6. ASSUME NEW x \in Ops PROVE OpInv(x)'
    <2>1. CASE x # o
      BY <1>1, <1>2, <2>1, OpStays DEF Core
    <2>2. CASE x = o
      <3>1. OpInv(o)
        BY DEF Core
      <3>2. result[o] \in {"none", "refused", "done"}
        BY DEF CallTypes
      <3>3. CASE pc[o] \in Early /\ p \in Early \cup {"refused"}
        BY <1>1, <1>2, <2>2, <3>1, <3>2, <3>3 DEF OpInv, Early, NotRun, Parked
      <3>4. CASE pc[o] = "enqueue" /\ p = "panicked"
        BY <1>1, <1>2, <2>2, <3>1, <3>2, <3>4 DEF OpInv, NotRun, Parked
      <3>5. CASE pc[o] = "waiting" /\ p = "cancelled"
        BY <1>1, <1>2, <2>2, <3>1, <3>2, <3>5 DEF OpInv, NotRun, Parked
      <3>6. CASE pc[o] = "waiting" /\ result[o] # "none" /\ p = result[o]
        BY <1>1, <1>2, <2>2, <3>1, <3>2, <3>6 DEF OpInv, NotRun, Parked
      <3>7. QED
        BY <3>3, <3>4, <3>5, <3>6 DEF Onwards
    <2>3. QED
      BY <2>1, <2>2
  <1>7. InFlightIsTrue' /\ CountTypes'
    BY <1>5, CountSame DEF Core
  <1>8. QueueTypes' /\ WorkerTypes'
    BY DEF Core, QueueTypes, WorkerTypes
  <1>9. WorkerInv' /\ QueueInv'
    BY DEF Core, WorkerInv, QueueInv, Distinct, Elems
  <1>10. QED
    BY <1>6, <1>7, <1>8, <1>9 DEF Core

\* An operation is admitted: it runs at once, or is about to be queued.
LEMMA Admitted ==
  ASSUME Core, CallTypes, NEW o \in Ops, CountForQueue(o) \/ RunNow(o)
  PROVE  Core'
  <1> DEFINE p == pc'[o]
  <1>1. /\ pc[o] = "decide" /\ p \in {"enqueue", "running"}
        /\ \A x \in Ops : x # o => pc'[x] = pc[x] /\ runs'[x] = runs[x]
        /\ p = "enqueue" => runs'[o] = runs[o] /\ Priority[o] # Telemetry
        /\ p = "running" => runs'[o] = runs[o] + 1
    BY DEF CountForQueue, AtLimit, RunNow, Decide, Goto, CallTypes
  <1>2. CountUp(o) /\ UNCHANGED <<result, queues, worker>>
    BY DEF CountForQueue, RunNow
  <1>3. Queued' = Queued /\ WithWorker' = WithWorker
    BY <1>2 DEF Queued, WithWorker
  <1>4. OpInv(o) /\ o \notin Queued \cup WithWorker /\ result[o] = "none" /\ runs[o] = 0
    <2>1. OpInv(o) /\ result[o] \in {"none", "refused", "done"}
      BY DEF Core, CallTypes
    <2>2. QED
      BY <1>1, <2>1 DEF OpInv, Parked, NotRun
  <1>5. Counted' = Counted \cup {o} /\ o \notin Counted
    <2>1. Own' = Own \cup {o} /\ o \notin Own
      BY <1>1 DEF Own
    <2>2. Counted' = Own' \cup Queued' \cup WithWorker'
      BY DEF Counted, Own
    <2>3. QED
      BY <1>3, <1>4, <2>1, <2>2, CountedParts
  <1>6. ASSUME NEW x \in Ops PROVE OpInv(x)'
    <2>1. CASE x # o
      BY <1>1, <1>2, <1>3, <2>1, OpStays DEF Core
    <2>2. CASE x = o
      BY <1>1, <1>2, <1>3, <1>4, <2>2 DEF OpInv, Parked, NotRun
    <2>3. QED
      BY <2>1, <2>2
  <1>7. InFlightIsTrue' /\ CountTypes'
    BY <1>2, <1>5, CountAdded, CountedFinite DEF Core
  <1>8. QueueTypes' /\ WorkerTypes' /\ QueueInv'
    BY <1>2 DEF Core, QueueTypes, WorkerTypes, QueueInv, Distinct, Elems
  <1>9. WorkerInv'
    <2>1. ASSUME NEW w \in Workers, worker[w].op # NoOp
          PROVE  runs'[worker[w].op] = runs[worker[w].op]
      <3>1. worker[w].op \in WithWorker /\ worker[w].op \in Ops
        BY <2>1 DEF WithWorker, Core, WorkerTypes
      <3>2. QED
        BY <1>1, <1>4, <3>1
    <2>2. QED
      BY <1>2, <2>1 DEF Core, WorkerInv
  <1>10. QED
    BY <1>6, <1>7, <1>8, <1>9 DEF Core

LEMMA Enqueued ==
  ASSUME Core, CallTypes, NEW o \in Ops, Enqueue(o)
  PROVE  Core'
  <1>1. /\ pc[o] = "enqueue" /\ pc'[o] = "waiting"
        /\ \A x \in Ops : x # o => pc'[x] = pc[x]
        /\ UNCHANGED <<result, counters, worker, runs>>
    BY DEF Enqueue, Goto, CallTypes
  <1>2. /\ OpInv(o) /\ o \notin Queued \cup WithWorker /\ result[o] = "none" /\ runs[o] = 0
        /\ Priority[o] # Telemetry
    <2>1. OpInv(o) /\ result[o] \in {"none", "refused", "done"}
      BY DEF Core, CallTypes
    <2>2. QED
      BY <1>1, <2>1 DEF OpInv, Parked, NotRun
  <1>3. QueueTypes' /\ QueueInv' /\ Queued' = Queued \cup {o}
    BY <1>2, EnqueueSets DEF Core
  <1>4. WithWorker' = WithWorker
    BY <1>1 DEF WithWorker
  <1>5. Counted' = Counted
    <2>1. Own' = Own \ {o} /\ o \in Own
      BY <1>1 DEF Own
    <2>2. Counted' = Own' \cup Queued' \cup WithWorker'
      BY DEF Counted, Own
    <2>3. QED
      BY <1>3, <1>4, <2>1, <2>2, CountedParts
  <1>6. ASSUME NEW x \in Ops PROVE OpInv(x)'
    <2>1. CASE x # o
      BY <1>1, <1>3, <1>4, <2>1, OpStays DEF Core
    <2>2. CASE x = o
      BY <1>1, <1>2, <1>3, <1>4, <2>2 DEF OpInv, Parked, NotRun
    <2>3. QED
      BY <2>1, <2>2
  <1>7. InFlightIsTrue' /\ CountTypes'
    BY <1>1, <1>5, CountSame DEF Core
  <1>8. WorkerTypes' /\ WorkerInv'
    BY <1>1 DEF Core, WorkerTypes, WorkerInv
  <1>9. QED
    BY <1>3, <1>6, <1>7, <1>8 DEF Core

\* The queue is full, or the caller's own run has ended.
LEMMA GivenBack ==
  ASSUME Core, CallTypes, NEW o \in Ops, QueueFull(o) \/ RunEnds(o)
  PROVE  Core'
  <1>1. /\ \/ pc[o] = "enqueue" /\ pc'[o] = "refused"
           \/ pc[o] = "running" /\ pc'[o] = "done"
        /\ \A x \in Ops : x # o => pc'[x] = pc[x]
        /\ CountDown(o) /\ UNCHANGED <<result, queues, worker, runs>>
    BY DEF QueueFull, GiveBack, RunEnds, Goto, CallTypes
  <1>2. /\ OpInv(o) /\ o \notin Queued \cup WithWorker /\ result[o] = "none"
        /\ pc[o] = "enqueue" => runs[o] = 0
        /\ pc[o] = "running" => runs[o] = 1
    <2>1. OpInv(o) /\ result[o] \in {"none", "refused", "done"}
      BY DEF Core, CallTypes
    <2>2. QED
      BY <1>1, <2>1 DEF OpInv, Parked, NotRun
  <1>3. Queued' = Queued /\ WithWorker' = WithWorker
    BY <1>1 DEF Queued, WithWorker
  <1>4. Counted' = Counted \ {o} /\ o \in Counted
    <2>1. Own' = Own \ {o} /\ o \in Own
      BY <1>1 DEF Own
    <2>2. Counted' = Own' \cup Queued' \cup WithWorker'
      BY DEF Counted, Own
    <2>3. QED
      BY <1>2, <1>3, <2>1, <2>2, CountedParts
  <1>5. ASSUME NEW x \in Ops PROVE OpInv(x)'
    <2>1. CASE x # o
      BY <1>1, <1>3, <2>1, OpStays DEF Core
    <2>2. CASE x = o
      BY <1>1, <1>2, <1>3, <2>2 DEF OpInv, Parked, NotRun
    <2>3. QED
      BY <2>1, <2>2
  <1>6. InFlightIsTrue' /\ CountTypes'
    BY <1>1, <1>4, CountRemoved, CountedFinite DEF Core
  <1>7. QueueTypes' /\ WorkerTypes' /\ QueueInv' /\ WorkerInv'
    <2>1. QueueTypes' /\ WorkerTypes'
      BY <1>1 DEF Core, QueueTypes, WorkerTypes
    <2>2. QueueInv'
      BY <1>1 DEF Core, QueueInv, Distinct, Elems
    <2>3. WorkerInv'
      BY <1>1 DEF Core, WorkerInv
    <2>4. QED
      BY <2>1, <2>2, <2>3
  <1>8. QED
    BY <1>5, <1>6, <1>7 DEF Core

\* The caller's side of what a worker does.
LEMMA ReceivedCore ==
  ASSUME Core, CallTypes, NEW w \in Workers, NEW t \in Tiers, Receive(w, t)
  PROVE  Core'
  <1> DEFINE o == Head(queues[t])
  <1>1. /\ o \in Ops /\ o \in Queued /\ QueueTypes' /\ QueueInv' /\ Queued' = Queued \ {o}
    BY ReceiveSets DEF Core
  <1>2. /\ SetWorker(w, "judge", o) /\ UNCHANGED <<pc, result, counters, runs>>
        /\ worker[w].pc \in {"safety", "control", "all"}
    BY DEF Receive, caller
  <1> HIDE DEF o
  <1>3. OpInv(o) /\ o \notin WithWorker /\ runs[o] = 0 /\ o # NoOp
    BY <1>1, LoadAssumption DEF Core, OpInv
  <1>4. worker[w].op = NoOp
    BY <1>2 DEF Core, WorkerInv
  <1>5. Alone /\ WorkerTypes
    BY DEF Core, WorkerInv, Alone
  <1>6. "judge" \in WorkerPcs
    BY DEF WorkerPcs
  <1>7. /\ WorkerTypes' /\ Alone'
        /\ worker'[w] = [pc |-> "judge", op |-> o]
        /\ \A v \in Workers : v # w => worker'[v] = worker[v]
        /\ WithWorker' = (WithWorker \ {NoOp}) \cup ({o} \ {NoOp})
    BY <1>1, <1>2, <1>3, <1>4, <1>5, <1>6, WorkerSets
  <1>8. WithWorker' = WithWorker \cup {o}
    BY <1>3, <1>7 DEF WithWorker
  <1>9. Counted' = Counted
    <2>1. Own' = Own
      BY <1>2 DEF Own
    <2>2. Counted' = Own' \cup Queued' \cup WithWorker'
      BY DEF Counted, Own
    <2>3. QED
      BY <1>1, <1>8, <2>1, <2>2, CountedParts
  <1>10. ASSUME NEW x \in Ops PROVE OpInv(x)'
    <2>1. CASE x # o
      BY <1>1, <1>2, <1>8, <2>1, OpStays DEF Core
    <2>2. CASE x = o
      BY <1>1, <1>2, <1>3, <1>8, <2>2 DEF OpInv
    <2>3. QED
      BY <2>1, <2>2
  <1>11. InFlightIsTrue' /\ CountTypes'
    BY <1>2, <1>9, CountSame DEF Core
  <1>12. WorkerInv'
    <2>1. ASSUME NEW v \in Workers
          PROVE  /\ worker'[v].op # NoOp <=> worker'[v].pc \in {"judge", "execute"}
                 /\ worker'[v].pc = "judge" => runs'[worker'[v].op] = 0
                 /\ worker'[v].pc = "execute" => runs'[worker'[v].op] = 1
      <3>1. CASE v = w
        BY <1>2, <1>3, <1>7, <3>1
      <3>2. CASE v # w
        BY <1>2, <1>7, <3>2 DEF Core, WorkerInv
      <3>3. QED
        BY <3>1, <3>2
    <2>2. QED
      BY <1>7, <2>1 DEF WorkerInv, Alone
  <1>13. QED
    BY <1>1, <1>7, <1>10, <1>11, <1>12 DEF Core

\* A worker without an operation looks further or leaves.
LEMMA IdleWorkerCore ==
  ASSUME Core, CallTypes, NEW w \in Workers, LookFurther(w) \/ WorkerLeaves(w)
  PROVE  Core'
  <1>1. PICK p \in {"control", "all", "gone"} : SetWorker(w, p, NoOp)
    BY DEF LookFurther, WorkerLeaves
  <1>2. /\ UNCHANGED <<pc, result, counters, queues, runs>>
        /\ worker[w].pc \in {"safety", "control", "all"}
    BY DEF LookFurther, WorkerLeaves, caller
  <1>3. worker[w].op = NoOp
    BY <1>2 DEF Core, WorkerInv
  <1>4. Alone /\ WorkerTypes /\ p \in WorkerPcs
    BY DEF Core, WorkerInv, Alone, WorkerPcs
  <1>5. /\ WorkerTypes' /\ Alone'
        /\ worker'[w] = [pc |-> p, op |-> NoOp]
        /\ \A v \in Workers : v # w => worker'[v] = worker[v]
        /\ WithWorker' = (WithWorker \ {NoOp}) \cup ({NoOp} \ {NoOp})
    BY <1>1, <1>3, <1>4, WorkerSets
  <1>6. Queued' = Queued /\ WithWorker' = WithWorker
    BY <1>2, <1>5 DEF Queued, WithWorker
  <1>7. Counted' = Counted
    <2>1. Counted' = Own' \cup Queued' \cup WithWorker' /\ Own' = Own
      BY <1>2 DEF Counted, Own
    <2>2. QED
      BY <1>6, <2>1, CountedParts
  <1>8. \A x \in Ops : OpInv(x)'
    BY <1>2, <1>6, OpStays DEF Core
  <1>9. InFlightIsTrue' /\ CountTypes'
    BY <1>2, <1>7, CountSame DEF Core
  <1>10. WorkerInv'
    <2>1. ASSUME NEW v \in Workers
          PROVE  /\ worker'[v].op # NoOp <=> worker'[v].pc \in {"judge", "execute"}
                 /\ worker'[v].pc = "judge" => runs'[worker'[v].op] = 0
                 /\ worker'[v].pc = "execute" => runs'[worker'[v].op] = 1
      <3>1. CASE v = w
        BY <1>5, <3>1
      <3>2. CASE v # w
        BY <1>2, <1>5, <3>2 DEF Core, WorkerInv
      <3>3. QED
        BY <3>1, <3>2
    <2>2. QED
      BY <1>5, <2>1 DEF WorkerInv, Alone
  <1>11. QueueTypes' /\ QueueInv'
    BY <1>2 DEF Core, QueueTypes, QueueInv, Distinct, Elems
  <1>12. QED
    BY <1>5, <1>8, <1>9, <1>10, <1>11 DEF Core

\* A worker has an operation, runs its function, and answers.
LEMMA Holding ==
  ASSUME Core, NEW w \in Workers, worker[w].pc \in {"judge", "execute"}
  PROVE  /\ worker[w].op \in Ops /\ worker[w].op # NoOp
         /\ worker[w].op \in WithWorker /\ worker[w].op \notin Queued
         /\ pc[worker[w].op] \in Parked /\ result[worker[w].op] = "none"
         /\ worker[w].pc = "judge" => runs[worker[w].op] = 0
         /\ worker[w].pc = "execute" => runs[worker[w].op] = 1
         /\ \A v \in Workers : v # w => worker[v].op # worker[w].op
  <1>1. worker[w].op # NoOp
    BY DEF Core, WorkerInv
  <1>2. worker[w].op \in Ops /\ worker[w].op \in WithWorker
    BY <1>1 DEF Core, WorkerTypes, WithWorker
  <1>3. OpInv(worker[w].op)
    BY <1>2 DEF Core
  <1>4. \A v \in Workers : v # w => worker[v].op # worker[w].op
    BY <1>1 DEF Core, WorkerInv
  <1>5. QED
    BY <1>1, <1>2, <1>3, <1>4 DEF OpInv, Core, WorkerInv

LEMMA ExecuteCore ==
  ASSUME Core, CallTypes, NEW w \in Workers, Execute(w)
  PROVE  Core'
  <1> DEFINE o == worker[w].op
  <1>1. /\ worker[w].pc = "judge" /\ UNCHANGED <<pc, result, counters, queues>>
        /\ runs' = [runs EXCEPT ![o] = @ + 1] /\ SetWorker(w, "execute", o)
    BY DEF Execute, caller
  <1>2. /\ o \in Ops /\ o # NoOp /\ o \in WithWorker /\ o \notin Queued
        /\ pc[o] \in Parked /\ result[o] = "none" /\ runs[o] = 0
        /\ \A v \in Workers : v # w => worker[v].op # o
    BY <1>1, Holding
  <1>3. Alone /\ WorkerTypes /\ "execute" \in WorkerPcs
    BY DEF Core, WorkerInv, Alone, WorkerPcs
  <1>4. /\ WorkerTypes' /\ Alone'
        /\ worker'[w] = [pc |-> "execute", op |-> o]
        /\ \A v \in Workers : v # w => worker'[v] = worker[v]
        /\ WithWorker' = (WithWorker \ {o}) \cup ({o} \ {NoOp})
    BY <1>1, <1>2, <1>3, WorkerSets
  <1>5. runs'[o] = 1 /\ \A x \in Ops : x # o => runs'[x] = runs[x]
    BY <1>1, <1>2 DEF CallTypes
  <1>6. Queued' = Queued /\ WithWorker' = WithWorker
    BY <1>1, <1>2, <1>4 DEF Queued
  <1> HIDE DEF o
  <1>7. Counted' = Counted
    <2>1. Counted' = Own' \cup Queued' \cup WithWorker' /\ Own' = Own
      BY <1>1 DEF Counted, Own
    <2>2. QED
      BY <1>6, <2>1, CountedParts
  <1>8. ASSUME NEW x \in Ops PROVE OpInv(x)'
    <2>1. CASE x # o
      BY <1>1, <1>5, <1>6, <2>1, OpStays DEF Core
    <2>2. CASE x = o
      BY <1>1, <1>2, <1>5, <1>6, <2>2 DEF OpInv, Parked, NotRun
    <2>3. QED
      BY <2>1, <2>2
  <1>9. InFlightIsTrue' /\ CountTypes'
    BY <1>1, <1>7, CountSame DEF Core
  <1>10. WorkerInv'
    <2>1. ASSUME NEW v \in Workers
          PROVE  /\ worker'[v].op # NoOp <=> worker'[v].pc \in {"judge", "execute"}
                 /\ worker'[v].pc = "judge" => runs'[worker'[v].op] = 0
                 /\ worker'[v].pc = "execute" => runs'[worker'[v].op] = 1
      <3>1. CASE v = w
        BY <1>2, <1>4, <1>5, <3>1
      <3>2. CASE v # w
        <4>1. worker[v].op # NoOp => worker[v].op \in Ops /\ worker[v].op # o
          BY <1>2, <1>3, <3>2 DEF WorkerTypes
        <4>2. QED
          BY <1>4, <1>5, <3>2, <4>1 DEF Core, WorkerInv
      <3>3. QED
        BY <3>1, <3>2
    <2>2. QED
      BY <1>4, <2>1 DEF WorkerInv, Alone
  <1>11. QueueTypes' /\ QueueInv'
    BY <1>1 DEF Core, QueueTypes, QueueInv, Distinct, Elems
  <1>12. QED
    BY <1>4, <1>8, <1>9, <1>10, <1>11 DEF Core

LEMMA AnsweredCore ==
  ASSUME Core, CallTypes, NEW w \in Workers, Discard(w) \/ ExecuteEnds(w)
  PROVE  Core'
  <1> DEFINE o == worker[w].op
  <1>1. /\ \/ worker[w].pc = "judge" /\ result' = [result EXCEPT ![o] = "refused"]
           \/ worker[w].pc = "execute" /\ result' = [result EXCEPT ![o] = "done"]
        /\ SetWorker(w, "safety", NoOp) /\ CountDown(o)
        /\ UNCHANGED <<pc, queues, runs>>
    BY DEF Discard, ExecuteEnds, Reply, caller
  <1>2. /\ o \in Ops /\ o # NoOp /\ o \in WithWorker /\ o \notin Queued
        /\ pc[o] \in Parked /\ result[o] = "none"
        /\ worker[w].pc = "judge" => runs[o] = 0
        /\ worker[w].pc = "execute" => runs[o] = 1
    BY <1>1, Holding
  <1>3. Alone /\ WorkerTypes /\ "safety" \in WorkerPcs /\ NoOp \notin WithWorker
    BY DEF Core, WorkerInv, Alone, WorkerPcs, WithWorker
  <1>4. /\ WorkerTypes' /\ Alone'
        /\ worker'[w] = [pc |-> "safety", op |-> NoOp]
        /\ \A v \in Workers : v # w => worker'[v] = worker[v]
        /\ WithWorker' = (WithWorker \ {o}) \cup ({NoOp} \ {NoOp})
    BY <1>1, <1>3, WorkerSets
  <1>5. /\ worker[w].pc = "judge" => result'[o] = "refused"
        /\ worker[w].pc = "execute" => result'[o] = "done"
        /\ \A x \in Ops : x # o => result'[x] = result[x]
    BY <1>1, <1>2 DEF CallTypes
  <1>6. Queued' = Queued /\ WithWorker' = WithWorker \ {o}
    BY <1>1, <1>4 DEF Queued
  <1> HIDE DEF o
  <1>7. Counted' = Counted \ {o} /\ o \in Counted
    <2>1. Counted' = Own' \cup Queued' \cup WithWorker' /\ Own' = Own
      BY <1>1 DEF Counted, Own
    <2>2. o \notin Own
      BY <1>2 DEF Own, Parked
    <2>3. QED
      BY <1>2, <1>6, <2>1, <2>2, CountedParts
  <1>8. ASSUME NEW x \in Ops PROVE OpInv(x)'
    <2>1. CASE x # o
      BY <1>1, <1>5, <1>6, <2>1, OpStays DEF Core
    <2>2. CASE x = o
      <3>1. OpInv(o)
        BY <1>2 DEF Core
      <3>2. CASE worker[w].pc = "judge"
        BY <1>1, <1>2, <1>5, <1>6, <2>2, <3>1, <3>2 DEF OpInv, Parked, NotRun
      <3>3. CASE worker[w].pc = "execute"
        BY <1>1, <1>2, <1>5, <1>6, <2>2, <3>1, <3>3 DEF OpInv, Parked, NotRun
      <3>4. QED
        BY <1>1, <3>2, <3>3
    <2>3. QED
      BY <2>1, <2>2
  <1>9. InFlightIsTrue' /\ CountTypes'
    BY <1>1, <1>2, <1>7, CountRemoved, CountedFinite DEF Core
  <1>10. WorkerInv'
    <2>1. ASSUME NEW v \in Workers
          PROVE  /\ worker'[v].op # NoOp <=> worker'[v].pc \in {"judge", "execute"}
                 /\ worker'[v].pc = "judge" => runs'[worker'[v].op] = 0
                 /\ worker'[v].pc = "execute" => runs'[worker'[v].op] = 1
      <3>1. CASE v = w
        BY <1>4, <3>1
      <3>2. CASE v # w
        BY <1>1, <1>4, <3>2 DEF Core, WorkerInv
      <3>3. QED
        BY <3>1, <3>2
    <2>2. QED
      BY <1>4, <2>1 DEF WorkerInv, Alone
  <1>11. QueueTypes' /\ QueueInv'
    BY <1>1 DEF Core, QueueTypes, QueueInv, Distinct, Elems
  <1>12. QED
    BY <1>4, <1>8, <1>9, <1>10, <1>11 DEF Core

-----------------------------------------------------------------------------
(* All steps.                                                              *)

Quiet(o) ==
    \/ EarlyChecks(o) \/ EndpointCheck(o) \/ LoadGlobal(o) \/ ShedTelemetry(o)
    \/ RefuseClosed(o) \/ SendPanics(o) \/ WaitEnds(o)

LEMMA QuietSteps ==
  ASSUME NEW o \in Ops, Quiet(o)
  PROVE  /\ \E p : Goto(o, p) /\ Onwards(o, p)
         /\ UNCHANGED <<result, counters, queues, worker, runs>>
  <1> USE DEF Onwards, Early
  <1>1. CASE EarlyChecks(o) \/ EndpointCheck(o) \/ LoadGlobal(o) \/ SendPanics(o)
    BY <1>1 DEF EarlyChecks, EndpointCheck, LoadGlobal, SendPanics
  <1>2. CASE ShedTelemetry(o) \/ RefuseClosed(o)
    BY <1>2 DEF ShedTelemetry, RefuseClosed, AtLimit, Decide
  <1>3. CASE WaitEnds(o)
    BY <1>3 DEF WaitEnds, StopWaiting
  <1>4. QED
    BY <1>1, <1>2, <1>3 DEF Quiet

Outside == HealthTick \/ PoolCloses \/ CloseQueues \/ Environment

LEMMA NextCore == Core /\ CallTypes /\ [ShapingNext]_shapingVars => Core'
  <1> SUFFICES ASSUME Core, CallTypes, [ShapingNext]_shapingVars PROVE Core'
    OBVIOUS
  <1>1. ASSUME NEW o \in Ops, EarlyChecks(o) \/ Caller(o) PROVE Core'
    <2>1. CASE Quiet(o)
      BY <2>1, QuietSteps, CallerMoves
    <2>2. CASE CountForQueue(o) \/ RunNow(o)
      BY <2>2, Admitted
    <2>3. CASE Enqueue(o)
      BY <2>3, Enqueued
    <2>4. CASE QueueFull(o) \/ RunEnds(o)
      BY <2>4, GivenBack
    <2>5. QED
      BY <1>1, <2>1, <2>2, <2>3, <2>4 DEF Caller, Quiet
  <1>2. ASSUME NEW w \in Workers, Worker(w) PROVE Core'
    BY <1>2, ReceivedCore, IdleWorkerCore, ExecuteCore, AnsweredCore DEF Worker
  <1>3. CASE Outside \/ UNCHANGED shapingVars
    <2>1. UNCHANGED <<pc, result, counters, queues, worker, runs>>
      BY <1>3 DEF Outside, HealthTick, PoolCloses, CloseQueues, Environment, ContextEnds,
                  BreakerOpens, BreakerLeavesOpen, shapingVars, caller
    <2>2. QED
      BY <2>1, NothingMoves
  <1>4. QED
    BY <1>1, <1>2, <1>3 DEF ShapingNext, Outside

LEMMA GotoType ==
  ASSUME CallTypes, NEW o \in Ops, NEW p \in Pcs, Goto(o, p)
  PROVE  pc' \in [Ops -> Pcs]
  BY DEF CallTypes, Goto

LEMMA NextCall == Core /\ CallTypes /\ [ShapingNext]_shapingVars => CallTypes'
  <1> SUFFICES ASSUME Core, CallTypes, [ShapingNext]_shapingVars PROVE CallTypes'
    OBVIOUS
  <1>0. \A o \in Ops : [seen EXCEPT ![o] = 0] \in [Ops -> Nat]
                       /\ [seen EXCEPT ![o] = inFlight] \in [Ops -> Nat]
                       /\ [runs EXCEPT ![o] = @ + 1] \in [Ops -> Nat]
    BY DEF CallTypes, Core, CountTypes
  <1>a. Early \cup Outcomes \cup {"enqueue", "waiting", "running", "panicked"} \subseteq Pcs
    BY DEF Early, Pcs
  <1>1. ASSUME NEW o \in Ops, EarlyChecks(o) \/ Caller(o) PROVE CallTypes'
    <2>1. PICK p : p \in Pcs /\ Goto(o, p)
      <3>1. CASE Quiet(o)
        <4>1. PICK q : Goto(o, q) /\ Onwards(o, q)
          BY <3>1, QuietSteps
        <4>2. result[o] \in {"none", "refused", "done"}
          BY DEF CallTypes
        <4>3. q \in Pcs
          BY <1>a, <4>1, <4>2 DEF Onwards, Outcomes
        <4>4. QED
          BY <4>1, <4>3
      <3>2. CASE CountForQueue(o) \/ RunNow(o) \/ Enqueue(o)
        BY <1>a, <3>2 DEF CountForQueue, RunNow, Enqueue, Decide
      <3>3. CASE QueueFull(o) \/ RunEnds(o)
        BY <1>a, <3>3 DEF QueueFull, RunEnds, Outcomes
      <3>4. QED
        BY <1>1, <3>1, <3>2, <3>3 DEF Caller, Quiet
    <2>2. pc' \in [Ops -> Pcs]
      BY <2>1, GotoType
    <2>3. seen' \in [Ops -> Nat] /\ runs' \in [Ops -> Nat] /\ UNCHANGED <<expired, result>>
      <3>1. CASE EarlyChecks(o) \/ EndpointCheck(o) \/ LoadGlobal(o) \/ SendPanics(o) \/ WaitEnds(o)
        BY <1>0, <3>1 DEF EarlyChecks, EndpointCheck, LoadGlobal, SendPanics, WaitEnds, CallTypes
      <3>2. CASE ShedTelemetry(o) \/ RefuseClosed(o) \/ CountForQueue(o) \/ RunNow(o)
        BY <1>0, <3>2 DEF ShedTelemetry, RefuseClosed, CountForQueue, RunNow, Decide, CallTypes
      <3>3. CASE Enqueue(o) \/ QueueFull(o) \/ RunEnds(o)
        BY <3>3 DEF Enqueue, QueueFull, RunEnds, CallTypes
      <3>4. QED
        BY <1>1, <3>1, <3>2, <3>3 DEF Caller
    <2>4. QED
      BY <2>2, <2>3 DEF CallTypes
  <1>2. ASSUME NEW w \in Workers, Worker(w) PROVE CallTypes'
    <2>1. CASE Execute(w)
      <3>1. worker[w].op \in Ops
        BY <2>1, Holding DEF Execute
      <3>2. QED
        BY <1>0, <2>1, <3>1 DEF Execute, CallTypes, caller
    <2>2. CASE Discard(w) \/ ExecuteEnds(w)
      BY <2>2 DEF Discard, ExecuteEnds, Reply, CallTypes, caller
    <2>3. CASE LookFurther(w) \/ WorkerLeaves(w) \/ \E t \in Tiers : Receive(w, t)
      BY <2>3 DEF LookFurther, WorkerLeaves, Receive, CallTypes, caller
    <2>4. QED
      BY <1>2, <2>1, <2>2, <2>3 DEF Worker
  <1>3. CASE Outside \/ UNCHANGED shapingVars
    BY <1>3 DEF Outside, HealthTick, PoolCloses, CloseQueues, Environment, ContextEnds,
                BreakerOpens, BreakerLeavesOpen, shapingVars, caller, CallTypes
  <1>4. QED
    BY <1>1, <1>2, <1>3 DEF ShapingNext, Outside

LEMMA NextRest == RestTypes /\ [ShapingNext]_shapingVars => RestTypes'
  <1> SUFFICES ASSUME RestTypes, [ShapingNext]_shapingVars PROVE RestTypes'
    OBVIOUS
  <1> USE DEF RestTypes
  <1>1. ASSUME NEW o \in Ops, EarlyChecks(o) \/ Caller(o) PROVE RestTypes'
    <2>1. CASE RunNow(o)
      <3>1. UNCHANGED <<open, closing>>
        BY <2>1 DEF RunNow
      <3>2. CASE seen[o] >= Threshold \div 2
        BY <2>1, <3>1, <3>2 DEF RunNow
      <3>3. CASE ~(seen[o] >= Threshold \div 2)
        BY <2>1, <3>1, <3>3 DEF RunNow
      <3>4. QED
        BY <3>2, <3>3
    <2>2. CASE ShedTelemetry(o)
      BY <2>2 DEF ShedTelemetry
    <2>3. CASE ~RunNow(o) /\ ~ShedTelemetry(o)
      BY <1>1, <2>3 DEF EarlyChecks, Caller, EndpointCheck, LoadGlobal, RefuseClosed, CountForQueue,
                        Enqueue, QueueFull, SendPanics, WaitEnds, RunEnds
    <2>4. QED
      BY <2>1, <2>2, <2>3
  <1>2. ASSUME NEW w \in Workers, Worker(w) PROVE RestTypes'
    BY <1>2 DEF Worker, Receive, LookFurther, WorkerLeaves, Discard, Execute, ExecuteEnds
  <1>3. CASE Outside \/ UNCHANGED shapingVars
    <2>1. CASE HealthTick
      BY <2>1 DEF HealthTick
    <2>2. CASE PoolCloses \/ CloseQueues \/ UNCHANGED shapingVars
      BY <2>2 DEF PoolCloses, CloseQueues, shapingVars
    <2>3. CASE Environment
      BY <2>3, LoadAssumption DEF Environment, ContextEnds, BreakerOpens, BreakerLeavesOpen
    <2>4. QED
      BY <1>3, <2>1, <2>2, <2>3 DEF Outside
  <1>4. QED
    BY <1>1, <1>2, <1>3 DEF ShapingNext, Outside

LEMMA InitShaping == ShapingInit => ShapingInv
  <1> SUFFICES ASSUME ShapingInit PROVE ShapingInv
    OBVIOUS
  <1>1. queues = [t \in Tiers |-> <<>>]
    BY DEF ShapingInit
  <1>2. Queued = {}
    BY <1>1 DEF Queued
  <1>3. WithWorker = {} /\ Own = {}
    BY DEF ShapingInit, WithWorker, Own
  <1>4. Counted = {}
    BY <1>2, <1>3, CountedParts
  <1>5. Types
    <2>1. CountTypes /\ CallTypes
      BY DEF ShapingInit, CountTypes, CallTypes, Pcs
    <2>2. QueueTypes
      BY <1>1, LoadAssumption DEF QueueTypes, Tiers, Telemetry
    <2>3. WorkerTypes /\ RestTypes
      BY DEF ShapingInit, WorkerTypes, RestTypes
    <2>4. QED
      BY <2>1, <2>2, <2>3 DEF Types
  <1>6. WorkerInv
    BY DEF ShapingInit, WorkerInv
  <1>7. QueueInv
    BY <1>1 DEF QueueInv, Distinct, Elems
  <1>8. \A o \in Ops : OpInv(o)
    BY <1>2, <1>3 DEF ShapingInit, OpInv, NotRun, Parked
  <1>9. InFlightIsTrue
    <2>1. \A e : {o \in Counted : EndpointOf[o] = e} = {}
      BY <1>4
    <2>2. QED
      BY <1>4, <2>1, FS_EmptySet DEF ShapingInit, InFlightIsTrue
  <1>10. QED
    BY <1>5, <1>6, <1>7, <1>8, <1>9 DEF ShapingInv

-----------------------------------------------------------------------------
(* The theorems.                                                           *)

\* The inductive invariant holds: the types, one place for every operation, and
\* counters that count what is in those places.
THEOREM ShapingCorrect == ShapingSpec => []ShapingInv
  <1>1. ShapingInv /\ [ShapingNext]_shapingVars => ShapingInv'
    BY NextCore, NextCall, NextRest DEF ShapingInv, Types, Core
  <1>2. QED
    BY <1>1, InitShaping, PTL DEF ShapingSpec

\* The counters that decide on every admission are true, no operation runs
\* twice, and none that was refused runs, for every number of operations,
\* endpoints and workers and every limit.
THEOREM AlwaysShapingSafe == ShapingSpec => []ShapingSafe
  <1>1. ShapingInv => ShapingSafe
    <2> SUFFICES ASSUME ShapingInv PROVE ShapingSafe
      OBVIOUS
    <2>1. ShapingTypeOK
      BY DEF ShapingInv, Types, CountTypes, CallTypes, QueueTypes, WorkerTypes, RestTypes, ShapingTypeOK
    <2>2. AnswersAreHonest
      BY DEF ShapingInv, OpInv, NotRun, AnswersAreHonest
    <2>3. QED
      BY <2>1, <2>2 DEF ShapingInv, ShapingSafe
  <1>2. QED
    BY <1>1, ShapingCorrect, PTL
=============================================================================
