---------------------------- MODULE OpcuaSessions ----------------------------
(***************************************************************************)
(* The OPC UA connection pool (adapter/opcua: pool.go, session.go,         *)
(* health.go, and of client.go and subscription.go what they do to a       *)
(* session): devices share one session per endpoint; callers read, write,  *)
(* browse, subscribe and unsubscribe through it while the idle reaper, the *)
(* health checker and Close work on the same maps.                         *)
(*                                                                         *)
(* p.mu is taken where the code takes it.  What is done under it without a  *)
(* step that others could see is one action; the reaper alone is seen half *)
(* way, because a caller that already has a client needs no lock to use it. *)
(*                                                                         *)
(* A session in the pool is known by its endpoint key, which never changes. *)
(* When the pool drops a session that someone still holds it becomes a     *)
(* stray, <<endpoint key, who dropped it>>.  Bound: the reaper does not    *)
(* drop a session while someone still holds an earlier one of that key.    *)
(* PoolConfig.MaxTTL is 0: nothing sets it.                                *)
(***************************************************************************)
EXTENDS Naturals, FiniteSets

CONSTANTS
    Devices,        \* device ids
    Endpoints,      \* endpoint keys
    Callers,        \* goroutines that call the pool
    Work,           \* the operations each caller makes, on which device
    InitialAddrs,   \* the endpoint keys of the devices at first
    Moves,          \* bound: the changes of address that happen
    MaxConnections, \* PoolConfig.MaxConnections
    MaxRetries,     \* ClientConfig.MaxRetries: 0 means 3 (client.go:36)
    NoEndpoint,     \* no binding, or no session
    NoDevice        \* a caller that is not calling

\* read: ReadTags and WriteTags, one request; write: WriteTag and ReadTag,
\* which retry.
Kinds == {"read", "write", "browse", "subscribe", "unsubscribe"}

ASSUME OpcuaAssumption ==
    /\ IsFiniteSet(Endpoints)
    /\ MaxConnections \in Nat \ {0}
    /\ MaxRetries \in Nat \ {0}
    /\ Work \in [Callers -> SUBSET (Kinds \X Devices)]
    /\ InitialAddrs \subseteq [Devices -> Endpoints]
    /\ IsFiniteSet(Callers)
    /\ Moves \subseteq Devices \X Endpoints \X Endpoints
    /\ NoEndpoint \notin Endpoints \cup (Endpoints \X {"reaper", "close"})
    /\ Endpoints \cap (Endpoints \X {"reaper", "close"}) = {}
    /\ NoDevice \notin Devices

VARIABLES
    sessions,   \* the keys of p.sessions
    devices,    \* p.devices: the endpoint key of each device's binding
    mu,         \* who holds p.mu between two steps: "free" or "reaper"
    closePc,    \* "open"; "waiting": p.closed, Close waits; "closed"
    bound,      \* pooledSession.devices of a session in the pool
    subs,       \* the subscriptions of its subscriptionMgr
    connected,  \* pooledSession.client.connected
    recent,     \* hasRecentActivity of a session in the pool
    addr,       \* the endpoint key of each device's configuration
    call,       \* what each caller is doing
    reapPc,     \* where the idle reaper is
    toReap,     \* its list
    reaping,    \* the endpoint it is closing
    checking    \* the session the health checker has picked

poolVars    == <<sessions, devices>>
lockVars    == <<mu, closePc>>
sessionVars == <<bound, subs, connected, recent>>
reaperVars  == <<reapPc, toReap, reaping>>
vars == <<poolVars, lockVars, sessionVars, addr, call, reaperVars, checking>>

\* Sessions that left the pool while a caller or the health checker held them.
Strays == Endpoints \X {"reaper", "close"}
Sessions == Endpoints \cup Strays
KeyOf(s) == IF s \in Endpoints THEN s ELSE s[1]

CallPcs == {"idle", "client", "lookup", "call", "io", "drop", "dial", "manage"}

Working == {"call", "io", "drop", "dial", "manage"}

\* A call: the operation, its device, the endpoint key of the *domain.Device it
\* was given, the session whose client it uses, and the attempts it has made.
Calls == [pc : CallPcs, kind : Kinds, dev : Devices \cup {NoDevice},
          key : Endpoints \cup {NoEndpoint}, ref : Sessions \cup {NoEndpoint},
          tries : Nat]

NoCall == [pc |-> "idle", kind |-> "read", dev |-> NoDevice,
           key |-> NoEndpoint, ref |-> NoEndpoint, tries |-> 0]

Closed == closePc # "open"
Held(s) == checking = s \/ \E c \in Callers : call[c].ref = s
HeldByOther(s, c) == checking = s \/ \E o \in Callers \ {c} : call[o].ref = s

\* session.mu can be taken: the reaper does not hold it.
SessionFree(s) == reapPc = "close" => reaping # s

Init ==
    /\ sessions = {}
    /\ devices = [d \in Devices |-> NoEndpoint]
    /\ mu = "free"
    /\ closePc = "open"
    /\ bound = [e \in Endpoints |-> {}]
    /\ subs = [e \in Endpoints |-> {}]
    /\ connected = [s \in Sessions |-> FALSE]
    /\ recent = [e \in Endpoints |-> FALSE]
    /\ addr \in InitialAddrs
    /\ call = [c \in Callers |-> NoCall]
    /\ reapPc = "idle"
    /\ toReap = {}
    /\ reaping = NoEndpoint
    /\ checking = NoEndpoint

-----------------------------------------------------------------------------
(* The client.                                                             *)

\* lastUsed, or lastPublishTime, is now.  Of a session that has left the pool it
\* is not read again.
Touch(s) == recent' = IF s \in sessions THEN [recent EXCEPT ![s] = TRUE] ELSE recent

\* Client.Connect: nothing to do on a connected client; otherwise it connects,
\* and lastUsed is now, or fails.
ConnectOk(s) == /\ connected' = [connected EXCEPT ![s] = TRUE]
                /\ IF connected[s] THEN UNCHANGED recent ELSE Touch(s)
ConnectFails(s) == ~connected[s] /\ UNCHANGED <<connected, recent>>

Step(c, where) == call' = [call EXCEPT ![c].pc = where]
UseSession(c, s, where) == call' = [call EXCEPT ![c].pc = where, ![c].ref = s]

\* A stray that nobody holds any more is forgotten, with the connection it may have.
Forget(conn, s, held) == [x \in Sessions |-> conn[x] /\ ~(x = s /\ s \in Strays /\ ~held)]

\* The call returns, with the connections as they were, or as it left them.
ReturnWith(c, conn) ==
    /\ call' = [call EXCEPT ![c] = NoCall]
    /\ connected' = Forget(conn, call[c].ref, HeldByOther(call[c].ref, c))
Return(c) == ReturnWith(c, connected)

-----------------------------------------------------------------------------
(* A call begins, and gets its client.                                     *)

\* A poller, a command, a browse request or the polling service calls, with
\* the device configuration it has at that moment.
Begin(c, kind, d) ==
    /\ call[c].pc = "idle"
    /\ <<kind, d>> \in Work[c]
    /\ call' = [call EXCEPT ![c] =
                   [NoCall EXCEPT !.pc = IF kind \in {"browse", "unsubscribe"} THEN "lookup" ELSE "client",
                                  !.kind = kind, !.dev = d,
                                  !.key = IF kind \in {"browse", "unsubscribe"} THEN NoEndpoint ELSE addr[d]]]
    /\ UNCHANGED <<poolVars, lockVars, sessionVars, addr, reaperVars, checking>>

\* A device bound to another endpoint leaves that session and its binding.
Moved(d, e) == devices[d] \notin {e, NoEndpoint}
MutantKeepsOldDevice(d, e) == bound
LeftBound(d, e) ==
    IF Moved(d, e) THEN [bound EXCEPT ![devices[d]] = @ \ {d}] ELSE bound
LeftDevices(d, e) == [devices EXCEPT ![d] = IF Moved(d, e) THEN NoEndpoint ELSE @]

\* GetClient, up to what it does with a session: p.mu is held throughout.
GetClientOf(c) == call[c].pc = "client" /\ mu = "free"
MutantIgnoresClosed(c) == GetClientOf(c)
GetClientAdmitted(c) == GetClientOf(c) /\ ~Closed

GetClientRefused(c) ==
    /\ GetClientOf(c)
    /\ Closed
    /\ Return(c)
    /\ UNCHANGED <<poolVars, lockVars, bound, subs, recent, addr, reaperVars, checking>>

\* getClientFromExistingSession: bind the device if the session does not have
\* it; then a connected client, a connect, or an error.  (That the reconnect
\* backoff still runs is a way to fail: the clock decides.)
GetClientShared(c) ==
    LET d == call[c].dev
        e == call[c].key
    IN /\ GetClientAdmitted(c)
       /\ e \in sessions
       /\ bound' = [LeftBound(d, e) EXCEPT ![e] = @ \cup {d}]
       /\ devices' = IF d \in bound[e] THEN LeftDevices(d, e) ELSE [devices EXCEPT ![d] = e]
       /\ \/ ConnectOk(e) /\ UseSession(c, e, "lookup")
          \/ ConnectFails(e) /\ Return(c)
       /\ UNCHANGED <<sessions, lockVars, subs, addr, reaperVars, checking>>

\* The pool is full.  A moved device has already left its old session.
GetClientExhausted(c) ==
    LET d == call[c].dev
        e == call[c].key
    IN /\ GetClientAdmitted(c)
       /\ e \notin sessions
       /\ Cardinality(sessions) >= MaxConnections
       /\ bound' = LeftBound(d, e)
       /\ devices' = LeftDevices(d, e)
       /\ Return(c)
       /\ UNCHANGED <<sessions, lockVars, subs, recent, addr, reaperVars, checking>>

\* createNewSession registers the session, then connects; it stays registered
\* when that fails.
GetClientNew(c) ==
    LET d == call[c].dev
        e == call[c].key
    IN /\ GetClientAdmitted(c)
       /\ e \notin sessions
       /\ Cardinality(sessions) < MaxConnections
       /\ sessions' = sessions \cup {e}
       /\ devices' = [devices EXCEPT ![d] = e]
       /\ bound' = [LeftBound(d, e) EXCEPT ![e] = {d}]
       /\ recent' = [recent EXCEPT ![e] = TRUE]
       /\ \/ connected' = [connected EXCEPT ![e] = TRUE] /\ UseSession(c, e, "lookup")
          \/ Return(c)
       /\ UNCHANGED <<lockVars, subs, addr, reaperVars, checking>>

Registered(s) == s \in sessions

\* What a call does next with the session it has found: reads and writes keep the
\* client they got, the others work on this session.
MutantUsesBinding(c, s) ==
    UseSession(c, s, IF call[c].kind \in {"subscribe", "unsubscribe"} THEN "manage" ELSE "call")
Proceed(c, s) ==
    CASE call[c].kind \in {"read", "write"} -> Step(c, "call")
      [] call[c].kind = "browse" -> UseSession(c, s, "call")
      [] OTHER -> UseSession(c, s, "manage")

\* getSessionForDevice and getDeviceBinding, each under p.mu: a device without
\* a binding or a session is an error.
Lookup(c) ==
    LET s == devices[call[c].dev]
    IN /\ call[c].pc = "lookup"
       /\ mu = "free"
       /\ \/ ~Registered(s) /\ Return(c)
          \/ /\ Registered(s)
             /\ Proceed(c, s)
             /\ UNCHANGED connected
       /\ UNCHANGED <<poolVars, lockVars, bound, subs, recent, addr, reaperVars, checking>>

-----------------------------------------------------------------------------
(* A read, write or browse on the client.                                  *)

\* The load check or a breaker refuses, the context has ended, or the browse
\* cache answers.
CallRefused(c) ==
    /\ call[c].pc = "call"
    /\ Return(c)
    /\ UNCHANGED <<poolVars, lockVars, bound, subs, recent, addr, reaperVars, checking>>

\* Browse looks whether it is connected before it sets lastUsed, the others after.
CallEnters(c) ==
    LET s == call[c].ref
    IN /\ call[c].pc = "call"
       /\ \/ connected[s] /\ Touch(s) /\ Step(c, "io") /\ UNCHANGED connected
          \/ /\ ~connected[s]
             /\ IF call[c].kind = "browse" THEN UNCHANGED recent ELSE Touch(s)
             /\ Return(c)
       /\ UNCHANGED <<poolVars, lockVars, bound, subs, addr, reaperVars, checking>>

\* The request is answered, or fails in a way that is not tried again.
RequestReturns(c) ==
    /\ call[c].pc = "io"
    /\ connected[call[c].ref] \/ call[c].kind # "write"
    /\ Return(c)
    /\ UNCHANGED <<poolVars, lockVars, bound, subs, recent, addr, reaperVars, checking>>

\* The next attempt after its delay, unless they are used up or the context ends.
NextAttempt(c, conn) ==
    \/ ReturnWith(c, conn)
    \/ /\ call[c].tries < MaxRetries
       /\ call' = [call EXCEPT ![c].pc = "io", ![c].tries = @ + 1]
       /\ connected' = conn

MutantAlwaysReconnects(s) == TRUE
NeedsReconnect(s) == ~connected[s]

\* A connection error, which also a client without connection returns, leads to
\* Client.reconnect.  It does nothing if another goroutine holds the client's
\* lock or the client is connected; otherwise Disconnect and Connect follow, each of
\* which takes the lock anew.
RequestFails(c) ==
    /\ call[c].pc = "io"
    /\ call[c].kind = "write"
    /\ \/ NextAttempt(c, connected)
       \/ NeedsReconnect(call[c].ref) /\ Step(c, "drop") /\ UNCHANGED connected
    /\ UNCHANGED <<poolVars, lockVars, bound, subs, recent, addr, reaperVars, checking>>

ReconnectDrops(c) ==
    /\ call[c].pc = "drop"
    /\ connected' = [connected EXCEPT ![call[c].ref] = FALSE]
    /\ Step(c, "dial")
    /\ UNCHANGED <<poolVars, lockVars, bound, subs, recent, addr,
                   reaperVars, checking>>

ReconnectDials(c) ==
    LET s == call[c].ref
    IN /\ call[c].pc = "dial"
       /\ \/ /\ IF connected[s] THEN UNCHANGED recent ELSE Touch(s)
             /\ NextAttempt(c, [connected EXCEPT ![s] = TRUE])
          \/ ~connected[s] /\ NextAttempt(c, connected) /\ UNCHANGED recent
       /\ UNCHANGED <<poolVars, lockVars, bound, subs, addr, reaperVars, checking>>

-----------------------------------------------------------------------------
(* Subscriptions, under session.mu.                                        *)

\* SubscribeDevice: Start of a new manager and Subscribe need a connected client.
\* A subscription the device has is cancelled before the new one is created,
\* so a failure takes that one too.  (Those of a stray are not recorded.)
ManageOf(c, kind) == /\ call[c].pc = "manage"
                     /\ call[c].kind = kind
                     /\ SessionFree(call[c].ref)

SetSubs(s, devs) == subs' = [e \in Endpoints |-> IF e = s THEN devs ELSE subs[e]]
SubsOf(s) == IF s \in Endpoints THEN subs[s] ELSE {}

\* Start and createOPCSubscription ask for the client's connection.
CanSubscribe(s) == connected[s]

SubscribeOk(c) ==
    LET s == call[c].ref
    IN /\ ManageOf(c, "subscribe")
       /\ CanSubscribe(s)
       /\ SetSubs(s, SubsOf(s) \cup {call[c].dev})
       /\ Touch(s)
       /\ Return(c)
       /\ UNCHANGED <<poolVars, lockVars, bound, addr, reaperVars, checking>>

SubscribeFails(c) ==
    LET s == call[c].ref
    IN /\ ManageOf(c, "subscribe")
       /\ SetSubs(s, SubsOf(s) \ {call[c].dev})
       /\ Return(c)
       /\ UNCHANGED <<poolVars, lockVars, bound, recent, addr, reaperVars, checking>>

\* UnsubscribeDevice; without a manager there is nothing to do, without a subscription
\* it is an error.  With the last one hasActiveSubscriptions goes, and the session may be idle.
Unsubscribe(c) ==
    LET s == call[c].ref
        d == call[c].dev
    IN /\ ManageOf(c, "unsubscribe")
       /\ SetSubs(s, SubsOf(s) \ {d})
       /\ \/ UNCHANGED recent
          \/ SubsOf(s) = {d} /\ recent' = [recent EXCEPT ![s] = FALSE]
       /\ Return(c)
       /\ UNCHANGED <<poolVars, lockVars, bound, addr, reaperVars, checking>>

-----------------------------------------------------------------------------
(* The idle reaper (reapIdleSessions).                                     *)

\* The tick: p.closed is read, and the idle sessions are listed.
ReapScan ==
    /\ reapPc = "idle"
    /\ mu = "free"
    /\ ~Closed
    /\ toReap' = {e \in sessions : ~recent[e] /\ ~Held(<<e, "reaper">>)}
    /\ toReap' # {}
    /\ reapPc' = "lock"
    /\ UNCHANGED <<poolVars, lockVars, sessionVars, addr, call, reaping, checking>>

ReapLock ==
    /\ reapPc = "lock"
    /\ mu = "free"
    /\ mu' = "reaper"
    /\ reapPc' = "judge"
    /\ UNCHANGED <<poolVars, closePc, sessionVars, addr, call, toReap, reaping, checking>>

\* Under both locks it looks again.
ReapJudge(e) ==
    /\ reapPc = "judge"
    /\ e \in toReap
    /\ toReap' = toReap \ {e}
    /\ IF e \in sessions /\ ~recent[e]
       THEN reapPc' = "close" /\ reaping' = e
       ELSE UNCHANGED <<reapPc, reaping>>
    /\ UNCHANGED <<poolVars, lockVars, sessionVars, addr, call, checking>>

\* Those who hold session e go on holding it when it leaves the pool, as a stray
\* without a connection.
BecomeStrays(dropped, by) ==
    LET Dropped(s) == IF s \in dropped THEN <<s, by>> ELSE s
    IN /\ call' = [c \in Callers |-> [call[c] EXCEPT !.ref = Dropped(@)]]
       /\ checking' = Dropped(checking)
       /\ connected' = [s \in Sessions |-> s \notin dropped /\ connected[s]]

\* The manager stops, the client disconnects, the bindings to this endpoint
\* and the session go.
ReapClose ==
    /\ reapPc = "close"
    /\ BecomeStrays({reaping}, "reaper")
    /\ subs' = [subs EXCEPT ![reaping] = {}]
    /\ devices' = [d \in Devices |-> IF d \in bound[reaping] /\ devices[d] = reaping
                                     THEN NoEndpoint ELSE devices[d]]
    /\ sessions' = sessions \ {reaping}
    /\ bound' = [bound EXCEPT ![reaping] = {}]
    /\ recent' = [recent EXCEPT ![reaping] = FALSE]
    /\ reapPc' = "judge"
    /\ reaping' = NoEndpoint
    /\ UNCHANGED <<lockVars, addr, toReap>>

ReapUnlock ==
    /\ reapPc = "judge"
    /\ toReap = {}
    /\ mu' = "free"
    /\ reapPc' = "idle"
    /\ UNCHANGED <<poolVars, closePc, sessionVars, addr, call, toReap, reaping, checking>>

-----------------------------------------------------------------------------
(* The health checker (healthCheckLoop).                                   *)

\* checkSessionHealth takes a session from the map, then its lock.  (A pass that
\* is under way when p.closed is set goes on.)
HealthPick(e) ==
    /\ checking = NoEndpoint
    /\ closePc # "closed"
    /\ mu = "free"
    /\ e \in sessions
    /\ checking' = e
    /\ UNCHANGED <<poolVars, lockVars, sessionVars, addr, call, reaperVars>>

\* It reconnects unless the breaker is open, the client is connected or the
\* backoff runs.
HealthCheck ==
    LET held == \E c \in Callers : call[c].ref = checking
    IN /\ checking # NoEndpoint
       /\ SessionFree(checking)
       /\ \/ connected' = Forget(connected, checking, held) /\ UNCHANGED recent
          \/ /\ ~connected[checking]
             /\ connected' = Forget([connected EXCEPT ![checking] = TRUE], checking, held)
             /\ Touch(checking)
       /\ checking' = NoEndpoint
       /\ UNCHANGED <<poolVars, lockVars, bound, subs, addr, call, reaperVars>>

-----------------------------------------------------------------------------
(* Close.                                                                  *)

CloseBegins ==
    /\ closePc = "open"
    /\ mu = "free"
    /\ closePc' = "waiting"
    /\ UNCHANGED <<poolVars, mu, sessionVars, addr, call, reaperVars, checking>>

\* p.wg.Wait: the reaper and the health checker have ended.  Then every
\* session in the map is closed and the maps are new.
CloseEnds ==
    /\ closePc = "waiting"
    /\ reapPc = "idle"
    /\ checking = NoEndpoint
    /\ mu = "free"
    /\ closePc' = "closed"
    /\ sessions' = {}
    /\ devices' = [d \in Devices |-> NoEndpoint]
    /\ BecomeStrays(sessions, "close")
    /\ subs' = [e \in Endpoints |-> {}]
    /\ bound' = [e \in Endpoints |-> {}]
    /\ recent' = [e \in Endpoints |-> FALSE]
    /\ UNCHANGED <<mu, addr, reaperVars>>

-----------------------------------------------------------------------------
(* Time and configuration.                                                 *)

\* IdleTimeout passes since the last use and the last subscribe.  No attempt of
\* an operation lasts that long.
IdleTimePasses(e) ==
    /\ recent[e]
    /\ \A c \in Callers : call[c].ref = e => call[c].pc \notin {"io", "drop", "dial"}
    /\ recent' = [recent EXCEPT ![e] = FALSE]
    /\ UNCHANGED <<poolVars, lockVars, bound, subs, connected, addr, call,
                   reaperVars, checking>>

\* A configuration message changes a device's address.
Move(d, e) ==
    /\ <<d, addr[d], e>> \in Moves
    /\ addr' = [addr EXCEPT ![d] = e]
    /\ UNCHANGED <<poolVars, lockVars, sessionVars, call, reaperVars, checking>>

-----------------------------------------------------------------------------
GetClient(c) == \/ GetClientRefused(c) \/ GetClientShared(c)
                \/ GetClientExhausted(c) \/ GetClientNew(c)
Request(c) == CallRefused(c) \/ CallEnters(c) \/ RequestReturns(c) \/ RequestFails(c)
Reconnect(c) == ReconnectDrops(c) \/ ReconnectDials(c)
Manage(c) == SubscribeOk(c) \/ SubscribeFails(c) \/ Unsubscribe(c)
CallerStep(c) == GetClient(c) \/ Lookup(c) \/ Request(c) \/ Reconnect(c) \/ Manage(c)

Reap == ReapLock \/ (\E e \in Endpoints : ReapJudge(e)) \/ ReapClose \/ ReapUnlock

Next ==
    \/ \E c \in Callers : \/ \E kind \in Kinds, d \in Devices : Begin(c, kind, d)
                          \/ CallerStep(c)
    \/ ReapScan \/ Reap
    \/ (\E e \in Endpoints : HealthPick(e)) \/ HealthCheck
    \/ CloseBegins \/ CloseEnds
    \/ \E e \in Endpoints : IdleTimePasses(e)
    \/ \E d \in Devices, e \in Endpoints : Move(d, e)

Spec == Init /\ [][Next]_vars

-----------------------------------------------------------------------------
(* Properties.                                                             *)

\* A call has a device, one that gets its client an endpoint, and one that
\* works on a session has that.
CallsTyped ==
    /\ call \in [Callers -> Calls]
    /\ \A c \in Callers :
          /\ call[c].pc # "idle" => call[c].dev \in Devices
          /\ call[c].pc = "client" => call[c].key \in Endpoints
          /\ call[c].pc \in Working => call[c].ref \in Sessions
          /\ call[c].pc = "lookup" /\ call[c].kind \in {"read", "write"} => call[c].ref \in Sessions

\* Every variable has its type, and a call or the reaper that works on a session has one
\* (pool.go:51-61, 557-579, session.go:23-52).
TypeOK ==
    /\ sessions \subseteq Endpoints
    /\ devices \in [Devices -> Endpoints \cup {NoEndpoint}]
    /\ mu \in {"free", "reaper"}
    /\ closePc \in {"open", "waiting", "closed"}
    /\ bound \in [Endpoints -> SUBSET Devices]
    /\ subs \in [Endpoints -> SUBSET Devices]
    /\ connected \in [Sessions -> BOOLEAN]
    /\ recent \in [Endpoints -> BOOLEAN]
    /\ addr \in [Devices -> Endpoints]
    /\ CallsTyped
    /\ reapPc \in {"idle", "lock", "judge", "close"}
    /\ toReap \subseteq Endpoints
    /\ reaping \in Endpoints \cup {NoEndpoint}
    /\ checking \in Sessions \cup {NoEndpoint}
    /\ reapPc = "close" => reaping \in Endpoints

\* A device's binding and the device lists of the sessions say the same, through
\* moves, reaping and full pools: a device is listed by exactly the registered
\* session it is bound to (pool.go:280-329, health.go:402-411).
BindingsAgree ==
    \A d \in Devices :
        /\ devices[d] \in sessions \cup {NoEndpoint}
        /\ \A e \in sessions : d \in bound[e] <=> devices[d] = e

\* A read or write is sent to the endpoint that the device configuration it
\* was called with names, whatever the device was moved to and whatever became
\* of the session meanwhile (pool.go:722, 812).
RequestsGoWhereAsked ==
    \A c \in Callers :
        call[c].kind \in {"read", "write"} /\ call[c].pc \in {"io", "drop", "dial"}
            => KeyOf(call[c].ref) = call[c].key

\* Nothing is registered with a pool that has been closed, so nothing in it is
\* left open by Close (pool.go:274, 1035-1073).
ClosedPoolIsEmpty ==
    closePc = "closed" => sessions = {} /\ \A d \in Devices : devices[d] = NoEndpoint

\* The devices subscribed on a registered session have a connected client under them
\* (pool.go:635-683).
SubscribedIsConnected == \A e \in sessions : subs[e] # {} => connected[e]

\* A connection that devices share stays until its session leaves the pool: no retry
\* of one caller closes the connection under the others (client.go:1478-1501).
SharedConnectionStays ==
    [][\A e \in sessions : connected[e] /\ e \in sessions' => connected'[e]]_vars

=============================================================================
