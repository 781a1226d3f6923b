----------------------------- MODULE FieldPool -----------------------------
(***************************************************************************)
(* The connection pools of the Modbus and the S7 devices (adapter/modbus   *)
(* and adapter/s7: pool.go, and what client.go does to a connection).  One *)
(* client per device is created on demand, shared by the pollers and the   *)
(* commands, reconnected by whoever meets an error and by the health       *)
(* checker, and removed by the idle reaper.  The two pools have the same   *)
(* parts and differ in the order of their steps: `protocol' says which of  *)
(* them runs.                                                              *)
(*                                                                         *)
(* Time is counted in IdleTimeouts; every poller polls several times       *)
(* between two ticks.                                                      *)
(***************************************************************************)
EXTENDS Integers, FiniteSets

CONSTANTS
    Devices,
    Pollers,         \* the polling loops, one per polled device
    Polled,          \* the device of each of them
    Commanders,      \* the callers of ReadTag and WriteTag
    Nobody,          \* no client
    PerDevice,       \* bound: the clients of one device that live at one time
    MaxConnections,
    MaxRetries,
    Outages,         \* bound: how often a device goes away or answers late
    Commands         \* bound: how many calls the commanders make

ASSUME PoolAssumption ==
    /\ IsFiniteSet(Devices)
    /\ Devices # {}
    /\ Polled \in [Pollers -> Devices]
    /\ Pollers \cap Commanders = {}
    /\ PerDevice \in Nat \ {0}
    /\ Nobody \notin Devices \X (1..PerDevice)
    /\ MaxConnections \in Nat \ {0}
    /\ MaxRetries \in Nat
    /\ Outages \in Nat
    /\ Commands \in Nat

VARIABLES
    protocol,   \* "modbus" or "s7"
    pool,       \* p.clients: the client of each device
    link,       \* each client: "down" (not connected), "up", or connected
                \* over a connection that fails, with an error that the client
                \* takes for a connection error ("reset") or not ("eof")
    age,        \* each entry: the time since its client's lastUsed (Modbus) or
                \* its own lastUse (S7)
    breaker,    \* each entry: its circuit breaker
    failures,   \* each S7 entry: its last reconnection failed
    call,       \* each caller: [pc, dev, ref, entry, attempt]
    todo,       \* the clients that the health checker has yet to connect
    phase,      \* Close: "open", "closing", "closed"
    reachable,  \* the devices that accept a connection
    outages,    \* how often one went away or answered late
    commands,   \* how many commands were given
    polled,     \* the pollers that polled since the last tick
    good        \* the pollers whose last poll brought values

entry   == <<pool, age, breaker, failures>>
network == <<reachable, outages>>
report  == <<commands, polled, good>>
vars == <<protocol, entry, link, call, todo, phase, network, report>>

\* A client is made for one device and keeps its address.
Clients == Devices \X (1..PerDevice)
DeviceOf(k) == k[1]

Callers == Pollers \cup Commanders
Idle == [pc |-> "idle", dev |-> CHOOSE d \in Devices : TRUE, ref |-> Nobody,
         entry |-> Nobody, attempt |-> 0]

\* get: in GetClient or GetOrCreate; enter: before the entry is looked up for
\* its breaker; request: before a request; fail: a request met a connection
\* error; connect: reconnect is between Disconnect and Connect; again: before a
\* repeated request.
Pcs == {"idle", "look", "get", "enter", "request", "fail", "connect", "again", "panic"}

Pooled    == {pool[d] : d \in Devices} \ {Nobody}
Held      == {call[c].ref : c \in Callers} \cup {call[c].entry : c \in Callers} \cup todo
Connected == {k \in Clients : link[k] # "down"}
Free(d)   == {n \in 1..PerDevice : <<d, n>> \notin Pooled \cup Held \cup Connected}
Fresh(d)  == <<d, CHOOSE n \in 1..PerDevice : n \in Free(d)>>
Full      == Cardinality(Pooled) >= MaxConnections

\* More than an IdleTimeout has passed since the entry was last used.  A MaxTTL is
\* never configured.
Expired(d) == pool[d] # Nobody /\ age[d] = 2

Init ==
    /\ protocol \in {"modbus", "s7"}
    /\ pool = [d \in Devices |-> Nobody]
    /\ link = [k \in Clients |-> "down"]
    /\ age = [d \in Devices |-> 0]
    /\ breaker = [d \in Devices |-> "closed"]
    /\ failures = [d \in Devices |-> FALSE]
    /\ call = [c \in Callers |-> Idle]
    /\ todo = {}
    /\ phase = "open"
    /\ reachable = Devices
    /\ outages = 0
    /\ commands = 0
    /\ polled = {}
    /\ good = {}

-----------------------------------------------------------------------------
(* Connecting.                                                             *)

\* Connect: nothing to do for a client that is connected; a device that does
\* not answer leaves it as it is.  A Modbus client counts this as a use.
Connect(k) ==
    LET d == DeviceOf(k) IN
    /\ link' = IF d \in reachable /\ link[k] = "down" THEN [link EXCEPT ![k] = "up"] ELSE link
    /\ age' = IF d \in reachable /\ link[k] = "down" /\ pool[d] = k /\ protocol = "modbus"
              THEN [age EXCEPT ![d] = 0] ELSE age

CanConnect(k) == link[k] # "down" \/ DeviceOf(k) \in reachable

Disconnected(ks) == [k \in Clients |-> IF k \in ks THEN "down" ELSE link[k]]

Clear(ds) ==
    /\ age' = [d \in Devices |-> IF d \in ds THEN 0 ELSE age[d]]
    /\ breaker' = [d \in Devices |-> IF d \in ds THEN "closed" ELSE breaker[d]]
    /\ failures' = [d \in Devices |-> IF d \in ds THEN FALSE ELSE failures[d]]

\* The entries of the devices ds go, with their connections.
DropClients(ds) ==
    /\ pool' = [d \in Devices |-> IF d \in ds THEN Nobody ELSE pool[d]]
    /\ link' = Disconnected({pool[d] : d \in ds})
    /\ Clear(ds)

\* A new client with its entry and breaker, once Connect has succeeded; gone
\* are the devices whose entry was evicted for it.
Create(d, gone) ==
    /\ pool' = [e \in Devices |-> IF e = d THEN Fresh(d) ELSE IF e \in gone THEN Nobody ELSE pool[e]]
    /\ link' = [Disconnected({pool[e] : e \in gone}) EXCEPT ![Fresh(d)] = "up"]
    /\ Clear(gone \cup {d})

-----------------------------------------------------------------------------
(* A call.                                                                 *)

Return(c, ok) ==
    /\ call' = [call EXCEPT ![c] = Idle]
    /\ polled' = polled \cup ({c} \cap Pollers)
    /\ good' = IF ok THEN good \cup ({c} \cap Pollers) ELSE good \ {c}
    /\ UNCHANGED commands

Refuse(c) == Return(c, FALSE) /\ UNCHANGED <<entry, link>>

GoTo(c, where) == call' = [call EXCEPT ![c].pc = where] /\ UNCHANGED report

FirstStep == IF protocol = "modbus" THEN "get" ELSE "look"

Poll(c) ==
    /\ c \in Pollers
    /\ call[c].pc = "idle"
    /\ call' = [call EXCEPT ![c] = [Idle EXCEPT !.pc = FirstStep, !.dev = Polled[c]]]
    /\ UNCHANGED <<protocol, entry, link, todo, phase, network, report>>

Command(c) ==
    /\ c \in Commanders
    /\ call[c].pc = "idle"
    /\ commands < Commands
    /\ \E d \in Devices : call' = [call EXCEPT ![c] = [Idle EXCEPT !.pc = FirstStep, !.dev = d]]
    /\ commands' = commands + 1
    /\ UNCHANGED <<protocol, entry, link, todo, phase, network, polled, good>>

\* Modbus, GetClient: under the pool's lock from its check of closed to the
\* insertion of a new entry.
GetKnown(c) ==
    LET k == pool[call[c].dev] IN
    /\ k # Nobody
    /\ Connect(k)
    /\ UNCHANGED <<pool, breaker, failures>>
    /\ IF CanConnect(k)
       THEN call' = [call EXCEPT ![c].pc = "enter", ![c].ref = k] /\ UNCHANGED report
       ELSE Return(c, FALSE)

GetNew(c) ==
    /\ pool[call[c].dev] = Nobody
    /\ ~Full
    /\ call[c].dev \in reachable
    /\ Free(call[c].dev) # {}
    /\ Create(call[c].dev, {})
    /\ call' = [call EXCEPT ![c].pc = "enter", ![c].ref = Fresh(call[c].dev)]
    /\ UNCHANGED report

GetNothing(c) ==
    /\ pool[call[c].dev] = Nobody
    /\ Full \/ call[c].dev \notin reachable
    /\ Refuse(c)

\* Mutant: no look at closed.
MutantIgnoresClosed(c) ==
    /\ protocol = "modbus"
    /\ call[c].pc = "get"
    /\ GetKnown(c) \/ GetNew(c) \/ GetNothing(c)
    /\ UNCHANGED <<protocol, todo, phase, network>>

GetClient(c) ==
    /\ protocol = "modbus"
    /\ call[c].pc = "get"
    /\ \/ phase # "open" /\ Refuse(c)
       \/ phase = "open" /\ (GetKnown(c) \/ GetNew(c) \/ GetNothing(c))
    /\ UNCHANGED <<protocol, todo, phase, network>>

\* S7, GetOrCreate: a known client is returned as it is, a full pool evicts its
\* oldest entry if that one is idle, and nobody asks whether the pool is closed.
Known     == {d \in Devices : pool[d] # Nobody}
Oldest    == {d \in Known : \A e \in Known : age[e] <= age[d]}
Evictable == IF Full THEN {d \in Oldest : Expired(d)} ELSE {}

FindKnown(c) ==
    /\ pool[call[c].dev] # Nobody
    /\ age' = [age EXCEPT ![call[c].dev] = 0]
    /\ UNCHANGED <<pool, link, breaker, failures>>
    /\ GoTo(c, "enter")

CreateNew(c) ==
    /\ pool[call[c].dev] = Nobody
    /\ call[c].dev \in reachable
    /\ Free(call[c].dev) # {}
    /\ \/ ~Full /\ Create(call[c].dev, {})
       \/ \E d \in Evictable : Create(call[c].dev, {d})
    /\ GoTo(c, "enter")

\* The eviction stays when the new client cannot connect.
CreateNothing(c) ==
    /\ pool[call[c].dev] = Nobody
    /\ \/ Full /\ Evictable = {} /\ UNCHANGED <<entry, link>>
       \/ ~Full /\ call[c].dev \notin reachable /\ UNCHANGED <<entry, link>>
       \/ call[c].dev \notin reachable /\ \E d \in Evictable : DropClients({d})
    /\ Return(c, FALSE)

GetOrCreate(c) ==
    /\ protocol = "s7"
    /\ call[c].pc = "get"
    /\ FindKnown(c) \/ CreateNew(c) \/ CreateNothing(c)
    /\ UNCHANGED <<protocol, todo, phase, network>>

\* The circuit breaker of entry k is asked before the operation on client ref.
Execute(c, ref, k) ==
    IF breaker[DeviceOf(k)] = "open"
    THEN Return(c, FALSE)
    ELSE /\ call' = [call EXCEPT ![c].pc = "request", ![c].ref = ref, ![c].entry = k]
         /\ UNCHANGED report

\* S7: the entry of the device, and the way to GetOrCreate when it has none.
Look(c) ==
    LET k == pool[call[c].dev] IN
    /\ call[c].pc = "look"
    /\ IF k = Nobody THEN GoTo(c, "get") ELSE Execute(c, k, k)
    /\ UNCHANGED <<protocol, entry, link, todo, phase, network>>

\* The entry is looked up again.  When it is gone Modbus answers
\* ErrDeviceNotFound and S7 follows a nil pointer; Modbus works on the client
\* it was given first, whoever the entry's client is now.
Enter(c) ==
    LET k == pool[call[c].dev] IN
    /\ call[c].pc = "enter"
    /\ \/ k # Nobody /\ Execute(c, IF protocol = "modbus" THEN call[c].ref ELSE k, k)
       \/ k = Nobody /\ protocol = "modbus" /\ Return(c, FALSE)
       \/ k = Nobody /\ protocol = "s7" /\ GoTo(c, "panic")
    /\ UNCHANGED <<protocol, entry, link, todo, phase, network>>

\* What the breaker makes of an outcome.  An open one was opened by another
\* call meanwhile and ignores this one; so may a half-open one.
BreakerAfter(b, ok) ==
    CASE b = "closed" -> IF ok THEN {"closed"} ELSE {"closed", "open"}
      [] b = "half"   -> IF ok THEN {"half", "closed"} ELSE {"half", "open"}
      [] b = "open"   -> {"open"}

\* The operation returns: ok is whether it brought values or wrote them, err
\* whether the entry's breaker is told of an error.  Nobody asks the breaker of
\* an entry that was removed, so the model keeps none.
Finish(c, ok, err) ==
    LET d == call[c].dev IN
    /\ IF pool[d] = call[c].entry
       THEN \E b \in BreakerAfter(breaker[d], ~err) : breaker' = [breaker EXCEPT ![d] = b]
       ELSE UNCHANGED breaker
    /\ Return(c, ok)

Batch(c) == c \in Pollers

\* What the breaker may be told of an operation that failed.  A batch read makes
\* error points of what fails; the one of S7 returns an error all the same when
\* its context ends before its last chunk.
Errors(c) == IF ~Batch(c) THEN {TRUE} ELSE IF protocol = "s7" THEN BOOLEAN ELSE {FALSE}

Fail(c) == \E err \in Errors(c) : Finish(c, FALSE, err)

\* Over a connection that works: values, or the device refuses a single request.
Answer(c) == Finish(c, TRUE, FALSE) \/ (~Batch(c) /\ Fail(c))

\* Mutant: a batch read counts as a use.
MutantPollCounts(c, k) ==
    age' = IF protocol = "modbus" /\ pool[DeviceOf(k)] = k
           THEN [age EXCEPT ![DeviceOf(k)] = 0] ELSE age

\* Modbus WriteTag and ReadTag count as a use of the client; ReadTags does not,
\* and S7 counts no operation.
Used(c, k) ==
    age' = IF protocol = "modbus" /\ ~Batch(c) /\ pool[DeviceOf(k)] = k
           THEN [age EXCEPT ![DeviceOf(k)] = 0] ELSE age

\* The first request of an operation.  A client that is not connected, or that
\* meets an error it does not take for a connection error, gives up; so does
\* the Modbus batch read, which never reconnects.
Request(c) ==
    LET k == call[c].ref IN
    /\ call[c].pc = "request"
    /\ Used(c, k)
    /\ \/ link[k] = "up"   /\ Answer(c)
       \/ link[k] = "down" /\ Finish(c, FALSE, ~Batch(c) \/ protocol = "s7")
       \/ link[k] = "eof"  /\ Fail(c)
       \/ /\ link[k] = "reset"
          /\ IF protocol = "modbus" /\ Batch(c)
             THEN Finish(c, FALSE, FALSE)
             ELSE GoTo(c, "fail") /\ UNCHANGED breaker
    /\ UNCHANGED <<protocol, pool, link, failures, todo, phase, network>>

\* The context of a poll ends while a device answers late: Modbus makes error
\* points of the rest, S7 an error of the whole.
RequestLate(c) ==
    /\ call[c].pc = "request"
    /\ Batch(c)
    /\ link[call[c].ref] = "up"
    /\ outages < Outages
    /\ outages' = outages + 1
    /\ Finish(c, FALSE, protocol = "s7")
    /\ UNCHANGED <<protocol, pool, link, age, failures, todo, phase, reachable>>

\* reconnect: Disconnect ...
RequestFailed(c) ==
    /\ call[c].pc = "fail"
    /\ link' = Disconnected({call[c].ref})
    /\ GoTo(c, "connect")
    /\ UNCHANGED <<protocol, pool, age, breaker, failures, todo, phase, network>>

\* ... and Connect, after which the retries are used up, the context has ended,
\* or the request is repeated.
Reconnect(c) ==
    /\ call[c].pc = "connect"
    /\ Connect(call[c].ref)
    /\ \/ /\ call[c].attempt < MaxRetries
          /\ call' = [call EXCEPT ![c].pc = "again", ![c].attempt = @ + 1]
          /\ UNCHANGED <<breaker, report>>
       \/ Fail(c)
    /\ UNCHANGED <<protocol, pool, failures, todo, phase, network>>

\* To S7 a lost client is a connection error, to Modbus it is final.
RequestAgain(c) ==
    LET k == call[c].ref IN
    /\ call[c].pc = "again"
    /\ \/ link[k] = "up" /\ Answer(c)
       \/ link[k] = "reset" /\ GoTo(c, "fail") /\ UNCHANGED breaker
       \/ link[k] = "eof" /\ Fail(c)
       \/ link[k] = "down" /\ protocol = "modbus" /\ Fail(c)
       \/ link[k] = "down" /\ protocol = "s7" /\ GoTo(c, "fail") /\ UNCHANGED breaker
    /\ UNCHANGED <<protocol, pool, link, age, failures, todo, phase, network>>

Step(c) ==
    \/ GetClient(c) \/ GetOrCreate(c) \/ Look(c) \/ Enter(c)
    \/ Request(c) \/ RequestLate(c) \/ RequestFailed(c) \/ Reconnect(c) \/ RequestAgain(c)

-----------------------------------------------------------------------------
(* The background loops.                                                   *)

OpenTimeout(d) ==
    /\ breaker[d] = "open"
    /\ breaker' = [breaker EXCEPT ![d] = "half"]
    /\ UNCHANGED <<protocol, pool, link, age, failures, call, todo, phase, network, report>>

\* A round of the health checker: Modbus looks each device up when its turn
\* comes, S7 takes all disconnected clients at once.
HealthRound ==
    /\ phase = "open"
    /\ todo = {}
    /\ IF protocol = "s7"
       THEN todo' = Pooled \ Connected
       ELSE \E k \in Pooled : todo' = {k}
    /\ UNCHANGED <<protocol, entry, link, call, phase, network, report>>

StillPooled(k) == pool[DeviceOf(k)] = k
BreakerOpen(k) == StillPooled(k) /\ breaker[DeviceOf(k)] = "open"

\* It connects what it took, also when the entry is gone by now.
HealthConnect(k) ==
    /\ k \in todo
    /\ protocol = "s7" => ~BreakerOpen(k)
    /\ Connect(k)
    /\ failures' = IF protocol = "s7" /\ StillPooled(k)
                   THEN [failures EXCEPT ![DeviceOf(k)] = ~CanConnect(k)] ELSE failures
    /\ todo' = todo \ {k}
    /\ UNCHANGED <<protocol, pool, breaker, call, phase, network, report>>

\* S7 passes over an open breaker, and over a client whose backoff after a
\* failure has not ended.
HealthSkip(k) ==
    /\ k \in todo
    /\ protocol = "s7"
    /\ BreakerOpen(k) \/ ~StillPooled(k) \/ failures[DeviceOf(k)]
    /\ todo' = todo \ {k}
    /\ UNCHANGED <<protocol, entry, link, call, phase, network, report>>

ReapIdle ==
    LET idle == {d \in Devices : Expired(d)} IN
    /\ phase = "open"
    /\ idle # {}
    /\ DropClients(idle)
    /\ UNCHANGED <<protocol, call, todo, phase, network, report>>

CloseBegins ==
    /\ phase = "open"
    /\ phase' = "closing"
    /\ UNCHANGED <<protocol, entry, link, call, todo, network, report>>

\* Both loops have returned.
CloseEnds ==
    /\ phase = "closing"
    /\ todo = {}
    /\ DropClients(Known)
    /\ phase' = "closed"
    /\ UNCHANGED <<protocol, call, todo, network, report>>

-----------------------------------------------------------------------------
(* The network and the clock.                                              *)

\* A device stops answering: what its clients have open fails from now on,
\* until they connect again.
GoAway(d) ==
    /\ d \in reachable
    /\ outages < Outages
    /\ reachable' = reachable \ {d}
    /\ outages' = outages + 1
    /\ \E error \in {"reset", "eof"} :
         link' = [k \in Clients |-> IF link[k] = "up" /\ DeviceOf(k) = d THEN error ELSE link[k]]
    /\ UNCHANGED <<protocol, pool, age, breaker, failures, call, todo, phase, report>>

ComeBack(d) ==
    /\ d \notin reachable
    /\ reachable' = reachable \cup {d}
    /\ UNCHANGED <<protocol, entry, link, call, todo, phase, outages, report>>

\* External: the transport closes a connection that nobody has used for the
\* IdleTimeout it was given.
TransportIdle(k) ==
    /\ k \in Connected \ (Pooled \cup Held)
    /\ link' = Disconnected({k})
    /\ UNCHANGED <<protocol, pool, age, breaker, failures, call, todo, phase, network, report>>

\* Nobody stays between GetClient and the entry's lookup for that long.
Tick ==
    /\ polled = Pollers
    /\ \A c \in Callers : call[c].pc # "enter"
    /\ polled' = {}
    /\ age' = [d \in Devices |-> IF d \in Known /\ age[d] < 2 THEN age[d] + 1 ELSE age[d]]
    /\ UNCHANGED <<protocol, pool, link, breaker, failures, call, todo, phase, network, commands, good>>

-----------------------------------------------------------------------------
Panicked == \E c \in Callers : call[c].pc = "panic"

Health == HealthRound \/ \E k \in Clients : HealthConnect(k) \/ HealthSkip(k)

\* A nil pointer ends the process.
Next ==
    /\ ~Panicked
    /\ \/ \E c \in Pollers : Poll(c)
       \/ \E c \in Commanders : Command(c)
       \/ \E c \in Callers : Step(c)
       \/ \E k \in Clients : TransportIdle(k)
       \/ Health \/ ReapIdle \/ CloseBegins \/ CloseEnds
       \/ \E d \in Devices : OpenTimeout(d) \/ GoAway(d) \/ ComeBack(d)
       \/ Tick

Spec == Init /\ [][Next]_vars

Fairness ==
    /\ \A c \in Callers : WF_vars(~Panicked /\ Step(c))
    /\ \A c \in Pollers : WF_vars(~Panicked /\ Poll(c))
    /\ WF_vars(~Panicked /\ Health)
    /\ WF_vars(~Panicked /\ ReapIdle)
    /\ WF_vars(~Panicked /\ CloseEnds)
    /\ SF_vars(~Panicked /\ Tick)
    /\ WF_vars(~Panicked /\ \E d \in Devices : ComeBack(d))
    /\ WF_vars(~Panicked /\ \E d \in Devices : OpenTimeout(d))
    /\ \A k \in Clients : WF_vars(~Panicked /\ TransportIdle(k))

FairSpec == Spec /\ Fairness

-----------------------------------------------------------------------------
(* Properties.                                                             *)

\* Every variable has its type.
TypeOK ==
    /\ protocol \in {"modbus", "s7"}
    /\ pool \in [Devices -> Clients \cup {Nobody}]
    /\ link \in [Clients -> {"down", "up", "reset", "eof"}]
    /\ age \in [Devices -> 0..2]
    /\ breaker \in [Devices -> {"closed", "half", "open"}]
    /\ failures \in [Devices -> BOOLEAN]
    /\ call \in [Callers -> [pc : Pcs, dev : Devices,
                             ref : Clients \cup {Nobody}, entry : Clients \cup {Nobody},
                             attempt : 0..MaxRetries]]
    /\ todo \subseteq Clients
    /\ phase \in {"open", "closing", "closed"}
    /\ reachable \subseteq Devices
    /\ outages \in 0..Outages
    /\ commands \in 0..Commands
    /\ polled \subseteq Pollers
    /\ good \subseteq Pollers

\* The pool never holds more than MaxConnections clients, and a client that it
\* holds is the client of that device and of no other (the capacity checks of
\* GetClient and GetOrCreate, and the eviction).
PoolBounded ==
    /\ Cardinality(Pooled) <= MaxConnections
    /\ \A d \in Devices : pool[d] # Nobody => DeviceOf(pool[d]) = d

\* The entry is gone at its second lookup, which S7 follows without a check,
\* only when the pool was closed meanwhile: no reaper and no eviction takes it.
PanicsOnlyAfterClose == Panicked => phase = "closed"

\* Once Close of the Modbus pool has returned the pool stays empty, whichever
\* calls and health checks were under way.
ClosedModbusPoolIsEmpty == protocol = "modbus" /\ phase = "closed" => Pooled = {}

\* The safety of the pool: types, capacity, and what is left after Close.
PoolSafe == TypeOK /\ PoolBounded /\ PanicsOnlyAfterClose /\ ClosedModbusPoolIsEmpty


\* After the last outage and the last command a polled device brings values
\* again and again.  The S7 breaker may keep the health checker from
\* reconnecting for good, and the Modbus batch read never reconnects: what ends
\* this is the reaper, because a poll does not count as a use.  A command does,
\* so that commands without end can keep a Modbus connection that fails.
NoMoreCommands == \A c \in Commanders : call[c].pc = "idle"
PollsRecover ==
    <>[]NoMoreCommands =>
      \A p \in Pollers : []<>(p \in good \/ phase # "open" \/ Panicked)
=============================================================================
